--------------------------- MODULE ReactionsProofs ---------------------------
(***************************************************************************)
(* For any members, emojis and toggles: a user has one reaction, what a    *)
(* toggle broadcasts is what it did and what it did is one atomic change,  *)
(* unless its user had another under way. It needs to be known which rows  *)
(* a toggle may write: those of its own user only, as a row's id belongs   *)
(* to one user for ever.                                                   *)
(***************************************************************************)
EXTENDS Reactions, TLAPS

Toggles == [stage : ToggleStages, user : Member, emoji : Emoji \cup {None},
            existing : SUBSET ReactionRow, action : {"added", "changed", "removed"},
            list : SUBSET (Member \X Emoji), met : SUBSET Member]

(* A task that is past its INSERT, if it made one                          *)
Later == {"listing", "telling", "pushing", "told", "failed"}

(* Some row, stored or found, has id i and is of user u                    *)
Known(i, u) ==
    \/ \E r \in reactionRows : r.id = i /\ r.user = u
    \/ \E s \in Task : \E r \in toggle[s].existing : r.id = i /\ r.user = u

(* An id is of one user, and taken only once its task has inserted.        *)
IdsOwned ==
    \A i \in Task, u \in Member : Known(i, u) =>
        /\ toggle[i].stage \in Later
        /\ \A v \in Member : Known(i, v) => u = v

(* What a toggle q found, and what it is about to do with it               *)
Control(q) ==
    /\ \A r \in q.existing : r.user = q.user
    /\ q.stage \in {"selecting", "updating", "reinserting", "deleting"} => q.existing # {}
    /\ q.stage = "deleting" => q.action = "removed"
    /\ q.stage \in {"selecting", "updating", "reinserting"} => q.action = "changed"
    /\ q.stage = "inserting" => q.action = "added"
    /\ q.stage \in Writing => q.emoji # None

(* A toggle q that is alone of its user finds and leaves the user's row as *)
(* it means to; its list shows that, and all rows if it is quite alone.    *)
Effect(q, rows) ==
    /\ q.user \notin q.met /\ q.emoji # None =>
        /\ q.stage = "deleting" => \A r \in rows : r.user = q.user => r.id \in Ids(q.existing)
        /\ q.stage = "updating" => \E r \in rows : r.user = q.user /\ r.id \in Ids(q.existing)
        /\ q.stage = "listing" =>
             IF q.action = "removed" THEN \A r \in rows : r.user # q.user
             ELSE \E r \in rows : r.user = q.user /\ r.emoji = q.emoji
        /\ q.stage = "telling" =>
             IF q.action = "removed" THEN \A e \in Emoji : <<q.user, e>> \notin q.list
             ELSE <<q.user, q.emoji>> \in q.list
    /\ q.stage = "telling" /\ q.met = {} => q.list = Shown(rows)

(* Toggles that run at the same time have met each other's users.          *)
Overlap ==
    \A s, t \in Task : s # t /\ toggle[s].stage \in Running /\ toggle[t].stage \in Running =>
        toggle[s].user \in toggle[t].met

RInv == /\ ReactionsTypeOK /\ OneReactionPerUser /\ IdsOwned /\ Overlap
        /\ \A t \in Task : Control(toggle[t]) /\ Effect(toggle[t], reactionRows)

-----------------------------------------------------------------------------
LEMMA ReactionsInitInv == ReactionsInit => RInv
  <1> SUFFICES ASSUME ReactionsInit PROVE RInv
    OBVIOUS
  <1>1. NoToggle \in Toggles /\ NoToggle.stage = "unused" /\ NoToggle.existing = {}
    BY ReactionsAssumption DEF NoToggle, Toggles, ToggleStages
  <1>2. /\ reactionRows = {} /\ shownList = {}
        /\ toggle = [t \in Task |-> NoToggle]
    BY DEF ReactionsInit
  <1>3. ReactionsTypeOK
    BY <1>1, <1>2 DEF ReactionsTypeOK, Toggles
  <1>4. OneReactionPerUser /\ IdsOwned
    BY <1>1, <1>2 DEF OneReactionPerUser, IdsOwned, Known
  <1>5. Overlap
    BY <1>1, <1>2 DEF Overlap, Running, Writing
  <1>6. \A t \in Task : Control(toggle[t]) /\ Effect(toggle[t], reactionRows)
    BY <1>1, <1>2 DEF Control, Effect, Writing
  <1>7. QED
    BY <1>3, <1>4, <1>5, <1>6 DEF RInv

(* A step of one toggle that writes rows of its own user only              *)
LEMMA ToggleKeeps ==
    ASSUME RInv, NEW t \in Task, NEW r \in Toggles,
           toggle' = [toggle EXCEPT ![t] = r],
           reactionRows' \subseteq ReactionRow, shownList' \subseteq Member \X Emoji,
           OneReactionPerUser', toggle[t].stage \in Running,
           r.stage \in Running => r.user = toggle[t].user /\ r.met = toggle[t].met,
           toggle[t].stage \in Later => r.stage \in Later,
           \A i \in Task, u \in Member : Known(i, u)' =>
              \/ Known(i, u)
              \/ i = t /\ u = toggle[t].user /\ r.stage \in Later /\ toggle[t].stage \notin Later,
           \A x \in ReactionRow : x.user # toggle[t].user =>
              (x \in reactionRows <=> x \in reactionRows'),
           Control(r), Effect(r, reactionRows')
    PROVE  RInv'
  <1>1. ReactionsTypeOK'
    BY DEF RInv, ReactionsTypeOK, Toggles
  <1>2. toggle'[t] = r /\ \A s \in Task : s # t => toggle'[s] = toggle[s]
    BY DEF RInv, ReactionsTypeOK
  <1>3. IdsOwned'
    <2> SUFFICES ASSUME NEW i \in Task, NEW u \in Member, Known(i, u)'
                 PROVE  /\ toggle'[i].stage \in Later
                        /\ \A v \in Member : Known(i, v)' => u = v
      BY DEF IdsOwned
    <2>1. toggle'[i].stage \in Later
      BY <1>2 DEF RInv, IdsOwned
    <2>2. ASSUME NEW v \in Member, Known(i, v)' PROVE u = v
      BY <2>2 DEF RInv, IdsOwned
    <2>3. QED
      BY <2>1, <2>2
  <1>4. Overlap'
    BY <1>2 DEF RInv, Overlap
  <1>5. \A s \in Task : Control(toggle'[s])
    BY <1>2 DEF RInv
  <1>6. \A s \in Task : Effect(toggle'[s], reactionRows')
    <2> TAKE s \in Task
    <2>1. CASE s = t
      BY <1>2, <2>1
    <2>2. CASE s # t /\ toggle[s].stage \notin Running
      <3>1. toggle'[s] = toggle[s] /\ toggle[s].stage \notin {"deleting", "updating", "listing", "telling"}
        BY <1>2, <2>2 DEF Running, Writing
      <3>2. QED
        BY <3>1 DEF Effect
    <2>3. CASE s # t /\ toggle[s].stage \in Running
      <3>1. toggle'[s] = toggle[s] /\ Effect(toggle[s], reactionRows)
        BY <1>2, <2>3 DEF RInv
      <3>2. toggle[t].user \in toggle[s].met
        BY <2>3 DEF RInv, Overlap
      <3>3. toggle[s].user \notin toggle[s].met => toggle[s].user # toggle[t].user
        BY <3>2
      <3>4. reactionRows \subseteq ReactionRow /\ reactionRows' \subseteq ReactionRow
        BY DEF RInv, ReactionsTypeOK
      <3>5. toggle[s].user \notin toggle[s].met =>
              \A x : x.user = toggle[s].user => (x \in reactionRows <=> x \in reactionRows')
        BY <3>3, <3>4
      <3>6. QED
        BY <3>1, <3>2, <3>5 DEF Effect
    <2>4. QED
      BY <2>1, <2>2, <2>3
  <1>7. QED
    BY <1>1, <1>3, <1>4, <1>5, <1>6 DEF RInv

(* A step that writes no row and finds at most stored ones                 *)
LEMMA ReadingKeeps ==
    ASSUME RInv, NEW t \in Task, NEW r \in Toggles,
           toggle' = [toggle EXCEPT ![t] = r], reactionRows' = reactionRows,
           shownList' \subseteq Member \X Emoji, toggle[t].stage \in Running,
           r.stage \in Running => r.user = toggle[t].user /\ r.met = toggle[t].met,
           toggle[t].stage \in Later => r.stage \in Later,
           r.existing \subseteq reactionRows \/ r.existing = toggle[t].existing,
           Control(r), Effect(r, reactionRows)
    PROVE  RInv'
  <1>1. toggle'[t] = r /\ \A s \in Task : s # t => toggle'[s] = toggle[s]
    BY DEF RInv, ReactionsTypeOK
  <1>2. \A i \in Task, u \in Member : Known(i, u)' => Known(i, u)
    BY <1>1 DEF Known
  <1>3. reactionRows' \subseteq ReactionRow /\ OneReactionPerUser'
    BY DEF RInv, ReactionsTypeOK, OneReactionPerUser
  <1>4. QED
    BY <1>2, <1>3, ToggleKeeps

(* A row that carries an id a toggle found is of that toggle's user.       *)
LEMMA FoundRowsOwned ==
    ASSUME RInv, NEW t \in Task, NEW x \in reactionRows, x.id \in Ids(toggle[t].existing)
    PROVE  x.user = toggle[t].user
  <1>1. PICK e \in toggle[t].existing : e.id = x.id
    BY DEF Ids
  <1>2. e.user = toggle[t].user /\ e.user \in Member /\ x.user \in Member /\ x.id \in Task
    BY DEF Control, RInv, ReactionsTypeOK, ReactionRow
  <1>3. Known(x.id, x.user) /\ Known(x.id, e.user)
    BY <1>1 DEF Known
  <1>4. QED
    BY <1>2, <1>3 DEF RInv, IdsOwned

LEMMA FindStep ==
    ASSUME RInv, NEW t \in Task, Find(t)
    PROVE  RInv'
  <1> DEFINE mine == {r \in reactionRows : r.user = toggle[t].user}
             same == {r \in mine : r.emoji = toggle[t].emoji}
             found == IF toggle[t].emoji = None THEN {} ELSE mine
             action == IF toggle[t].emoji = None \/ same # {} THEN "removed"
                       ELSE IF mine # {} THEN "changed" ELSE "added"
             stage == IF toggle[t].emoji = None THEN "listing"
                      ELSE IF same # {} THEN "deleting"
                      ELSE IF mine # {} THEN "selecting" ELSE "inserting"
             r == [toggle[t] EXCEPT !.existing = found, !.action = action, !.stage = stage]
  <1>1. /\ toggle[t].stage = "asked" /\ toggle[t] \in Toggles
        /\ UNCHANGED <<reactionRows, shownList>>
    BY DEF Find, At, RInv, ReactionsTypeOK, Toggles
  <1>2. toggle' = [toggle EXCEPT ![t] = r]
    BY DEF Find, Mine, Same, RInv, ReactionsTypeOK
  <1>3. /\ found \subseteq reactionRows /\ found \subseteq ReactionRow
        /\ \A x \in found : x.user = toggle[t].user
        /\ same \subseteq mine /\ mine \subseteq reactionRows
        /\ \A x \in reactionRows : x.user = toggle[t].user => x \in mine
    BY DEF RInv, ReactionsTypeOK
  <1> HIDE DEF mine, same
  <1>4. /\ stage \in {"listing", "deleting", "selecting", "inserting"}
        /\ action \in {"added", "changed", "removed"}
        /\ stage \in {"selecting", "deleting"} => found # {}
        /\ stage = "deleting" => action = "removed" /\ found = mine
        /\ stage = "selecting" => action = "changed"
        /\ stage = "inserting" => action = "added"
        /\ stage # "listing" <=> toggle[t].emoji # None
    BY <1>3
  <1> HIDE DEF found, action, stage
  <1>5. /\ r \in Toggles /\ r.stage = stage /\ r.existing = found /\ r.action = action
        /\ r.user = toggle[t].user /\ r.met = toggle[t].met /\ r.emoji = toggle[t].emoji
    BY <1>1, <1>3, <1>4 DEF Toggles, ToggleStages, Running, Writing
  <1> HIDE DEF r
  <1>6. Control(r)
    BY <1>3, <1>4, <1>5 DEF Control, Writing
  <1>7. Effect(r, reactionRows)
    BY <1>3, <1>4, <1>5 DEF Effect, Ids
  <1>8. toggle[t].stage \in Running /\ toggle[t].stage \notin Later
    BY <1>1 DEF Running, Later
  <1>9. shownList' \subseteq Member \X Emoji
    BY <1>1 DEF RInv, ReactionsTypeOK
  <1>10. QED
    BY <1>1, <1>2, <1>3, <1>5, <1>6, <1>7, <1>8, <1>9, ReadingKeeps

LEMMA DeleteStep ==
    ASSUME RInv, NEW t \in Task, Delete(t)
    PROVE  RInv'
  <1> DEFINE r == [toggle[t] EXCEPT !.stage = "listing"]
  <1>1. /\ toggle[t].stage = "deleting" /\ toggle[t] \in Toggles
        /\ reactionRows' = {x \in reactionRows : x.id \notin Ids(toggle[t].existing)}
        /\ toggle' = [toggle EXCEPT ![t] = r]
        /\ shownList' = shownList
    BY DEF Delete, At, Go, RInv, ReactionsTypeOK, Toggles
  <1>2. /\ r \in Toggles /\ r.stage = "listing"
        /\ r.user = toggle[t].user /\ r.met = toggle[t].met /\ r.emoji = toggle[t].emoji
        /\ r.existing = toggle[t].existing /\ r.action = toggle[t].action
    BY <1>1 DEF Toggles, ToggleStages, Running, Writing
  <1> HIDE DEF r
  <1>3. Control(toggle[t]) /\ Effect(toggle[t], reactionRows)
    BY DEF RInv
  <1>4. Control(r) /\ r.action = "removed"
    BY <1>1, <1>2, <1>3 DEF Control, Writing
  <1>5. Effect(r, reactionRows')
    BY <1>1, <1>2, <1>3, <1>4 DEF Effect
  <1>6. \A x \in ReactionRow : x.user # toggle[t].user =>
           (x \in reactionRows <=> x \in reactionRows')
    BY <1>1, FoundRowsOwned
  <1>7. \A i \in Task, u \in Member : Known(i, u)' => Known(i, u)
    <2>1. toggle'[t].existing = toggle[t].existing /\ \A s \in Task : s # t => toggle'[s] = toggle[s]
      BY <1>1, <1>2 DEF RInv, ReactionsTypeOK
    <2>2. reactionRows' \subseteq reactionRows
      BY <1>1
    <2>3. QED
      BY <2>1, <2>2 DEF Known
  <1>8. /\ reactionRows' \subseteq ReactionRow /\ OneReactionPerUser'
        /\ shownList' \subseteq Member \X Emoji
    BY <1>1 DEF RInv, ReactionsTypeOK, OneReactionPerUser
  <1>9. toggle[t].stage \in Running /\ toggle[t].stage \notin Later
    BY <1>1 DEF Running, Writing, Later
  <1>10. QED
    BY <1>1, <1>2, <1>4, <1>5, <1>6, <1>7, <1>8, <1>9, ToggleKeeps

LEMMA SaveSelectStep ==
    ASSUME RInv, NEW t \in Task, SaveSelect(t)
    PROVE  RInv'
  <1> DEFINE stage == IF Ids(toggle[t].existing) \subseteq Ids(reactionRows)
                      THEN "updating" ELSE "reinserting"
             r == [toggle[t] EXCEPT !.stage = stage]
  <1>1. /\ toggle[t].stage = "selecting" /\ toggle[t] \in Toggles
        /\ UNCHANGED <<reactionRows, shownList>>
        /\ toggle' = [toggle EXCEPT ![t] = r]
    BY DEF SaveSelect, At, Go, RInv, ReactionsTypeOK, Toggles
  <1>2. stage \in {"updating", "reinserting"}
    OBVIOUS
  <1>3. stage = "updating" => Ids(toggle[t].existing) \subseteq Ids(reactionRows)
    OBVIOUS
  <1> HIDE DEF stage
  <1>4. /\ r \in Toggles /\ r.stage = stage
        /\ r.user = toggle[t].user /\ r.met = toggle[t].met /\ r.emoji = toggle[t].emoji
        /\ r.existing = toggle[t].existing /\ r.action = toggle[t].action
    BY <1>1, <1>2 DEF Toggles, ToggleStages, Running, Writing
  <1> HIDE DEF r
  <1>5. Control(toggle[t])
    BY DEF RInv
  <1>6. Control(r)
    BY <1>1, <1>2, <1>4, <1>5 DEF Control, Writing
  <1>7. Effect(r, reactionRows)
    <2> SUFFICES ASSUME r.stage = "updating"
                 PROVE  \E x \in reactionRows : x.user = r.user /\ x.id \in Ids(r.existing)
      BY <1>2, <1>4 DEF Effect
    <2>1. PICK e \in toggle[t].existing : TRUE
      BY <1>1, <1>5 DEF Control
    <2>2. PICK x \in reactionRows : x.id = e.id
      BY <1>3, <1>4 DEF Ids
    <2>3. x.id \in Ids(toggle[t].existing)
      BY <2>2 DEF Ids
    <2>4. QED
      BY <1>4, <2>3, FoundRowsOwned
  <1>8. toggle[t].stage \in Running /\ toggle[t].stage \notin Later
    BY <1>1 DEF Running, Writing, Later
  <1>9. shownList' \subseteq Member \X Emoji
    BY <1>1 DEF RInv, ReactionsTypeOK
  <1>10. QED
    BY <1>1, <1>4, <1>6, <1>7, <1>8, <1>9, ReadingKeeps

LEMMA SaveUpdateStep ==
    ASSUME RInv, NEW t \in Task, SaveUpdate(t)
    PROVE  RInv'
  <1> DEFINE r == [toggle[t] EXCEPT !.stage = "listing"]
             New(x) == IF x.id \in Ids(toggle[t].existing)
                       THEN [x EXCEPT !.emoji = toggle[t].emoji] ELSE x
  <1>1. /\ toggle[t].stage = "updating" /\ toggle[t] \in Toggles
        /\ reactionRows' = {New(x) : x \in reactionRows}
        /\ toggle' = [toggle EXCEPT ![t] = r]
        /\ shownList' = shownList
    BY DEF SaveUpdate, At, Go, RInv, ReactionsTypeOK, Toggles
  <1>2. /\ r \in Toggles /\ r.stage = "listing"
        /\ r.user = toggle[t].user /\ r.met = toggle[t].met /\ r.emoji = toggle[t].emoji
        /\ r.existing = toggle[t].existing /\ r.action = toggle[t].action
    BY <1>1 DEF Toggles, ToggleStages, Running, Writing
  <1> HIDE DEF r
  <1>3. Control(toggle[t]) /\ Effect(toggle[t], reactionRows) /\ toggle[t].emoji \in Emoji
    BY <1>1 DEF RInv, Control, Writing, Toggles
  <1>4. Control(r) /\ r.action = "changed"
    BY <1>1, <1>2, <1>3 DEF Control, Writing
  <1>5. \A x \in reactionRows :
          /\ x \in ReactionRow /\ New(x) \in ReactionRow
          /\ New(x).id = x.id /\ New(x).user = x.user
          /\ x.id \in Ids(toggle[t].existing) => New(x).emoji = toggle[t].emoji
          /\ x.id \notin Ids(toggle[t].existing) => New(x) = x
    BY <1>3 DEF RInv, ReactionsTypeOK, ReactionRow
  <1> HIDE DEF New
  <1>6. Effect(r, reactionRows')
    BY <1>1, <1>2, <1>3, <1>4, <1>5 DEF Effect
  <1>7. \A x \in reactionRows : x.user # toggle[t].user => New(x) = x
    BY <1>5, FoundRowsOwned
  <1>8. \A x \in ReactionRow : x.user # toggle[t].user =>
           (x \in reactionRows <=> x \in reactionRows')
    BY <1>1, <1>5, <1>7
  <1>9. \A i \in Task, u \in Member : Known(i, u)' => Known(i, u)
    <2>1. toggle'[t].existing = toggle[t].existing /\ \A s \in Task : s # t => toggle'[s] = toggle[s]
      BY <1>1, <1>2 DEF RInv, ReactionsTypeOK
    <2>2. \A y \in reactionRows' : \E x \in reactionRows : x.id = y.id /\ x.user = y.user
      BY <1>1, <1>5
    <2>3. QED
      BY <2>1, <2>2 DEF Known
  <1>10. reactionRows' \subseteq ReactionRow /\ shownList' \subseteq Member \X Emoji
    BY <1>1, <1>5 DEF RInv, ReactionsTypeOK
  <1>11. OneReactionPerUser'
    <2>1. \A x, y \in reactionRows : x.user = y.user \/ x.id = y.id => x = y
      BY DEF RInv, OneReactionPerUser
    <2>2. \A x, y \in reactionRows' : x.user = y.user \/ x.id = y.id => x = y
      BY <1>1, <1>5, <2>1
    <2>3. QED
      BY <2>2 DEF OneReactionPerUser
  <1>12. toggle[t].stage \in Running /\ toggle[t].stage \notin Later
    BY <1>1 DEF Running, Writing, Later
  <1>13. QED
    BY <1>1, <1>2, <1>4, <1>6, <1>8, <1>9, <1>10, <1>11, <1>12, ToggleKeeps

(* A failed request has no part in anything any more.                      *)
LEMMA EndKeeps ==
    ASSUME RInv, NEW t \in Task, NEW stage \in {"failed", "told", "pushing"},
           toggle[t].stage \in Running, End(t, stage), reactionRows' = reactionRows,
           shownList' \subseteq Member \X Emoji
    PROVE  RInv'
  <1> DEFINE r == [NoToggle EXCEPT !.stage = stage]
  <1>1. r \in Toggles /\ r.stage = stage /\ r.existing = {}
    BY ReactionsAssumption DEF NoToggle, Toggles, ToggleStages
  <1>2. toggle' = [toggle EXCEPT ![t] = r]
    BY DEF End
  <1> HIDE DEF r
  <1>3. Control(r) /\ Effect(r, reactionRows) /\ r.stage \in Later /\ r.stage \notin Running
    BY <1>1 DEF Control, Effect, Later, Writing, Running
  <1>4. QED
    BY <1>1, <1>2, <1>3, ReadingKeeps

(* The INSERT of a row with the task's own id, or with the id of the row   *)
(* that it found and another toggle has deleted since                      *)
LEMMA InsertRowStep ==
    ASSUME RInv, NEW t \in Task, NEW id \in Task, InsertRow(t, id), shownList' = shownList,
           \/ toggle[t].stage = "inserting" /\ id = t
           \/ toggle[t].stage = "reinserting" /\ id \in Ids(toggle[t].existing)
    PROVE  RInv'
  <1>1. /\ toggle[t] \in Toggles /\ toggle[t].stage \in Running /\ toggle[t].stage \notin Later
        /\ shownList' \subseteq Member \X Emoji
    BY DEF RInv, ReactionsTypeOK, Toggles, Running, Writing, Later
  <1>2. CASE \E x \in reactionRows : x.user = toggle[t].user \/ x.id = id
    <2>1. End(t, "failed") /\ reactionRows' = reactionRows
      BY <1>2 DEF InsertRow
    <2>2. QED
      BY <1>1, <2>1, EndKeeps
  <1>3. CASE ~ \E x \in reactionRows : x.user = toggle[t].user \/ x.id = id
    <2> DEFINE row == [id |-> id, user |-> toggle[t].user, emoji |-> toggle[t].emoji]
               r == [toggle[t] EXCEPT !.stage = "listing"]
    <2>1. /\ reactionRows' = reactionRows \cup {row}
          /\ toggle' = [toggle EXCEPT ![t] = r]
      BY <1>1, <1>3 DEF InsertRow, Go, RInv, ReactionsTypeOK
    <2>2. Control(toggle[t])
      BY DEF RInv
    <2>3. /\ row \in ReactionRow /\ row.id = id /\ row.user = toggle[t].user
          /\ row.emoji = toggle[t].emoji
      BY <1>1, <2>2 DEF Control, Writing, ReactionRow, Toggles
    <2>4. /\ r \in Toggles /\ r.stage = "listing"
          /\ r.user = toggle[t].user /\ r.met = toggle[t].met /\ r.emoji = toggle[t].emoji
          /\ r.existing = toggle[t].existing /\ r.action = toggle[t].action
      BY <1>1 DEF Toggles, ToggleStages, Running, Writing
    <2> HIDE DEF row, r
    <2>5. Control(r) /\ r.action # "removed"
      BY <2>2, <2>4 DEF Control, Writing
    <2>6. Effect(r, reactionRows')
      BY <2>1, <2>3, <2>4, <2>5 DEF Effect
    <2>7. \A i \in Task, u \in Member : Known(i, u)' =>
            Known(i, u) \/ (i = t /\ u = toggle[t].user)
      <3>1. toggle'[t].existing = toggle[t].existing
            /\ \A s \in Task : s # t => toggle'[s] = toggle[s]
        BY <2>1, <2>4 DEF RInv, ReactionsTypeOK
      <3>2. id = t \/ Known(id, toggle[t].user)
        BY <2>2 DEF Known, Ids, Control
      <3>3. QED
        BY <2>1, <2>3, <3>1, <3>2 DEF Known
    <2>8. \A x \in ReactionRow : x.user # toggle[t].user =>
             (x \in reactionRows <=> x \in reactionRows')
      BY <2>1, <2>3
    <2>9. reactionRows' \subseteq ReactionRow
      BY <2>1, <2>3 DEF RInv, ReactionsTypeOK
    <2>10. OneReactionPerUser'
      BY <1>3, <2>1, <2>3 DEF RInv, OneReactionPerUser
    <2>11. r.stage \in Later
      BY <2>4 DEF Later
    <2>12. QED
      BY <1>1, <2>1, <2>4, <2>5, <2>6, <2>7, <2>8, <2>9, <2>10, <2>11, ToggleKeeps
  <1>4. QED
    BY <1>2, <1>3

LEMMA InsertStep ==
    ASSUME RInv, NEW t \in Task, Insert(t) \/ SaveInsert(t)
    PROVE  RInv'
  <1>1. CASE Insert(t)
    BY <1>1, InsertRowStep DEF Insert, At
  <1>2. CASE SaveInsert(t)
    <2>1. PICK e \in toggle[t].existing : InsertRow(t, e.id)
      BY <1>2 DEF SaveInsert
    <2>2. toggle[t].stage = "reinserting" /\ e.id \in Ids(toggle[t].existing) /\ e.id \in Task
      BY <1>2 DEF SaveInsert, At, Ids, RInv, ReactionsTypeOK, ReactionRow
    <2>3. QED
      BY <1>2, <2>1, <2>2, InsertRowStep DEF SaveInsert
  <1>3. QED
    BY <1>1, <1>2

LEMMA ListStep ==
    ASSUME RInv, NEW t \in Task, List(t)
    PROVE  RInv'
  <1> DEFINE list == Shown(reactionRows)
             r == [toggle[t] EXCEPT !.stage = "telling", !.list = list]
  <1>1. /\ toggle[t].stage = "listing" /\ toggle[t] \in Toggles
        /\ UNCHANGED <<reactionRows, shownList>>
        /\ toggle' = [toggle EXCEPT ![t] = r]
    BY DEF List, At, RInv, ReactionsTypeOK, Toggles
  <1>2. reactionRows \subseteq ReactionRow
    BY DEF RInv, ReactionsTypeOK
  <1>3. /\ list \in SUBSET (Member \X Emoji)
        /\ \A x \in reactionRows : <<x.user, x.emoji>> \in list
        /\ \A u, e : <<u, e>> \in list => \E x \in reactionRows : x.user = u /\ x.emoji = e
    BY <1>2 DEF Shown, ReactionRow
  <1>4. list = Shown(reactionRows)
    OBVIOUS
  <1> HIDE DEF list
  <1>5. /\ r \in Toggles /\ r.stage = "telling" /\ r.list = list
        /\ r.user = toggle[t].user /\ r.met = toggle[t].met /\ r.emoji = toggle[t].emoji
        /\ r.existing = toggle[t].existing /\ r.action = toggle[t].action
    BY <1>1, <1>3 DEF Toggles, ToggleStages, Running, Writing
  <1> HIDE DEF r
  <1>6. Control(toggle[t]) /\ Effect(toggle[t], reactionRows)
    BY DEF RInv
  <1>7. Control(r)
    BY <1>1, <1>5, <1>6 DEF Control, Writing
  <1>8. Effect(r, reactionRows)
    BY <1>1, <1>3, <1>4, <1>5, <1>6 DEF Effect
  <1>9. /\ toggle[t].stage \in Running /\ r.stage \in Later
        /\ shownList' \subseteq Member \X Emoji
    BY <1>1, <1>5 DEF Running, Later, RInv, ReactionsTypeOK
  <1>10. QED
    BY <1>1, <1>5, <1>7, <1>8, <1>9, ReadingKeeps

LEMMA TellStep ==
    ASSUME RInv, NEW t \in Task, Tell(t) \/ ReactFails(t)
    PROVE  RInv'
  <1>1. toggle[t] \in Toggles
    BY DEF RInv, ReactionsTypeOK, Toggles
  <1>2. CASE Tell(t)
    BY <1>1, <1>2, EndKeeps DEF Tell, At, Toggles, Running
  <1>3. CASE ReactFails(t)
    BY <1>3, EndKeeps DEF ReactFails, RInv, ReactionsTypeOK
  <1>4. QED
    BY <1>2, <1>3

(* deliverReactionPush of a toggle that has ended                          *)
LEMMA PushReactionStep ==
    ASSUME RInv, NEW t \in Task, PushReaction(t)
    PROVE  RInv'
  <1> DEFINE r == [toggle[t] EXCEPT !.stage = "told"]
  <1>1. /\ toggle[t].stage = "pushing" /\ toggle[t] \in Toggles
        /\ UNCHANGED <<reactionRows, shownList>>
        /\ toggle' = [toggle EXCEPT ![t] = r]
    BY DEF PushReaction, At, Go, RInv, ReactionsTypeOK, Toggles
  <1>2. r \in Toggles /\ r.stage = "told" /\ r.user = toggle[t].user /\ r.existing = toggle[t].existing
    BY <1>1 DEF Toggles, ToggleStages
  <1> HIDE DEF r
  <1>3. toggle'[t] = r /\ \A s \in Task : s # t => toggle'[s] = toggle[s]
    BY <1>1 DEF RInv, ReactionsTypeOK
  <1>4. ReactionsTypeOK' /\ OneReactionPerUser'
    BY <1>1, <1>2 DEF RInv, ReactionsTypeOK, OneReactionPerUser, Toggles
  <1>5. IdsOwned'
    <2>1. \A i \in Task, u \in Member : Known(i, u)' => Known(i, u)
      BY <1>1, <1>2, <1>3 DEF Known
    <2>2. \A i \in Task : toggle[i].stage \in Later => toggle'[i].stage \in Later
      BY <1>2, <1>3 DEF Later
    <2>3. QED
      BY <2>1, <2>2 DEF RInv, IdsOwned
  <1>6. Overlap'
    BY <1>2, <1>3 DEF RInv, Overlap, Running, Writing
  <1>7. Control(r) /\ Effect(r, reactionRows)
    BY <1>2 DEF RInv, Control, Effect, Writing
  <1>8. \A s \in Task : Control(toggle'[s]) /\ Effect(toggle'[s], reactionRows')
    BY <1>1, <1>3, <1>7 DEF RInv
  <1>9. QED
    BY <1>4, <1>5, <1>6, <1>8 DEF RInv

(* A request that arrives meets those that run, and they meet it.          *)
LEMMA ReactStep ==
    ASSUME RInv, NEW t \in Task, NEW u \in Member, NEW e \in Emoji \cup {None}, React(t, u, e)
    PROVE  RInv'
  <1> DEFINE running == {s \in Task : toggle[s].stage \in Running}
             met == {toggle[s].user : s \in running}
             r == [NoToggle EXCEPT !.stage = "asked", !.user = u, !.emoji = e, !.met = met]
             More(q) == [q EXCEPT !.met = @ \cup {u}]
  <1>1. /\ toggle[t].stage = "unused" /\ UNCHANGED <<reactionRows, shownList>>
        /\ toggle' = [s \in Task |-> IF s = t THEN r
                                     ELSE IF s \in running THEN More(toggle[s]) ELSE toggle[s]]
    BY DEF React, At
  <1>2. \A s \in Task : toggle[s] \in Toggles
    BY DEF RInv, ReactionsTypeOK, Toggles
  <1>3. met \subseteq Member /\ \A s \in running : toggle[s].user \in met
    BY <1>2 DEF Toggles
  <1>4. t \notin running
    BY <1>1 DEF Running, Writing
  <1>5. \A s \in Task : (s \in running <=> toggle[s].stage \in Running)
    OBVIOUS
  <1> HIDE DEF running, met
  <1>6. /\ r \in Toggles /\ r.stage = "asked" /\ r.user = u /\ r.met = met /\ r.existing = {}
    BY <1>3 DEF NoToggle, Toggles, ToggleStages, Running
  <1> HIDE DEF r
  <1>7. \A q \in Toggles :
          /\ More(q) \in Toggles
          /\ More(q).stage = q.stage /\ More(q).user = q.user /\ More(q).emoji = q.emoji
          /\ More(q).existing = q.existing /\ More(q).action = q.action
          /\ More(q).list = q.list /\ More(q).met = q.met \cup {u}
    BY DEF Toggles
  <1> HIDE DEF More
  <1>8. \A s \in Task : /\ toggle'[s] \in Toggles
                        /\ s = t => toggle'[s] = r
                        /\ s \in running => toggle'[s] = More(toggle[s])
                        /\ s # t /\ s \notin running => toggle'[s] = toggle[s]
    BY <1>1, <1>2, <1>4, <1>6, <1>7
  <1>9. ReactionsTypeOK' /\ OneReactionPerUser'
    BY <1>1, <1>8 DEF RInv, ReactionsTypeOK, OneReactionPerUser, Toggles
  <1>10. IdsOwned'
    <2>1. \A s \in Task : toggle'[s].existing \subseteq toggle[s].existing
      BY <1>2, <1>6, <1>7, <1>8
    <2>2. \A i \in Task, v \in Member : Known(i, v)' => Known(i, v)
      BY <1>1, <2>1 DEF Known
    <2>3. \A i \in Task : toggle[i].stage \in Later => toggle'[i].stage = toggle[i].stage
      BY <1>1, <1>2, <1>7, <1>8 DEF Later
    <2>4. QED
      BY <2>2, <2>3 DEF RInv, IdsOwned
  <1>11. Overlap'
    <2> SUFFICES ASSUME NEW p \in Task, NEW s \in Task, p # s,
                        toggle'[p].stage \in Running, toggle'[s].stage \in Running
                 PROVE  toggle'[p].user \in toggle'[s].met
      BY DEF Overlap
    <2>1. /\ p = t \/ p \in running
          /\ s = t \/ s \in running
      BY <1>5, <1>8
    <2>2. CASE p = t
      BY <1>2, <1>6, <1>7, <1>8, <2>1, <2>2
    <2>3. CASE p \in running /\ s = t
      BY <1>2, <1>3, <1>6, <1>7, <1>8, <2>3
    <2>4. CASE p \in running /\ s \in running
      BY <1>2, <1>5, <1>7, <1>8, <2>4 DEF RInv, Overlap
    <2>5. QED
      BY <2>1, <2>2, <2>3, <2>4
  <1>12. \A s \in Task : Control(toggle'[s]) /\ Effect(toggle'[s], reactionRows')
    <2> TAKE s \in Task
    <2>1. Control(toggle[s]) /\ Effect(toggle[s], reactionRows)
      BY DEF RInv
    <2>2. CASE s = t
      BY <1>6, <1>8, <2>2 DEF Control, Effect, Writing
    <2>3. CASE s \in running
      <3>1. Control(More(toggle[s]))
        BY <1>2, <1>7, <2>1 DEF Control
      <3>2. Effect(More(toggle[s]), reactionRows)
        BY <1>2, <1>7, <2>1 DEF Effect
      <3>3. QED
        BY <1>1, <1>8, <2>3, <3>1, <3>2
    <2>4. CASE s # t /\ s \notin running
      BY <1>1, <1>8, <2>1, <2>4
    <2>5. QED
      BY <2>2, <2>3, <2>4
  <1>13. QED
    BY <1>9, <1>10, <1>11, <1>12 DEF RInv

-----------------------------------------------------------------------------
LEMMA ReactionsNextInv == RInv /\ [ReactionsNext]_reactionVars => RInv'
  <1>1. ASSUME RInv, UNCHANGED reactionVars PROVE RInv'
    <2>1. toggle' = toggle /\ reactionRows' = reactionRows /\ shownList' = shownList
      BY <1>1 DEF reactionVars
    <2>2. ReactionsTypeOK' /\ OneReactionPerUser' /\ Overlap'
      BY <1>1, <2>1 DEF RInv, ReactionsTypeOK, OneReactionPerUser, Overlap
    <2>3. \A i \in Task, u \in Member : Known(i, u)' = Known(i, u)
      BY <2>1 DEF Known
    <2>4. IdsOwned'
      BY <1>1, <2>1, <2>3 DEF RInv, IdsOwned
    <2>5. QED
      BY <1>1, <2>1, <2>2, <2>4 DEF RInv
  <1>2. ASSUME RInv, ReactionsNext PROVE RInv'
    BY <1>2, ReactStep, FindStep, DeleteStep, SaveSelectStep, SaveUpdateStep, InsertStep,
       ListStep, TellStep, PushReactionStep DEF ReactionsNext, ToggleStep
  <1>3. QED
    BY <1>1, <1>2

LEMMA ReactionsInvariant == ReactionsSpec => []RInv
  BY ReactionsInitInv, ReactionsNextInv, PTL DEF ReactionsSpec

(* A user has one reaction on a message, whatever toggles do to rows they  *)
(* looked at long before (messages.service toggleReaction).                *)
THEOREM OneReaction == ReactionsSpec => []OneReactionPerUser
  BY ReactionsInvariant, PTL DEF RInv

(* Only the broadcast of a toggle ends its stage `telling'.                *)
LEMMA OnlyTellTells ==
    ASSUME RInv, [ReactionsNext]_reactionVars, NEW t \in Task,
           At(t, "telling"), toggle'[t].stage \in {"pushing", "told"}
    PROVE  shownList' = toggle[t].list /\ reactionRows' = reactionRows
  <1>1. toggle \in [Task -> Toggles]
    BY DEF RInv, ReactionsTypeOK, Toggles
  <1>2. toggle'[t] # toggle[t]
    BY DEF At
  <1>3. PICK s \in Task : ToggleStep(s) \/ \E u \in Member, e \in Emoji \cup {None} : React(s, u, e)
    BY <1>2 DEF ReactionsNext, reactionVars
  <1>4. ASSUME NEW u \in Member, NEW e \in Emoji \cup {None}, React(s, u, e) PROVE FALSE
    <2>1. s # t
      BY <1>4 DEF React, At
    <2>2. toggle'[t].stage = toggle[t].stage
      BY <1>1, <1>4, <2>1 DEF React, Toggles
    <2>3. QED
      BY <2>2 DEF At
  <1>5. s = t
    BY <1>1, <1>2, <1>3, <1>4 DEF ToggleStep, Find, Delete, SaveSelect, SaveUpdate, Insert,
       SaveInsert, InsertRow, List, Tell, PushReaction, ReactFails, Go, End
  <1>6. Tell(t)
    BY <1>3, <1>4, <1>5 DEF ToggleStep, Find, Delete, SaveSelect, SaveUpdate, Insert,
       SaveInsert, List, PushReaction, ReactFails, At
  <1>7. QED
    BY <1>6 DEF Tell

(* The broadcast of a toggle shows what it did, however the lists of other *)
(* users' toggles overtake each other (gateway onReact).                   *)
THEOREM OwnTold == ReactionsSpec => OwnToggleTold
  <1> DEFINE Told ==
        \A t \in Task : At(t, "telling") /\ toggle'[t].stage \in {"pushing", "told"}
                       /\ toggle[t].user \notin toggle[t].met
                       /\ toggle[t].emoji # None
         => IF toggle[t].action = "removed"
            THEN \A e \in Emoji : <<toggle[t].user, e>> \notin shownList'
            ELSE <<toggle[t].user, toggle[t].emoji>> \in shownList'
  <1>1. RInv /\ [ReactionsNext]_reactionVars => Told
    BY OnlyTellTells DEF RInv, Effect, At
  <1>2. QED
    BY <1>1, ReactionsInvariant, PTL DEF OwnToggleTold, ReactionsSpec

(* A toggle that ran alone leaves everyone with the rows as they are.      *)
THEOREM LoneTold == ReactionsSpec => LoneToggleTellsRows
  <1> DEFINE Told ==
        \A t \in Task : At(t, "telling") /\ toggle'[t].stage \in {"pushing", "told"}
                       /\ toggle[t].met = {}
         => shownList' = Shown(reactionRows)
  <1>1. RInv /\ [ReactionsNext]_reactionVars => Told
    BY OnlyTellTells DEF RInv, Effect, At
  <1>2. QED
    BY <1>1, ReactionsInvariant, PTL DEF LoneToggleTellsRows, ReactionsSpec

-----------------------------------------------------------------------------
(* A toggle that is alone of its user and about to write still sees what   *)
(* it found: its emoji if it is to be removed, and otherwise not.          *)
Meant(q, rows) ==
    q.user \notin q.met /\ q.stage \in Writing =>
        IF q.action = "removed" THEN \E x \in rows : x.user = q.user /\ x.emoji = q.emoji
        ELSE \A x \in rows : x.user = q.user => x.emoji # q.emoji

MInv == RInv /\ \A t \in Task : Meant(toggle[t], reactionRows)

(* rows and more hold the same rows of all users but u.                    *)
SameBut(u, rows, more) == \A x \in ReactionRow : x.user # u => (x \in rows <=> x \in more)

(* A step of a toggle writes no other user's row and changes no other      *)
(* toggle; its own goes on with the request it was made for, or has ended. *)
LEMMA ToggleStepIs ==
    ASSUME RInv, NEW t \in Task, ToggleStep(t)
    PROVE  /\ SameBut(toggle[t].user, reactionRows, reactionRows')
           /\ \A s \in Task : s # t => toggle'[s] = toggle[s]
           /\ toggle'[t].stage \in Running =>
                 /\ toggle'[t].user = toggle[t].user /\ toggle'[t].met = toggle[t].met
                 /\ toggle'[t].emoji = toggle[t].emoji
  <1> DEFINE Goes == /\ \A s \in Task : s # t => toggle'[s] = toggle[s]
                     /\ toggle'[t].stage \in Running =>
                           /\ toggle'[t].user = toggle[t].user /\ toggle'[t].met = toggle[t].met
                           /\ toggle'[t].emoji = toggle[t].emoji
  <1>1. /\ toggle[t] \in Toggles /\ toggle \in [Task -> Toggles]
        /\ reactionRows \subseteq ReactionRow
    BY DEF RInv, ReactionsTypeOK, Toggles
  <1>2. ASSUME NEW stage \in {"failed", "told", "pushing"}, End(t, stage) PROVE Goes
    BY <1>1, <1>2 DEF End, NoToggle, Running, Writing
  <1>3. ASSUME NEW stage, Go(t, stage) PROVE Goes
    BY <1>1, <1>3 DEF Go, Toggles
  <1>4. CASE Find(t)
    BY <1>1, <1>4 DEF Find, Toggles, SameBut
  <1>5. CASE Delete(t)
    BY <1>3, <1>5, FoundRowsOwned DEF Delete, SameBut
  <1>6. CASE SaveUpdate(t)
    <2> DEFINE New(x) == IF x.id \in Ids(toggle[t].existing)
                         THEN [x EXCEPT !.emoji = toggle[t].emoji] ELSE x
    <2>1. \A x \in reactionRows : /\ New(x).user = x.user
                                  /\ x.user # toggle[t].user => New(x) = x
      BY <1>1, FoundRowsOwned DEF ReactionRow
    <2>2. reactionRows' = {New(x) : x \in reactionRows}
      BY <1>6 DEF SaveUpdate
    <2> HIDE DEF New
    <2>3. SameBut(toggle[t].user, reactionRows, reactionRows')
      BY <2>1, <2>2 DEF SameBut
    <2>4. QED
      BY <1>3, <1>6, <2>3 DEF SaveUpdate
  <1>7. ASSUME NEW id, InsertRow(t, id)
        PROVE  /\ SameBut(toggle[t].user, reactionRows, reactionRows')
               /\ End(t, "failed") \/ Go(t, "listing")
    BY <1>7 DEF InsertRow, SameBut
  <1>8. CASE Insert(t) \/ SaveInsert(t)
    BY <1>2, <1>3, <1>7, <1>8 DEF Insert, SaveInsert
  <1>9. CASE SaveSelect(t) \/ PushReaction(t)
    BY <1>3, <1>9 DEF SaveSelect, PushReaction, SameBut
  <1>10. CASE List(t)
    BY <1>1, <1>10 DEF List, Toggles, SameBut
  <1>11. CASE Tell(t) \/ ReactFails(t)
    BY <1>2, <1>11 DEF Tell, ReactFails, SameBut
  <1>12. QED
    BY <1>4, <1>5, <1>6, <1>8, <1>9, <1>10, <1>11 DEF ToggleStep

LEMMA MeantInit == ReactionsInit => MInv
  BY ReactionsInitInv DEF MInv, Meant, Writing, ReactionsInit, NoToggle

LEMMA MeantToggle ==
    ASSUME MInv, NEW t \in Task, ToggleStep(t)
    PROVE  \A s \in Task : Meant(toggle'[s], reactionRows')
  <1>1. /\ RInv /\ toggle \in [Task -> Toggles] /\ reactionRows \subseteq ReactionRow
    BY DEF MInv, RInv, ReactionsTypeOK, Toggles
  <1>2. RInv'
    BY <1>1, FindStep, DeleteStep, SaveSelectStep, SaveUpdateStep, InsertStep,
       ListStep, TellStep, PushReactionStep DEF ToggleStep
  <1>3. /\ SameBut(toggle[t].user, reactionRows, reactionRows')
        /\ \A s \in Task : s # t => toggle'[s] = toggle[s]
    BY <1>1, ToggleStepIs
  <1>4. toggle'[t].stage \in Writing => Find(t) \/ SaveSelect(t)
    BY <1>1 DEF ToggleStep, Delete, SaveUpdate, Insert, SaveInsert, InsertRow, List, Tell,
       PushReaction, ReactFails, Go, End, NoToggle, Writing, Toggles
  <1>5. Meant(toggle'[t], reactionRows')
    <2>1. CASE Find(t)
      <3>1. /\ reactionRows' = reactionRows /\ toggle'[t].user = toggle[t].user
            /\ toggle'[t].emoji = toggle[t].emoji
        BY <1>1, <2>1 DEF Find, Toggles
      <3>2. /\ Mine(t) = {x \in reactionRows : x.user = toggle[t].user}
            /\ Same(t) = {x \in reactionRows : x.user = toggle[t].user /\ x.emoji = toggle[t].emoji}
        BY DEF Mine, Same
      <3>3. /\ toggle'[t].stage \in Writing => toggle[t].emoji # None
            /\ toggle'[t].action = "removed" <=> toggle[t].emoji = None \/ Same(t) # {}
        BY <1>1, <2>1 DEF Find, Toggles, Writing
      <3>4. QED
        BY <3>1, <3>2, <3>3 DEF Meant
    <2>2. CASE SaveSelect(t)
      BY <1>1, <2>2 DEF SaveSelect, At, Go, MInv, Meant, Writing, Toggles
    <2>3. QED
      BY <1>4, <2>1, <2>2 DEF Meant
  <1>6. ASSUME NEW s \in Task, s # t PROVE Meant(toggle'[s], reactionRows')
    <2>1. toggle'[s] = toggle[s] /\ Meant(toggle[s], reactionRows)
      BY <1>3, <1>6 DEF MInv
    <2>2. CASE reactionRows' = reactionRows
      BY <2>1, <2>2
    <2>3. CASE toggle[s].stage \notin Writing
      BY <2>1, <2>3 DEF Meant
    <2>4. CASE reactionRows' # reactionRows /\ toggle[s].stage \in Writing
      <3>1. toggle[t].stage \in Running
        BY <2>4 DEF ToggleStep, Find, Delete, SaveSelect, SaveUpdate, Insert, SaveInsert, List,
           Tell, PushReaction, ReactFails, At, Running, Writing
      <3>2. toggle[t].user \in toggle[s].met
        BY <1>1, <1>6, <2>4, <3>1 DEF RInv, Overlap, Running
      <3>3. reactionRows' \subseteq ReactionRow
        BY <1>2 DEF RInv, ReactionsTypeOK
      <3>4. QED
        BY <1>1, <1>3, <2>1, <3>2, <3>3 DEF SameBut, Meant
    <2>5. QED
      BY <2>2, <2>3, <2>4
  <1>7. QED
    BY <1>5, <1>6

LEMMA MeantNext == MInv /\ [ReactionsNext]_reactionVars => MInv'
  <1> SUFFICES ASSUME MInv, [ReactionsNext]_reactionVars PROVE MInv'
    OBVIOUS
  <1>1. /\ RInv /\ toggle \in [Task -> Toggles]
    BY DEF MInv, RInv, ReactionsTypeOK, Toggles
  <1>2. RInv'
    BY <1>1, ReactionsNextInv
  <1>3. CASE UNCHANGED reactionVars
    BY <1>2, <1>3 DEF MInv, reactionVars
  <1>4. ASSUME NEW t \in Task, ToggleStep(t) PROVE MInv'
    BY <1>2, <1>4, MeantToggle DEF MInv
  <1>5. ASSUME NEW t \in Task, NEW u \in Member, NEW e \in Emoji \cup {None}, React(t, u, e)
        PROVE  MInv'
    <2>1. reactionRows' = reactionRows
      BY <1>5 DEF React
    <2>2. ASSUME NEW s \in Task PROVE Meant(toggle'[s], reactionRows)
      <3>1. CASE s = t
        BY <1>5, <3>1 DEF React, NoToggle, Meant, Writing
      <3>2. CASE s # t
        <4>1. toggle[s] \in Toggles /\ Meant(toggle[s], reactionRows)
          BY <1>1 DEF MInv
        <4>2. toggle'[s] = toggle[s] \/ toggle'[s] = [toggle[s] EXCEPT !.met = @ \cup {u}]
          BY <1>5, <3>2 DEF React
        <4>3. QED
          BY <4>1, <4>2 DEF Meant, Toggles
      <3>3. QED
        BY <3>1, <3>2
    <2>3. QED
      BY <1>2, <2>1, <2>2 DEF MInv
  <1>6. QED
    BY <1>3, <1>4, <1>5 DEF ReactionsNext

-----------------------------------------------------------------------------
(* What a register holds is what the row of its member says, if it has one.*)
LEMMA EmojiOfRow ==
    ASSUME NEW rows, \A x, y \in rows : x.user = y.user => x = y, NEW u
    PROVE  /\ \A x \in rows : x.user = u => EmojiOf(u, rows) = x.emoji
           /\ (\A x \in rows : x.user # u) => EmojiOf(u, rows) = None
  BY DEF EmojiOf

LEMMA OthersStored ==
    ASSUME RInv, RInv', NEW u \in Member, SameBut(u, reactionRows, reactionRows'),
           NEW v \in Member, v # u
    PROVE  EmojiOf(v, reactionRows') = EmojiOf(v, reactionRows)
  <1>1. /\ reactionRows \subseteq ReactionRow /\ reactionRows' \subseteq ReactionRow
        /\ \A x, y \in reactionRows : x.user = y.user => x = y
        /\ \A x, y \in reactionRows' : x.user = y.user => x = y
    BY DEF RInv, ReactionsTypeOK, OneReactionPerUser
  <1>2. CASE \E x \in reactionRows : x.user = v
    BY <1>1, <1>2, EmojiOfRow DEF SameBut
  <1>3. CASE \A x \in reactionRows : x.user # v
    BY <1>1, <1>3, EmojiOfRow DEF SameBut
  <1>4. QED
    BY <1>2, <1>3

(* A step of a toggle that changes its request alone                       *)
LEMMA OneRequested ==
    ASSUME RInv, NEW t \in Task, ToggleStep(t)
    PROVE  EachRequest' = [EachRequest EXCEPT ![t] = RequestOf(toggle'[t])]
  BY ToggleStepIs DEF EachRequest

(* A toggle ends, or reads: its request finishes, or does not change.      *)
LEMMA Reads ==
    ASSUME RInv, NEW t \in Task, ToggleStep(t), reactionRows' = reactionRows,
           toggle[t].stage \in Running =>
              \/ toggle'[t].stage \notin Running
              \/ toggle'[t].stage \in {"listing", "telling"}
                   <=> toggle[t].stage \in {"listing", "telling"},
           toggle[t].stage \notin Running => toggle'[t].stage \notin Running
    PROVE  AsRegisters!Finish(t) \/ UNCHANGED <<EachReaction, EachRequest>>
  <1>1. EachReaction' = EachReaction
    BY DEF EachReaction
  <1>2. EachRequest' = [EachRequest EXCEPT ![t] = RequestOf(toggle'[t])]
    BY OneRequested
  <1>3. EachRequest[t] = RequestOf(toggle[t]) /\ EachRequest = [s \in Task |-> EachRequest[s]]
    BY DEF EachRequest
  <1>4. CASE RequestOf(toggle'[t]) = RequestOf(toggle[t])
    BY <1>1, <1>2, <1>3, <1>4
  <1>5. CASE RequestOf(toggle'[t]) # RequestOf(toggle[t])
    <2>1. toggle[t].stage \in Running /\ toggle'[t].stage \notin Running
      BY <1>5, ToggleStepIs DEF RequestOf
    <2>2. EachRequest[t].stage # "idle" /\ RequestOf(toggle'[t]) = AsRegisters!Idle
      BY <1>3, <2>1 DEF RequestOf, AsRegisters!Idle
    <2>3. QED
      BY <1>1, <1>2, <2>2 DEF AsRegisters!Finish
  <1>6. QED
    BY <1>4, <1>5

(* A toggle has its effect: on its user's register, which takes one of the *)
(* outcomes of its request.                                                *)
LEMMA Takes ==
    ASSUME RInv, RInv', NEW t \in Task, ToggleStep(t),
           toggle[t].stage \in Writing \cup {"asked"}, toggle'[t].stage = "listing",
           EmojiOf(toggle[t].user, reactionRows')
              \in AsRegisters!Outcomes(RequestOf(toggle[t]), EmojiOf(toggle[t].user, reactionRows))
    PROVE  AsRegisters!TakeEffect(t)
  <1> DEFINE u == toggle[t].user
  <1>1. u \in Member
    BY DEF RInv, ReactionsTypeOK
  <1>2. EachReaction' = [EachReaction EXCEPT ![u] = EmojiOf(u, reactionRows')]
    BY <1>1, ToggleStepIs, OthersStored DEF EachReaction
  <1>3. /\ EachRequest[t] = RequestOf(toggle[t]) /\ EachReaction[u] = EmojiOf(u, reactionRows)
        /\ EachRequest[t].user = u /\ EachRequest[t].stage = "open"
    BY <1>1 DEF EachRequest, EachReaction, RequestOf, Running, Writing
  <1>4. RequestOf(toggle'[t]) = [RequestOf(toggle[t]) EXCEPT !.stage = "done"]
    BY ToggleStepIs DEF RequestOf, Running, Writing
  <1>5. EachRequest' = [EachRequest EXCEPT ![t].stage = "done"]
    BY <1>3, <1>4, OneRequested
  <1>6. QED
    BY <1>2, <1>3, <1>5 DEF AsRegisters!TakeEffect

(* What a write makes of the user's register, alone or not                 *)
LEMMA WritesOutcome ==
    ASSUME MInv, RInv', NEW t \in Task, Delete(t) \/ SaveUpdate(t) \/ Insert(t) \/ SaveInsert(t),
           toggle'[t].stage = "listing"
    PROVE  EmojiOf(toggle[t].user, reactionRows')
              \in AsRegisters!Outcomes(RequestOf(toggle[t]), EmojiOf(toggle[t].user, reactionRows))
  <1> DEFINE q == toggle[t]
             before == EmojiOf(q.user, reactionRows)
             after == EmojiOf(q.user, reactionRows')
             lone == q.user \notin q.met
  <1>1. /\ Control(q) /\ Effect(q, reactionRows) /\ Meant(q, reactionRows) /\ q \in Toggles
        /\ reactionRows \subseteq ReactionRow /\ toggle \in [Task -> Toggles]
    BY DEF MInv, RInv, ReactionsTypeOK, Toggles
  <1>2. q.stage \in Writing /\ q.emoji # None
    BY <1>1 DEF Delete, SaveUpdate, Insert, SaveInsert, At, Control, Writing
  <1>3. /\ \A x, y \in reactionRows : x.user = y.user => x = y
        /\ \A x, y \in reactionRows' : x.user = y.user => x = y
    BY DEF MInv, RInv, OneReactionPerUser
  <1>4. /\ \A x \in reactionRows : x.user = q.user => before = x.emoji
        /\ (\A x \in reactionRows : x.user # q.user) => before = None
        /\ \A x \in reactionRows' : x.user = q.user => after = x.emoji
        /\ (\A x \in reactionRows' : x.user # q.user) => after = None
    BY <1>3, EmojiOfRow
  <1> HIDE DEF before, after
  <1>5. /\ lone /\ q.action = "removed" => before = q.emoji
        /\ lone /\ q.action # "removed" => before # q.emoji
    BY <1>1, <1>2, <1>4 DEF Meant
  <1>6. CASE Delete(t)
    <2>1. /\ reactionRows' = {x \in reactionRows : x.id \notin Ids(q.existing)}
          /\ q.stage = "deleting" /\ q.action = "removed"
      BY <1>1, <1>6 DEF Delete, At, Control
    <2>2. after \in {before, None}
      BY <1>4, <2>1
    <2>3. lone => after = None
      BY <1>1, <1>2, <1>4, <2>1 DEF Effect
    <2>4. QED
      BY <1>2, <1>5, <2>1, <2>2, <2>3 DEF RequestOf, AsRegisters!Outcomes, Running, before, after
  <1>7. CASE SaveUpdate(t)
    <2> DEFINE New(x) == IF x.id \in Ids(q.existing) THEN [x EXCEPT !.emoji = q.emoji] ELSE x
    <2>1. reactionRows' = {New(x) : x \in reactionRows} /\ q.stage = "updating" /\ q.action = "changed"
      BY <1>1, <1>7 DEF SaveUpdate, At, Control
    <2>2. \A x \in reactionRows : /\ New(x).user = x.user
                                  /\ New(x).emoji \in {x.emoji, q.emoji}
                                  /\ x.id \in Ids(q.existing) => New(x).emoji = q.emoji
      BY <1>1 DEF ReactionRow
    <2> HIDE DEF New
    <2>3. after \in {before, q.emoji}
      BY <1>4, <2>1, <2>2
    <2>4. lone => after = q.emoji
      BY <1>1, <1>2, <1>4, <2>1, <2>2 DEF Effect
    <2>5. QED
      BY <1>2, <1>5, <2>1, <2>3, <2>4 DEF RequestOf, AsRegisters!Outcomes, Running, before, after
  <1>8. CASE Insert(t) \/ SaveInsert(t)
    <2>1. PICK id : InsertRow(t, id)
      BY <1>8 DEF Insert, SaveInsert
    <2>2. ~ End(t, "failed")
      BY <1>1 DEF End, NoToggle
    <2>3. [id |-> id, user |-> q.user, emoji |-> q.emoji] \in reactionRows'
      BY <2>1, <2>2 DEF InsertRow
    <2>4. after = q.emoji /\ q.action # "removed"
      BY <1>1, <1>4, <1>8, <2>3 DEF Insert, SaveInsert, At, Control
    <2>5. QED
      BY <1>2, <1>5, <2>4 DEF RequestOf, AsRegisters!Outcomes, Running, before, after
  <1>9. QED
    BY <1>6, <1>7, <1>8

LEMMA ToggleImplements ==
    ASSUME MInv, RInv', NEW t \in Task, ToggleStep(t)
    PROVE  [AsRegisters!Next]_<<EachReaction, EachRequest>>
  <1>1. /\ RInv /\ toggle[t] \in Toggles /\ toggle \in [Task -> Toggles]
    BY DEF MInv, RInv, ReactionsTypeOK, Toggles
  <1> SUFFICES \/ AsRegisters!TakeEffect(t) \/ AsRegisters!Finish(t)
               \/ UNCHANGED <<EachReaction, EachRequest>>
    BY DEF AsRegisters!Next
  <1>2. CASE Find(t)
    <2>1. /\ reactionRows' = reactionRows /\ toggle[t].stage = "asked"
          /\ toggle[t].emoji = None => toggle'[t].stage = "listing"
          /\ toggle[t].emoji # None => toggle'[t].stage \in Writing
      BY <1>1, <1>2 DEF Find, At, Writing, Toggles
    <2>2. CASE toggle[t].emoji = None
      <3>1. EmojiOf(toggle[t].user, reactionRows')
               \in AsRegisters!Outcomes(RequestOf(toggle[t]), EmojiOf(toggle[t].user, reactionRows))
        BY <2>1, <2>2 DEF RequestOf, AsRegisters!Outcomes, Running
      <3>2. QED
        BY <1>1, <2>1, <2>2, <3>1, Takes
    <2>3. CASE toggle[t].emoji # None
      BY <1>1, <2>1, <2>3, Reads DEF Running, Writing
    <2>4. QED
      BY <2>2, <2>3
  <1>3. CASE SaveSelect(t) \/ List(t) \/ PushReaction(t)
    <2>1. /\ reactionRows' = reactionRows
          /\ \/ toggle[t].stage = "selecting" /\ toggle'[t].stage \in {"updating", "reinserting"}
             \/ toggle[t].stage = "listing" /\ toggle'[t].stage = "telling"
             \/ toggle[t].stage = "pushing" /\ toggle'[t].stage = "told"
      BY <1>1, <1>3 DEF SaveSelect, List, PushReaction, At, Go, Toggles
    <2>2. QED
      BY <1>1, <2>1, Reads DEF Running, Writing
  <1>4. CASE Tell(t) \/ ReactFails(t)
    <2>1. /\ reactionRows' = reactionRows /\ toggle[t].stage \in Running
          /\ toggle'[t].stage \in {"told", "pushing", "failed"}
      BY <1>1, <1>4 DEF Tell, ReactFails, At, End, NoToggle, Running
    <2>2. QED
      BY <1>1, <2>1, Reads DEF Running, Writing
  <1>5. CASE Delete(t) \/ SaveUpdate(t) \/ Insert(t) \/ SaveInsert(t)
    <2>1. toggle[t].stage \in Writing
      BY <1>5 DEF Delete, SaveUpdate, Insert, SaveInsert, At, Writing
    <2>2. \/ toggle'[t].stage = "listing"
          \/ toggle'[t].stage = "failed" /\ reactionRows' = reactionRows
      BY <1>1, <1>5 DEF Delete, SaveUpdate, Insert, SaveInsert, InsertRow, Go, End, NoToggle, Toggles
    <2>3. CASE toggle'[t].stage = "listing"
      BY <1>1, <1>5, <2>1, <2>3, WritesOutcome, Takes
    <2>4. CASE toggle'[t].stage = "failed" /\ reactionRows' = reactionRows
      BY <1>1, <2>1, <2>4, Reads DEF Running, Writing
    <2>5. QED
      BY <2>2, <2>3, <2>4
  <1>6. QED
    BY <1>2, <1>3, <1>4, <1>5 DEF ToggleStep

(* A request begins: it and those of its user that run are not alone.      *)
LEMMA ReactBegins ==
    ASSUME RInv, NEW t \in Task, NEW u \in Member, NEW e \in Emoji \cup {None}, React(t, u, e)
    PROVE  AsRegisters!Begin(t, u, e)
  <1> DEFINE running == {s \in Task : toggle[s].stage \in Running}
             r == [NoToggle EXCEPT !.stage = "asked", !.user = u, !.emoji = e,
                                   !.met = {toggle[s].user : s \in running}]
  <1>1. /\ toggle \in [Task -> Toggles] /\ toggle[t].stage = "unused" /\ t \notin running
        /\ reactionRows' = reactionRows
    BY DEF React, At, RInv, ReactionsTypeOK, Toggles, Running, Writing
  <1>2. toggle' = [s \in Task |-> IF s = t THEN r
                                 ELSE IF s \in running THEN [toggle[s] EXCEPT !.met = @ \cup {u}]
                                 ELSE toggle[s]]
    BY DEF React
  <1>3. AsRegisters!Rivals(u) = {s \in running : toggle[s].user = u}
    BY DEF AsRegisters!Rivals, EachRequest, RequestOf
  <1>4. RequestOf(r) = [stage |-> "open", user |-> u, emoji |-> e,
                        alone |-> AsRegisters!Rivals(u) = {}]
    BY <1>3 DEF RequestOf, NoToggle, Running
  <1>5. ASSUME NEW s \in running
        PROVE  RequestOf([toggle[s] EXCEPT !.met = @ \cup {u}])
                 = IF s \in AsRegisters!Rivals(u) THEN [RequestOf(toggle[s]) EXCEPT !.alone = FALSE]
                   ELSE RequestOf(toggle[s])
    <2>1. toggle[s] \in Toggles /\ toggle[s].stage \in Running
      BY <1>1
    <2>2. s \in AsRegisters!Rivals(u) <=> toggle[s].user = u
      BY <1>3
    <2> HIDE DEF running, r
    <2>3. QED
      BY <2>1, <2>2 DEF RequestOf, Toggles
  <1>6. \A s \in Task : s \notin running => s \notin AsRegisters!Rivals(u)
    BY <1>3
  <1> HIDE DEF running, r
  <1>7. EachRequest' = [s \in Task |-> IF s = t THEN RequestOf(r)
                                    ELSE IF s \in AsRegisters!Rivals(u)
                                         THEN [RequestOf(toggle[s]) EXCEPT !.alone = FALSE]
                                    ELSE RequestOf(toggle[s])]
    BY <1>2, <1>5, <1>6 DEF EachRequest
  <1>8. \A s \in Task : EachRequest[s] = RequestOf(toggle[s])
    BY DEF EachRequest
  <1>9. EachRequest[t].stage = "idle"
    <2>1. toggle[t].stage \notin Running /\ EachRequest[t] = RequestOf(toggle[t])
      BY <1>1, <1>8 DEF Running, Writing
    <2>2. QED
      BY <2>1 DEF RequestOf
  <1>10. EachReaction' = EachReaction
    BY <1>1 DEF EachReaction
  <1>11. EachRequest'[t].stage = "open"
    BY <1>4, <1>7
  <1>12. QED
    BY <1>4, <1>7, <1>8, <1>9, <1>10, <1>11 DEF AsRegisters!Begin

(* toggleReaction removes or replaces in one step: the rows are registers  *)
(* that toggles change one at a time, but for those of one user that       *)
(* overlap (messages.service lines 138-165).                               *)
THEOREM TogglesAreAtomic == ReactionsSpec => ImplementsRegisters
  <1>1. ReactionsInit => AsRegisters!Init
    <2>1. ASSUME ReactionsInit PROVE EachReaction = [u \in Member |-> None]
      BY <2>1 DEF ReactionsInit, EachReaction, EmojiOf
    <2>2. ASSUME ReactionsInit PROVE EachRequest = [t \in Task |-> AsRegisters!Idle]
      BY <2>2 DEF ReactionsInit, EachRequest, RequestOf, NoToggle, Running, Writing, AsRegisters!Idle
    <2>3. QED
      BY <2>1, <2>2 DEF AsRegisters!Init
  <1>2. MInv /\ MInv' /\ [ReactionsNext]_reactionVars => [AsRegisters!Next]_<<EachReaction, EachRequest>>
    <2> SUFFICES ASSUME MInv, MInv', [ReactionsNext]_reactionVars
                 PROVE  [AsRegisters!Next]_<<EachReaction, EachRequest>>
      OBVIOUS
    <2>1. CASE UNCHANGED reactionVars
      BY <2>1 DEF reactionVars, EachReaction, EachRequest
    <2>2. ASSUME NEW t \in Task, ToggleStep(t) PROVE [AsRegisters!Next]_<<EachReaction, EachRequest>>
      BY <2>2, ToggleImplements DEF MInv
    <2>3. ASSUME NEW t \in Task, NEW u \in Member, NEW e \in Emoji \cup {None}, React(t, u, e)
          PROVE  [AsRegisters!Next]_<<EachReaction, EachRequest>>
      BY <2>3, ReactBegins DEF MInv, AsRegisters!Next
    <2>4. QED
      BY <2>1, <2>2, <2>3 DEF ReactionsNext
  <1>3. QED
    BY <1>1, <1>2, MeantInit, MeantNext, PTL DEF ReactionsSpec, ImplementsRegisters, AsRegisters!Spec
=============================================================================
