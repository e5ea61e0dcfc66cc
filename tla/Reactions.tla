------------------------------ MODULE Reactions ------------------------------
(***************************************************************************)
(* The reactions of one message: message:react of RealtimeGateway with     *)
(* MessagesService.toggleReaction. Toggles are tasks; every await may fail.*)
(* A TypeORM save of an entity that was read before is a SELECT by its id, *)
(* then an UPDATE, or an INSERT if the row has gone.                       *)
(*                                                                         *)
(*   unused -> asked -> deleting | selecting | inserting | listing         *)
(*   selecting -> updating | reinserting; each write -> listing            *)
(*   listing -> telling -> [pushing ->] told;   failed from any of them    *)
(***************************************************************************)
EXTENDS Rows

CONSTANTS Emoji,
          Member,    \* the members of the conversation
          Author     \* the one who sent the message

ASSUME ReactionsAssumption == None \notin Emoji /\ Author \in Member

VARIABLES
    reactionRows,  \* the message_reaction rows of the message
    toggle,        \* the onReact task of each request
    shownList      \* the reactions in the last message:reaction broadcast

reactionVars == <<reactionRows, toggle, shownList>>

ReactionRow == [id : Task, user : Member, emoji : Emoji]
Writing == {"deleting", "selecting", "updating", "reinserting", "inserting"}
Running == {"asked", "listing", "telling"} \cup Writing
ToggleStages == Running \cup {"unused", "pushing", "told", "failed"}
Shown(rows) == {<<r.user, r.emoji>> : r \in rows}

\* `met': whose other toggles ran while this one did (an observation)
NoToggle == [stage |-> "unused", user |-> Author, emoji |-> None, existing |-> {},
             action |-> "removed", list |-> {}, met |-> {}]

ReactionsInit ==
    /\ reactionRows = {}
    /\ toggle = [t \in Task |-> NoToggle]
    /\ shownList = {}

-----------------------------------------------------------------------------
At(t, stage) == toggle[t].stage = stage
Go(t, stage) == toggle' = [toggle EXCEPT ![t].stage = stage]
End(t, stage) == toggle' = [toggle EXCEPT ![t] = [NoToggle EXCEPT !.stage = stage]]

(* A request arrives. Its emoji may be blank (None) once trimmed.          *)
React(t, u, e) ==
    LET running == {s \in Task : toggle[s].stage \in Running} IN
    /\ At(t, "unused")
    /\ toggle' = [s \in Task |->
                    IF s = t THEN [NoToggle EXCEPT !.stage = "asked", !.user = u, !.emoji = e,
                                                   !.met = {toggle[r].user : r \in running}]
                    ELSE IF s \in running THEN [toggle[s] EXCEPT !.met = @ \cup {u}]
                    ELSE toggle[s]]
    /\ UNCHANGED <<reactionRows, shownList>>

(* Mutant: a blank emoji is a reaction like any other                      *)
FindBlank(t) ==
    /\ At(t, "asked")
    /\ toggle' = [toggle EXCEPT ![t].action = "added", ![t].stage = "inserting"]
    /\ UNCHANGED <<reactionRows, shownList>>

Mine(t) == {r \in reactionRows : r.user = toggle[t].user}

(* Mutant: any reaction of the user is removed, not the same emoji only    *)
SameOrNot(t) == Mine(t)

Same(t) == {r \in Mine(t) : r.emoji = toggle[t].emoji}

(* isMember and getInConversation, which no toggle changes, then findOne   *)
Find(t) ==
    LET mine == Mine(t)
        same == Same(t) IN
    /\ At(t, "asked")
    /\ toggle' = [toggle EXCEPT
         ![t].existing = IF toggle[t].emoji = None THEN {} ELSE mine,
         ![t].action = IF toggle[t].emoji = None \/ same # {} THEN "removed"
                       ELSE IF mine # {} THEN "changed" ELSE "added",
         ![t].stage = IF toggle[t].emoji = None THEN "listing"
                      ELSE IF same # {} THEN "deleting"
                      ELSE IF mine # {} THEN "selecting" ELSE "inserting"]
    /\ UNCHANGED <<reactionRows, shownList>>

Ids(rows) == {r.id : r \in rows}

(* reactions.delete({ id: existing.id })                                   *)
Delete(t) ==
    /\ At(t, "deleting")
    /\ reactionRows' = {r \in reactionRows : r.id \notin Ids(toggle[t].existing)}
    /\ Go(t, "listing")
    /\ UNCHANGED shownList

(* reactions.save(existing): the SELECT by id that decides what it does    *)
SaveSelect(t) ==
    /\ At(t, "selecting")
    /\ Go(t, IF Ids(toggle[t].existing) \subseteq Ids(reactionRows)
             THEN "updating" ELSE "reinserting")
    /\ UNCHANGED <<reactionRows, shownList>>

SaveUpdate(t) ==
    /\ At(t, "updating")
    /\ reactionRows' = {IF r.id \in Ids(toggle[t].existing)
                        THEN [r EXCEPT !.emoji = toggle[t].emoji] ELSE r : r \in reactionRows}
    /\ Go(t, "listing")
    /\ UNCHANGED shownList

(* Mutant: the table has no unique (messageId, userId)                     *)
InsertRowAnyway(t, id) ==
    /\ reactionRows' = reactionRows \cup {[id |-> id, user |-> toggle[t].user,
                                           emoji |-> toggle[t].emoji]}
    /\ Go(t, "listing")

(* An INSERT, under the unique index uq_message_reaction_user              *)
InsertRow(t, id) ==
    IF \E r \in reactionRows : r.user = toggle[t].user \/ r.id = id
    THEN /\ End(t, "failed")
         /\ UNCHANGED reactionRows
    ELSE /\ reactionRows' = reactionRows \cup {[id |-> id, user |-> toggle[t].user,
                                                emoji |-> toggle[t].emoji]}
         /\ Go(t, "listing")

Insert(t) ==
    /\ At(t, "inserting")
    /\ InsertRow(t, t)
    /\ UNCHANGED shownList

SaveInsert(t) ==
    /\ At(t, "reinserting")
    /\ \E r \in toggle[t].existing : InsertRow(t, r.id)
    /\ UNCHANGED shownList

(* Mutant: the list is worked out from the rows found, not read again      *)
ListFound(t) ==
    /\ At(t, "listing")
    /\ toggle' = [toggle EXCEPT ![t].stage = "telling", ![t].list = Shown(toggle[t].existing)]
    /\ UNCHANGED <<reactionRows, shownList>>

List(t) ==
    /\ At(t, "listing")
    /\ toggle' = [toggle EXCEPT ![t].stage = "telling", ![t].list = Shown(reactionRows)]
    /\ UNCHANGED <<reactionRows, shownList>>

(* Mutant: only what was added or changed is broadcast                     *)
TellChange(t) ==
    /\ At(t, "telling")
    /\ shownList' = IF toggle[t].action = "removed" THEN shownList ELSE toggle[t].list
    /\ End(t, "told")
    /\ UNCHANGED reactionRows

(* The broadcast to the room, in the order in which lists arrive; a push   *)
(* to the author of the message unless the reaction was removed.           *)
Tell(t) ==
    /\ At(t, "telling")
    /\ shownList' = toggle[t].list
    /\ End(t, IF toggle[t].action # "removed" /\ toggle[t].user # Author
              THEN "pushing" ELSE "told")
    /\ UNCHANGED reactionRows

(* deliverReactionPush, whose failure is logged, changes no row            *)
PushReaction(t) ==
    /\ At(t, "pushing")
    /\ Go(t, "told")
    /\ UNCHANGED <<reactionRows, shownList>>

(* A query fails (or the sender is no member, or there is no such message):*)
(* nobody is told, whether the write was made or not.                      *)
ReactFails(t) ==
    /\ toggle[t].stage \in Running \ {"telling"}
    /\ End(t, "failed")
    /\ UNCHANGED <<reactionRows, shownList>>

ToggleStep(t) ==
    \/ Find(t) \/ Delete(t) \/ SaveSelect(t) \/ SaveUpdate(t) \/ Insert(t) \/ SaveInsert(t)
    \/ List(t) \/ Tell(t) \/ PushReaction(t) \/ ReactFails(t)

ReactionsNext ==
    \E t \in Task : ToggleStep(t) \/ \E u \in Member, e \in Emoji \cup {None} : React(t, u, e)

ReactionsSpec == ReactionsInit /\ [][ReactionsNext]_reactionVars

-----------------------------------------------------------------------------
(* Properties *)

ReactionsTypeOK ==
    /\ reactionRows \subseteq ReactionRow
    /\ toggle \in [Task -> [stage : ToggleStages, user : Member, emoji : Emoji \cup {None},
                            existing : SUBSET ReactionRow,
                            action : {"added", "changed", "removed"},
                            list : SUBSET (Member \X Emoji), met : SUBSET Member]]
    /\ shownList \subseteq Member \X Emoji

(* messages.service line 138: one reaction per user, although a toggle     *)
(* writes long after it looked, and a save may bring back a row that       *)
(* another toggle has deleted and replaced.                                *)
OneReactionPerUser ==
    \A r, s \in reactionRows : r.user = s.user \/ r.id = s.id => r = s

(* A toggle that no other overlapped leaves everyone with the reactions    *)
(* that are stored, whatever stale list was broadcast before: a wrong list *)
(* lasts until the next toggle that runs alone.                            *)
LoneToggleTellsRows ==
    [][\A t \in Task : At(t, "telling") /\ toggle'[t].stage \in {"pushing", "told"}
                       /\ toggle[t].met = {}
         => shownList' = Shown(reactionRows)]_reactionVars

(* While toggles of other users run, and their lists arrive in any order,  *)
(* the broadcast of a toggle shows what that toggle did, unless the same   *)
(* user had two of them under way.                                         *)
OwnToggleTold ==
    [][\A t \in Task : At(t, "telling") /\ toggle'[t].stage \in {"pushing", "told"}
                       /\ toggle[t].user \notin toggle[t].met
                       /\ toggle[t].emoji # None
         => IF toggle[t].action = "removed"
            THEN \A e \in Emoji : <<toggle[t].user, e>> \notin shownList'
            ELSE <<toggle[t].user, toggle[t].emoji>> \in shownList']_reactionVars

(* The row of each member as a register, and the toggles under way as      *)
(* requests: a toggle is alone unless it met another of its user.          *)
EmojiOf(u, rows) ==
    IF \E r \in rows : r.user = u THEN (CHOOSE r \in rows : r.user = u).emoji ELSE None

RequestOf(q) ==
    IF q.stage \in Running
    THEN [stage |-> IF q.stage \in {"listing", "telling"} THEN "done" ELSE "open",
          user |-> q.user, emoji |-> q.emoji, alone |-> q.user \notin q.met]
    ELSE [stage |-> "idle", user |-> None, emoji |-> None, alone |-> FALSE]

EachReaction == [u \in Member |-> EmojiOf(u, reactionRows)]
EachRequest == [t \in Task |-> RequestOf(toggle[t])]

(* toggleReaction's comment (line 138), of the whole of it: the same emoji *)
(* removes, a different one replaces. The SELECT, the decision and the     *)
(* write take effect as one step on the user's row and on no other row,    *)
(* unless the same user had two toggles under way.                         *)
AsRegisters == INSTANCE ReactionRegisters WITH reaction <- EachReaction, request <- EachRequest
ImplementsRegisters == AsRegisters!Spec
=============================================================================
