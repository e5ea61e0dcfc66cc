----------------------------- MODULE TablesProofs -----------------------------
(***************************************************************************)
(* For any users, messages, tokens and requests: what module Conversations *)
(* says of private conversations and their members, History of paging and  *)
(* unread messages, and DeviceTokens of the tokens that are stored. Each   *)
(* part strengthens its properties to an inductive invariant of its own.   *)
(***************************************************************************)
EXTENDS MCRows, ReactionsProofs, AccountsProofs, UploadsProofs,
        FiniteSetTheorems, TLAPS

(* Conversations *)

Requests == [stage : RequestStages, kind : Making \cup {"members"},
             by : User \cup {None}, people : SUBSET User,
             conv : Task \cup {None}, fresh : SUBSET User, rivals : SUBSET Task]

Saved == {"viewing", "done", "failed"}

(* Who made a row, and how far the request that made it has come           *)
RowMade ==
    \A t \in Task : convRows[t] # None =>
        /\ request[t].stage \in {"peopling"} \cup Saved
        /\ request[t].kind = convRows[t] /\ request[t].conv = t

(* Only conversations that were completed have members, so nobody can add  *)
(* any to one that is still being made.                                    *)
Peopled ==
    \A t \in Task : MembersOf(t) # {} =>
        /\ convRows[t] # None /\ request[t].stage \in Saved
        /\ request[t].people \subseteq MembersOf(t)

(* What a request holds at each of its stages                              *)
Holds(t) ==
    LET q == request[t] IN
    /\ q.kind \in Making => q.by = None
    /\ q.stage \in {"saving", "peopling"} => q.kind \in Making
    /\ q.stage = "peopling" => q.conv = t /\ convRows[t] # None
    /\ q.stage \in Active /\ q.kind = "members" => q.conv \in Task /\ convRows[q.conv] # None
    /\ q.stage \in {"selecting", "inserting"} =>
         /\ q.kind = "members" /\ q.by \in MembersOf(q.conv)
         /\ q.people \subseteq q.fresh \cup MembersOf(q.conv)
    /\ q.stage = "viewing" => q.kind \in Making
    /\ q.stage \in {"viewing", "done"} =>
         /\ q.conv \in Task /\ convRows[q.conv] # None
         /\ q.people \subseteq MembersOf(q.conv)
         /\ q.by # None => q.by \in MembersOf(q.conv)

(* Two requests of one pair that are under way, or that both make a        *)
(* conversation, know of each other.                                       *)
Makes(t) == \/ request[t].stage \in {"saving", "peopling"}
            \/ MembersOf(t) # {}

SamePair(c, d) ==
    /\ c # d /\ request[c].kind = "private" /\ request[d].kind = "private"
    /\ request[c].people = request[d].people

Rivalry ==
    \A c, d \in Task :
        /\ SamePair(c, d)
        /\ \/ request[c].stage \in Active /\ request[d].stage \in Active
           \/ Makes(c) /\ Makes(d)
        => d \in request[c].rivals

(* A private conversation is made for two                                  *)
Paired(t) ==
    request[t].kind = "private" =>
        /\ request[t].stage \in {"asked", "saving", "peopling"} \/ convRows[t] # None =>
             request[t].people # {}
        /\ request[t].stage \in {"saving", "peopling"} \/ convRows[t] # None =>
             \A u \in User : request[t].people # {u}

CInv == /\ ConversationsTypeOK /\ RowMade /\ Peopled /\ Rivalry
        /\ \A t \in Task : Holds(t) /\ Paired(t)

LEMMA ConversationsInitInv == ConversationsInit => CInv
  <1> SUFFICES ASSUME ConversationsInit PROVE CInv
    OBVIOUS
  <1>1. NoRequest \in Requests
    BY DEF NoRequest, Requests, RequestStages, Making
  <1>2. /\ convRows = [c \in Task |-> None] /\ memberRows = {}
        /\ request = [t \in Task |-> NoRequest]
        /\ NoRequest.stage = "unused" /\ NoRequest.by = None
    BY DEF ConversationsInit, NoRequest
  <1>3. ConversationsTypeOK
    BY <1>1, <1>2 DEF ConversationsTypeOK, Requests
  <1>4. RowMade /\ Peopled /\ Rivalry
    BY <1>2 DEF RowMade, Peopled, Rivalry, Makes, Active, MembersOf
  <1>5. \A t \in Task : Holds(t) /\ Paired(t)
    BY <1>2 DEF Holds, Paired, Active
  <1>6. QED
    BY <1>3, <1>4, <1>5 DEF CInv

LEMMA CTypes ==
    ASSUME CInv
    PROVE  /\ request \in [Task -> Requests]
           /\ convRows \in [Task -> Making \cup {None}] /\ memberRows \subseteq Task \X User
  BY DEF CInv, ConversationsTypeOK, Requests

(* A step of a request that is under way: it may make its conversation and *)
(* add members to it or to one that has some.                              *)
LEMMA RequestKeeps ==
    ASSUME CInv, NEW t \in Task, request[t].stage \in Active,
           request'[t] \in Requests,
           request' = [request EXCEPT ![t] = request'[t]],
           convRows' \in [Task -> Making \cup {None}],
           memberRows \subseteq memberRows', memberRows' \subseteq Task \X User,
           \A c \in Task : c # t => convRows'[c] = convRows[c],
           convRows[t] # None => convRows'[t] = convRows[t],
           \A c \in Task : MembersOf(c)' # {} =>
             \/ MembersOf(c) # {}
             \/ c = t /\ convRows'[t] # None /\ request'[t].people \subseteq MembersOf(t)',
           convRows'[t] # None =>
             /\ request'[t].stage \in IF MembersOf(t)' = {} THEN {"peopling"} \cup Saved ELSE Saved
             /\ request'[t].kind = convRows'[t] /\ request'[t].conv = t,
           Holds(t)', Paired(t)',
           \/ request'[t].stage = "refused" /\ convRows[t] = None /\ convRows'[t] = None
           \/ /\ request'[t].kind = request[t].kind /\ request'[t].people = request[t].people
              /\ request'[t].rivals = request[t].rivals,
           Makes(t)' =>
             \/ Makes(t)
             \/ \A d \in Task : SamePair(t, d) /\ Makes(d) =>
                  d \in request[t].rivals /\ t \in request[d].rivals
    PROVE  CInv'
  <1>1. \A s \in Task : s # t => request'[s] = request[s]
    BY CTypes
  <1>2. ConversationsTypeOK'
    BY CTypes DEF ConversationsTypeOK, Requests
  <1>3. RowMade'
    BY <1>1 DEF CInv, RowMade
  <1>4. \A c \in Task : MembersOf(c) \subseteq MembersOf(c)'
    BY DEF MembersOf
  <1>5. Peopled'
    <2> SUFFICES ASSUME NEW c \in Task, MembersOf(c)' # {}
                 PROVE  /\ convRows'[c] # None /\ request'[c].stage \in Saved
                        /\ request'[c].people \subseteq MembersOf(c)'
      BY DEF Peopled
    <2>1. CASE MembersOf(c) # {}
      <3>1. /\ convRows[c] # None /\ request[c].stage \in Saved
            /\ request[c].people \subseteq MembersOf(c)'
        BY <1>4, <2>1 DEF CInv, Peopled
      <3>2. CASE c # t
        BY <1>1, <3>1, <3>2
      <3>3. CASE c = t
        <4>1. request'[t].people = request[t].people
          BY <3>1, <3>3
        <4>2. convRows'[t] # None
          BY <3>1, <3>3
        <4>3. QED
          BY <3>1, <3>3, <4>1, <4>2
      <3>4. QED
        BY <3>2, <3>3
    <2>2. CASE c = t /\ convRows'[t] # None /\ request'[t].people \subseteq MembersOf(t)'
      BY <2>2
    <2>3. QED
      BY <2>1, <2>2
  <1>6. \A c \in Task : convRows[c] # None => convRows'[c] # None
    OBVIOUS
  <1>7. \A s \in Task : Holds(s)' /\ Paired(s)'
    <2> TAKE s \in Task
    <2>1. CASE s = t
      BY <2>1
    <2>2. CASE s # t
      <3>1. Holds(s) /\ Paired(s) /\ request'[s] = request[s] /\ request[s] \in Requests
        BY <1>1, <2>2, CTypes DEF CInv
      <3>2. request[s].stage \in {"selecting", "inserting"} =>
              request[s].conv \in Task /\ convRows[request[s].conv] # None
        BY <3>1 DEF Holds, Active
      <3>3. QED
        BY <1>4, <1>6, <2>2, <3>1, <3>2 DEF Holds, Paired
    <2>3. QED
      BY <2>1, <2>2
  <1>8. Rivalry'
    <2> SUFFICES ASSUME NEW c \in Task, NEW d \in Task, SamePair(c, d)',
                        \/ request'[c].stage \in Active /\ request'[d].stage \in Active
                        \/ Makes(c)' /\ Makes(d)'
                 PROVE  d \in request'[c].rivals
      BY DEF Rivalry
    <2>1. request'[t].stage \in Active \/ Makes(t)' => request'[t].stage # "refused"
      BY <1>5 DEF Active, Makes, Peopled, Saved
    <2>2. \A s \in Task : s # t => (Makes(s)' <=> Makes(s))
      BY <1>1, <1>4 DEF Makes
    <2>3. CASE c # t /\ d # t
      <3>1. request'[c] = request[c] /\ request'[d] = request[d] /\ SamePair(c, d)
        BY <1>1, <2>3 DEF SamePair
      <3>2. QED
        BY <2>2, <2>3, <3>1 DEF CInv, Rivalry
    <2>4. CASE c = t \/ d = t
      <3>1. /\ request'[t].kind = request[t].kind /\ request'[t].people = request[t].people
            /\ request'[t].rivals = request[t].rivals
        BY <2>1, <2>4
      <3>2. SamePair(c, d) /\ SamePair(d, c)
        BY <1>1, <2>4, <3>1 DEF SamePair
      <3>3. request'[c].rivals = request[c].rivals
        BY <1>1, <3>1
      <3>4. CASE request'[c].stage \in Active /\ request'[d].stage \in Active
        <4>1. request[c].stage \in Active /\ request[d].stage \in Active
          BY <1>1, <3>4
        <4>2. QED
          BY <3>2, <3>3, <4>1 DEF CInv, Rivalry
      <3>5. CASE Makes(c)' /\ Makes(d)'
        <4>1. CASE Makes(c) /\ Makes(d)
          BY <3>2, <3>3, <4>1 DEF CInv, Rivalry
        <4>2. CASE ~(Makes(c) /\ Makes(d))
          <5>1. c # d
            BY <3>2 DEF SamePair
          <5>2. ~Makes(t)
            BY <2>2, <2>4, <3>5, <4>2, <5>1
          <5>3. \A e \in Task : SamePair(t, e) /\ Makes(e) =>
                  e \in request[t].rivals /\ t \in request[e].rivals
            BY <2>4, <3>5, <5>2
          <5>4. QED
            BY <2>2, <2>4, <3>2, <3>3, <3>5, <5>1, <5>3
        <4>3. QED
          BY <4>1, <4>2
      <3>6. QED
        BY <3>4, <3>5
    <2>5. QED
      BY <2>3, <2>4
  <1>9. QED
    BY <1>2, <1>3, <1>5, <1>7, <1>8 DEF CInv

(* The same for a step that writes no row                                  *)
LEMMA LookingKeeps ==
    ASSUME CInv, NEW t \in Task, request[t].stage \in Active,
           request'[t] \in Requests,
           request' = [request EXCEPT ![t] = request'[t]],
           UNCHANGED <<convRows, memberRows>>,
           convRows[t] # None =>
             /\ request'[t].stage \in Saved
             /\ request'[t].kind = request[t].kind /\ request'[t].conv = request[t].conv,
           Holds(t)', Paired(t)',
           \/ request'[t].stage = "refused" /\ convRows[t] = None
           \/ /\ request'[t].kind = request[t].kind /\ request'[t].people = request[t].people
              /\ request'[t].rivals = request[t].rivals,
           Makes(t)' =>
             \/ Makes(t)
             \/ \A d \in Task : SamePair(t, d) /\ Makes(d) =>
                  d \in request[t].rivals /\ t \in request[d].rivals
    PROVE  CInv'
  <1>1. \A c \in Task : MembersOf(c)' = MembersOf(c)
    BY DEF MembersOf
  <1>2. /\ convRows' \in [Task -> Making \cup {None}]
        /\ memberRows \subseteq memberRows' /\ memberRows' \subseteq Task \X User
        /\ \A c \in Task : convRows'[c] = convRows[c]
    BY CTypes
  <1>3. \A c \in Task : MembersOf(c)' # {} =>
          \/ MembersOf(c) # {}
          \/ c = t /\ convRows'[t] # None /\ request'[t].people \subseteq MembersOf(t)'
    BY <1>1
  <1>4. convRows'[t] # None =>
          /\ request'[t].stage \in IF MembersOf(t)' = {} THEN {"peopling"} \cup Saved ELSE Saved
          /\ request'[t].kind = convRows'[t] /\ request'[t].conv = t
    BY <1>2 DEF CInv, RowMade
  <1>5. QED
    BY <1>2, <1>3, <1>4, RequestKeeps

LEMMA RefuseStep ==
    ASSUME CInv, NEW t \in Task, Stop(t, "refused"),
           request[t].stage \in Active, UNCHANGED <<convRows, memberRows>>,
           convRows[t] = None
    PROVE  CInv'
  <1>1. /\ request' = [request EXCEPT ![t] = [NoRequest EXCEPT !.stage = "refused"]]
        /\ request'[t] = [NoRequest EXCEPT !.stage = "refused"]
    BY CTypes DEF Stop
  <1>2. [NoRequest EXCEPT !.stage = "refused"] \in Requests
    BY DEF NoRequest, Requests, RequestStages, Making
  <1>3. request'[t].stage = "refused" /\ request'[t].by = None
    BY <1>1 DEF NoRequest
  <1>4. MembersOf(t)' = {}
    BY DEF CInv, Peopled, MembersOf
  <1>5. Holds(t)' /\ Paired(t)' /\ ~Makes(t)'
    BY <1>3, <1>4 DEF Holds, Paired, Active, Makes
  <1>6. QED
    BY <1>1, <1>2, <1>3, <1>5, LookingKeeps

(* Nothing of a request that has not saved yet is a row.                   *)
LEMMA NotMadeYet ==
    ASSUME CInv, NEW t \in Task,
           request[t].stage \in Active \ {"peopling", "viewing"}
    PROVE  convRows[t] = None /\ MembersOf(t) = {}
  BY DEF CInv, RowMade, Peopled, Active, Saved

(* A request turns to another stage and remembers everything.              *)
LEMMA TurnKeeps ==
    ASSUME CInv, NEW t \in Task, NEW stage \in RequestStages,
           request' = [request EXCEPT ![t].stage = stage]
    PROVE  /\ request' = [request EXCEPT ![t] = request'[t]]
           /\ request'[t] \in Requests /\ request'[t].stage = stage
           /\ request'[t].kind = request[t].kind /\ request'[t].people = request[t].people
           /\ request'[t].rivals = request[t].rivals /\ request'[t].conv = request[t].conv
           /\ request'[t].by = request[t].by /\ request'[t].fresh = request[t].fresh
  BY CTypes DEF Requests

(* A request fails, and what it saved stays.                               *)
LEMMA FailStep ==
    ASSUME CInv, NEW t \in Task, request[t].stage \in Active, Turn(t, "failed"),
           UNCHANGED <<convRows, memberRows>>
    PROVE  CInv'
  <1>1. /\ request' = [request EXCEPT ![t] = request'[t]]
        /\ request'[t] \in Requests /\ request'[t].stage = "failed"
        /\ request'[t].kind = request[t].kind /\ request'[t].people = request[t].people
        /\ request'[t].rivals = request[t].rivals /\ request'[t].conv = request[t].conv
        /\ request'[t].by = request[t].by
    BY TurnKeeps DEF Turn, RequestStages
  <1>2. Holds(t)' /\ Paired(t)'
    BY <1>1 DEF CInv, Holds, Paired, Active
  <1>3. Makes(t)' => Makes(t)
    BY <1>1 DEF Makes, MembersOf
  <1>4. QED
    BY <1>1, <1>2, <1>3, LookingKeeps DEF Saved

LEMMA ViewStep ==
    ASSUME CInv, NEW t \in Task, View(t)
    PROVE  CInv'
  <1>1. /\ request[t].stage = "viewing" /\ request[t].stage \in Active
        /\ UNCHANGED <<convRows, memberRows>> /\ Turn(t, "done")
    BY DEF View, Active
  <1>2. /\ request' = [request EXCEPT ![t] = request'[t]]
        /\ request'[t] \in Requests /\ request'[t].stage = "done"
        /\ request'[t].kind = request[t].kind /\ request'[t].people = request[t].people
        /\ request'[t].rivals = request[t].rivals /\ request'[t].conv = request[t].conv
        /\ request'[t].by = request[t].by
    BY <1>1, TurnKeeps DEF Turn, RequestStages
  <1>3. \A c \in Task : MembersOf(c)' = MembersOf(c)
    BY <1>1 DEF MembersOf
  <1>4. Holds(t)' /\ Paired(t)'
    BY <1>1, <1>2, <1>3 DEF CInv, Holds, Paired, Active
  <1>5. Makes(t)' => Makes(t)
    BY <1>2, <1>3 DEF Makes
  <1>6. QED
    BY <1>1, <1>2, <1>4, <1>5, LookingKeeps DEF Saved

LEMMA FindPrivateStep ==
    ASSUME CInv, NEW t \in Task, FindPrivate(t)
    PROVE  CInv'
  <1>1. /\ request[t].kind = "private" /\ request[t].stage = "asked"
        /\ UNCHANGED <<convRows, memberRows>> /\ request[t].stage \in Active
    BY DEF FindPrivate, Is, Active
  <1>2. /\ convRows[t] = None /\ MembersOf(t) = {} /\ Holds(t)
        /\ request[t].by = None
    BY <1>1, NotMadeYet DEF CInv, Holds, Active, Making
  <1>3. CASE Stop(t, "refused")
    BY <1>1, <1>2, <1>3, RefuseStep
  <1>4. CASE /\ ~ \E u \in User : request[t].people = {u}
             /\ Shared(t) = {} /\ Turn(t, "saving")
    <2>1. /\ request' = [request EXCEPT ![t] = request'[t]]
          /\ request'[t] \in Requests /\ request'[t].stage = "saving"
          /\ request'[t].kind = request[t].kind /\ request'[t].people = request[t].people
          /\ request'[t].rivals = request[t].rivals /\ request'[t].by = request[t].by
      BY <1>4, TurnKeeps DEF Turn, RequestStages, Active
    <2>2. Holds(t)' /\ Paired(t)'
      BY <1>1, <1>2, <1>4, <2>1 DEF CInv, Holds, Paired, Active, Making
    <2>3. ASSUME NEW d \in Task, SamePair(t, d), Makes(d)
          PROVE  d \in request[t].rivals /\ t \in request[d].rivals
      <3>1. SamePair(d, t)
        BY <2>3 DEF SamePair
      <3>2. CASE request[d].stage \in Active
        BY <1>1, <2>3, <3>1, <3>2 DEF CInv, Rivalry
      <3>3. CASE MembersOf(d) # {}
        <4>1. convRows[d] = "private"
          BY <2>3, <3>3 DEF CInv, RowMade, Peopled, SamePair
        <4>2. request[t].people \subseteq MembersOf(d)
          BY <2>3, <3>3, <4>1 DEF CInv, Peopled, SamePair
        <4>3. d \in Shared(t)
          BY <4>1, <4>2 DEF Shared
        <4>4. QED
          BY <1>4, <4>3
      <3>4. QED
        BY <2>3, <3>2, <3>3 DEF Makes, Active
    <2>4. QED
      BY <1>1, <1>2, <2>1, <2>2, <2>3, LookingKeeps
  <1>5. CASE \E c \in Shared(t) :
               request' = [request EXCEPT ![t].stage = "viewing", ![t].conv = c]
    <2>1. PICK c \in Shared(t) :
            request' = [request EXCEPT ![t].stage = "viewing", ![t].conv = c]
      BY <1>5
    <2>2. c \in Task /\ convRows[c] # None /\ request[t].people \subseteq MembersOf(c)
      BY InvitedAssumption DEF Shared
    <2>3. /\ request' = [request EXCEPT ![t] = request'[t]]
          /\ request'[t] \in Requests /\ request'[t].stage = "viewing" /\ request'[t].conv = c
          /\ request'[t].kind = request[t].kind /\ request'[t].people = request[t].people
          /\ request'[t].rivals = request[t].rivals /\ request'[t].by = request[t].by
      <3> DEFINE q == [request[t] EXCEPT !.stage = "viewing", !.conv = c]
      <3>1. request[t] \in Requests /\ request'[t] = q /\ request' = [request EXCEPT ![t] = q]
        BY <2>1, CTypes
      <3>2. q \in Requests /\ q.stage = "viewing" /\ q.conv = c /\ q.kind = request[t].kind
            /\ q.people = request[t].people /\ q.rivals = request[t].rivals /\ q.by = request[t].by
        BY <2>2, <3>1 DEF Requests, RequestStages, Active
      <3> HIDE DEF q
      <3>3. QED
        BY <3>1, <3>2
    <2>4. \A e \in Task : MembersOf(e)' = MembersOf(e)
      BY <1>1 DEF MembersOf
    <2>5. Holds(t)' /\ Paired(t)' /\ ~Makes(t)'
      BY <1>1, <1>2, <2>2, <2>3, <2>4 DEF Holds, Paired, Active, Makes, Making
    <2>6. QED
      BY <1>1, <1>2, <2>3, <2>5, LookingKeeps
  <1>6. QED
    BY <1>3, <1>4, <1>5 DEF FindPrivate

LEMMA StartGroupStep ==
    ASSUME CInv, NEW t \in Task, StartGroup(t)
    PROVE  CInv'
  <1>1. /\ request[t].kind = "group" /\ request[t].stage = "asked"
        /\ UNCHANGED <<convRows, memberRows>> /\ request[t].stage \in Active
        /\ request' = [request EXCEPT ![t].stage = "saving"]
    BY DEF StartGroup, Is, Turn, Active
  <1>2. /\ convRows[t] = None /\ MembersOf(t) = {} /\ Holds(t)
        /\ request[t].by = None
    BY <1>1, NotMadeYet DEF CInv, Holds, Active, Making
  <1>3. /\ request' = [request EXCEPT ![t] = request'[t]]
        /\ request'[t] \in Requests /\ request'[t].stage = "saving"
        /\ request'[t].kind = request[t].kind /\ request'[t].people = request[t].people
        /\ request'[t].rivals = request[t].rivals /\ request'[t].by = request[t].by
    BY <1>1, TurnKeeps DEF RequestStages, Active
  <1>4. Holds(t)' /\ Paired(t)'
    BY <1>1, <1>2, <1>3 DEF Holds, Paired, Active, Making
  <1>5. \A d \in Task : ~SamePair(t, d)
    BY <1>1 DEF SamePair
  <1>6. QED
    BY <1>1, <1>2, <1>3, <1>4, <1>5, LookingKeeps

LEMMA SaveConversationStep ==
    ASSUME CInv, NEW t \in Task, SaveConversation(t)
    PROVE  CInv'
  <1>1. /\ request[t].stage = "saving" /\ request[t].stage \in Active
        /\ memberRows' = memberRows /\ convRows' = [convRows EXCEPT ![t] = request[t].kind]
        /\ request' = [request EXCEPT ![t].stage = "peopling", ![t].conv = t]
    BY DEF SaveConversation, Active
  <1>2. /\ convRows[t] = None /\ Holds(t) /\ Makes(t)
        /\ request[t].kind \in Making /\ request[t].by = None
    BY <1>1, NotMadeYet DEF CInv, Holds, Active, Makes
  <1>3. /\ request' = [request EXCEPT ![t] = request'[t]]
        /\ request'[t] \in Requests /\ request'[t].stage = "peopling" /\ request'[t].conv = t
        /\ request'[t].kind = request[t].kind /\ request'[t].people = request[t].people
        /\ request'[t].rivals = request[t].rivals /\ request'[t].by = request[t].by
    <2> DEFINE q == [request[t] EXCEPT !.stage = "peopling", !.conv = t]
    <2>1. request[t] \in Requests /\ request'[t] = q /\ request' = [request EXCEPT ![t] = q]
      BY <1>1, CTypes
    <2>2. q \in Requests /\ q.stage = "peopling" /\ q.conv = t /\ q.kind = request[t].kind
          /\ q.people = request[t].people /\ q.rivals = request[t].rivals /\ q.by = request[t].by
      BY <2>1 DEF Requests, RequestStages, Active
    <2> HIDE DEF q
    <2>3. QED
      BY <2>1, <2>2
  <1>4. /\ convRows' \in [Task -> Making \cup {None}] /\ convRows'[t] = request[t].kind
        /\ \A c \in Task : c # t => convRows'[c] = convRows[c]
        /\ memberRows \subseteq memberRows' /\ memberRows' \subseteq Task \X User
    BY <1>1, <1>2, CTypes
  <1>5. \A c \in Task : MembersOf(c)' # {} => MembersOf(c) # {}
    BY <1>1 DEF MembersOf
  <1>6. convRows'[t] # None
    BY <1>2, <1>4, InvitedAssumption DEF Making
  <1>7. Holds(t)' /\ Paired(t)'
    <2>1. Holds(t)'
      BY <1>2, <1>3, <1>6 DEF Holds, Active, Making
    <2>2. Paired(t)'
      BY <1>1, <1>3 DEF CInv, Paired
    <2>3. QED
      BY <2>1, <2>2
  <1>8. \A c \in Task : MembersOf(c)' # {} =>
          \/ MembersOf(c) # {}
          \/ c = t /\ convRows'[t] # None /\ request'[t].people \subseteq MembersOf(t)'
    BY <1>5
  <1>9. convRows'[t] # None =>
          /\ request'[t].stage \in IF MembersOf(t)' = {} THEN {"peopling"} \cup Saved ELSE Saved
          /\ request'[t].kind = convRows'[t] /\ request'[t].conv = t
    BY <1>1, <1>3, <1>4, <1>5, NotMadeYet
  <1>10. QED
    BY <1>1, <1>2, <1>3, <1>4, <1>7, <1>8, <1>9, RequestKeeps

LEMMA SaveMembersStep ==
    ASSUME CInv, NEW t \in Task, SaveMembers(t)
    PROVE  CInv'
  <1>1. /\ request[t].stage = "peopling" /\ request[t].stage \in Active
        /\ convRows' = convRows /\ memberRows' = memberRows \cup ({t} \X request[t].people)
        /\ request' = [request EXCEPT ![t].stage = "viewing"]
    BY DEF SaveMembers, Turn, Active
  <1>2. /\ convRows[t] # None /\ Holds(t) /\ Makes(t) /\ request[t].conv = t
        /\ request[t].kind = convRows[t] /\ request[t].kind \in Making /\ request[t].by = None
    BY <1>1, CTypes DEF CInv, RowMade, Holds, Active, Makes
  <1>3. /\ request' = [request EXCEPT ![t] = request'[t]]
        /\ request'[t] \in Requests /\ request'[t].stage = "viewing" /\ request'[t].conv = t
        /\ request'[t].kind = request[t].kind /\ request'[t].people = request[t].people
        /\ request'[t].rivals = request[t].rivals /\ request'[t].by = request[t].by
    BY <1>1, <1>2, TurnKeeps DEF RequestStages, Active
  <1>4. request[t].people \subseteq User
    BY CTypes DEF Requests
  <1>5. memberRows' \subseteq Task \X User /\ memberRows \subseteq memberRows'
    BY <1>1, <1>4, CTypes
  <1>6. \A c \in Task : MembersOf(c)' # {} => MembersOf(c) # {} \/ c = t
    BY <1>1 DEF MembersOf
  <1>7. request[t].people \subseteq MembersOf(t)'
    BY <1>1, <1>4 DEF MembersOf
  <1>8. Holds(t)' /\ Paired(t)'
    BY <1>1, <1>2, <1>3, <1>7 DEF CInv, Holds, Paired, Active, Making
  <1>9. /\ convRows' \in [Task -> Making \cup {None}]
        /\ \A c \in Task : convRows'[c] = convRows[c]
    BY <1>1, CTypes
  <1>10. request'[t].stage \in Saved /\ request'[t].kind = convRows'[t]
    BY <1>2, <1>3, <1>9 DEF Saved
  <1>11. \A c \in Task : MembersOf(c)' # {} =>
           \/ MembersOf(c) # {}
           \/ c = t /\ convRows'[t] # None /\ request'[t].people \subseteq MembersOf(t)'
    BY <1>2, <1>3, <1>6, <1>7, <1>9
  <1>12. convRows'[t] # None =>
           /\ request'[t].stage \in IF MembersOf(t)' = {} THEN {"peopling"} \cup Saved ELSE Saved
           /\ request'[t].kind = convRows'[t] /\ request'[t].conv = t
    BY <1>3, <1>10
  <1>13. request[t].stage \in Active /\ Makes(t)
    BY <1>1, <1>2
  <1>14. QED
    BY <1>3, <1>5, <1>8, <1>9, <1>11, <1>12, <1>13, RequestKeeps

LEMMA FindMembersStep ==
    ASSUME CInv, NEW t \in Task, FindMembers(t)
    PROVE  CInv'
  <1> DEFINE fresh == request[t].people \ MembersOf(request[t].conv)
             stage == IF fresh = {} THEN "done" ELSE "selecting"
  <1>1. /\ request[t].kind = "members" /\ request[t].stage = "asked"
        /\ UNCHANGED <<convRows, memberRows>> /\ request[t].stage \in Active
    BY DEF FindMembers, Is, Active
  <1>2. /\ convRows[t] = None /\ MembersOf(t) = {} /\ Holds(t) /\ request[t] \in Requests
        /\ request[t].conv \in Task /\ convRows[request[t].conv] # None
    BY <1>1, NotMadeYet, CTypes DEF CInv, Holds
  <1>3. CASE Stop(t, "refused")
    BY <1>1, <1>2, <1>3, RefuseStep
  <1>4. CASE /\ request[t].by \in MembersOf(request[t].conv)
             /\ request' = [request EXCEPT ![t].fresh = fresh, ![t].stage = stage]
    <2> DEFINE q == [request[t] EXCEPT !.fresh = fresh, !.stage = stage]
    <2>1. request'[t] = q /\ request' = [request EXCEPT ![t] = q]
      BY <1>4, CTypes
    <2>2. /\ fresh \subseteq User /\ stage \in {"done", "selecting"}
          /\ request[t].people \subseteq fresh \cup MembersOf(request[t].conv)
          /\ stage = "done" => fresh = {}
      BY <1>2 DEF Requests
    <2> HIDE DEF fresh, stage
    <2>3. /\ q \in Requests /\ q.stage = stage /\ q.fresh = fresh /\ q.kind = request[t].kind
          /\ q.people = request[t].people /\ q.rivals = request[t].rivals
          /\ q.by = request[t].by /\ q.conv = request[t].conv
      BY <1>2, <2>2 DEF Requests, RequestStages, Active
    <2> HIDE DEF q
    <2>4. \A e \in Task : MembersOf(e)' = MembersOf(e)
      BY <1>1 DEF MembersOf
    <2>5. Holds(t)' /\ Paired(t)'
      BY <1>1, <1>2, <1>4, <2>1, <2>2, <2>3, <2>4 DEF Holds, Paired, Active, Making
    <2>6. ~Makes(t)'
      BY <1>1, <1>2, <2>1, <2>2, <2>3, <2>4 DEF Makes
    <2>7. QED
      BY <1>1, <1>2, <2>1, <2>3, <2>5, <2>6, LookingKeeps
  <1>5. QED
    BY <1>3, <1>4 DEF FindMembers

LEMMA SelectMembersStep ==
    ASSUME CInv, NEW t \in Task, SelectMembers(t)
    PROVE  CInv'
  <1> DEFINE fresh == request[t].fresh \ MembersOf(request[t].conv)
             q == [request[t] EXCEPT !.stage = "inserting", !.fresh = fresh]
  <1>1. /\ request[t].stage = "selecting" /\ request[t].stage \in Active
        /\ UNCHANGED <<convRows, memberRows>>
    BY DEF SelectMembers, Active
  <1>2. /\ convRows[t] = None /\ MembersOf(t) = {} /\ Holds(t) /\ request[t] \in Requests
        /\ request[t].conv \in Task /\ convRows[request[t].conv] # None
        /\ request[t].kind = "members" /\ request[t].by \in MembersOf(request[t].conv)
        /\ request[t].people \subseteq request[t].fresh \cup MembersOf(request[t].conv)
    BY <1>1, NotMadeYet, CTypes DEF CInv, Holds
  <1>3. request'[t] = q /\ request' = [request EXCEPT ![t] = q]
    BY CTypes DEF SelectMembers
  <1>4. /\ fresh \subseteq User
        /\ request[t].people \subseteq fresh \cup MembersOf(request[t].conv)
    BY <1>2 DEF Requests
  <1> HIDE DEF fresh
  <1>5. /\ q \in Requests /\ q.stage = "inserting" /\ q.fresh = fresh /\ q.kind = request[t].kind
        /\ q.people = request[t].people /\ q.rivals = request[t].rivals
        /\ q.by = request[t].by /\ q.conv = request[t].conv
    BY <1>2, <1>4 DEF Requests, RequestStages, Active
  <1> HIDE DEF q
  <1>6. \A e \in Task : MembersOf(e)' = MembersOf(e)
    BY <1>1 DEF MembersOf
  <1>7. Holds(t)' /\ Paired(t)' /\ ~Makes(t)'
    BY <1>1, <1>2, <1>3, <1>4, <1>5, <1>6 DEF Holds, Paired, Active, Making, Makes
  <1>8. QED
    BY <1>1, <1>2, <1>3, <1>5, <1>7, LookingKeeps

LEMMA InsertMembersStep ==
    ASSUME CInv, NEW t \in Task, InsertMembers(t)
    PROVE  CInv'
  <1>1. /\ request[t].stage = "inserting" /\ request[t].stage \in Active
        /\ convRows' = convRows
    BY DEF InsertMembers, Active
  <1> PICK c \in Task \cup {None} : c = request[t].conv
    BY CTypes DEF Requests
  <1>2. /\ convRows[t] = None /\ MembersOf(t) = {} /\ Holds(t)
        /\ request[t].fresh \subseteq User
        /\ c \in Task /\ convRows[c] # None
        /\ request[t].kind = "members" /\ request[t].by \in MembersOf(c)
        /\ request[t].people \subseteq request[t].fresh \cup MembersOf(c)
    BY <1>1, NotMadeYet, CTypes DEF CInv, Holds, Requests
  <1>3. CASE Turn(t, "failed") /\ UNCHANGED memberRows
    BY <1>1, <1>3, FailStep
  <1>4. CASE /\ memberRows' = memberRows \cup ({c} \X request[t].fresh)
             /\ Turn(t, "done")
    <2>1. /\ request' = [request EXCEPT ![t] = request'[t]]
          /\ request'[t] \in Requests /\ request'[t].stage = "done" /\ request'[t].conv = c
          /\ request'[t].kind = request[t].kind /\ request'[t].people = request[t].people
          /\ request'[t].rivals = request[t].rivals /\ request'[t].by = request[t].by
      BY <1>4, TurnKeeps DEF Turn, RequestStages
    <2>2. memberRows' \subseteq Task \X User /\ memberRows \subseteq memberRows'
      BY <1>2, <1>4, CTypes
    <2>3. \A e \in Task : MembersOf(e)' # {} => MembersOf(e) # {}
      BY <1>2, <1>4 DEF CInv, Holds, MembersOf
    <2>4. request[t].fresh \cup MembersOf(c) \subseteq MembersOf(c)'
      BY <1>2, <1>4 DEF MembersOf
    <2>5. Holds(t)' /\ Paired(t)' /\ ~Makes(t)'
      BY <1>1, <1>2, <2>1, <2>3, <2>4 DEF Holds, Paired, Active, Making, Makes
    <2>6. QED
      BY <1>1, <1>2, <2>1, <2>2, <2>3, <2>5, CTypes, RequestKeeps
  <1>5. QED
    BY <1>3, <1>4 DEF InsertMembers

LEMMA AskStep ==
    ASSUME CInv, NEW t \in Task, NEW r \in Requests, Ask(t, r),
           r.kind \in Making => r.by = None,
           r.kind = "members" => r.conv \in Task /\ convRows[r.conv] # None,
           r.kind = "private" => r.people # {}
    PROVE  CInv'
  <1> DEFINE rivals == {s \in Task : /\ request[s].stage \in Active
                                     /\ r.kind = "private" /\ request[s].kind = "private"
                                     /\ request[s].people = r.people}
             q == [r EXCEPT !.stage = "asked", !.rivals = rivals]
  <1>1. /\ request[t].stage = "unused" /\ UNCHANGED <<convRows, memberRows>>
        /\ request' = [s \in Task |-> IF s = t THEN q
                                      ELSE IF s \in rivals
                                      THEN [request[s] EXCEPT !.rivals = @ \cup {t}]
                                      ELSE request[s]]
    BY DEF Ask
  <1>2. /\ q \in Requests /\ q.stage = "asked" /\ q.kind = r.kind /\ q.people = r.people
        /\ q.rivals = rivals /\ q.by = r.by /\ q.conv = r.conv
    BY DEF Requests, RequestStages, Active
  <1>3. request'[t] = q
    BY <1>1
  <1> HIDE DEF q
  <1>4. \A s \in Task \ {t} :
          /\ request'[s] \in Requests
          /\ request'[s].stage = request[s].stage /\ request'[s].kind = request[s].kind
          /\ request'[s].people = request[s].people /\ request'[s].by = request[s].by
          /\ request'[s].conv = request[s].conv /\ request'[s].fresh = request[s].fresh
          /\ request[s].rivals \subseteq request'[s].rivals
          /\ s \in rivals => t \in request'[s].rivals
    <2> TAKE s \in Task \ {t}
    <2>1. request[s] \in Requests
      BY CTypes
    <2>2. request'[s] = IF s \in rivals THEN [request[s] EXCEPT !.rivals = @ \cup {t}]
                        ELSE request[s]
      BY <1>1
    <2> HIDE DEF rivals
    <2>3. CASE s \in rivals
      BY <2>1, <2>2, <2>3 DEF Requests
    <2>4. CASE s \notin rivals
      BY <2>1, <2>2, <2>4
    <2>5. QED
      BY <2>3, <2>4
  <1>5. ConversationsTypeOK'
    <2>1. request' \in [Task -> Requests]
      BY <1>1, <1>2, <1>3, <1>4
    <2>2. QED
      BY <1>1, <2>1, CTypes DEF ConversationsTypeOK, Requests
  <1>6. \A c \in Task : MembersOf(c)' = MembersOf(c)
    BY <1>1 DEF MembersOf
  <1>7. convRows[t] = None /\ MembersOf(t) = {}
    BY <1>1 DEF CInv, RowMade, Peopled, Saved
  <1>8. RowMade' /\ Peopled'
    BY <1>1, <1>4, <1>6, <1>7 DEF CInv, RowMade, Peopled
  <1>9. \A s \in Task : Holds(s)' /\ Paired(s)'
    <2> TAKE s \in Task
    <2>1. CASE s = t
      BY <1>1, <1>2, <1>3, <1>7, <2>1 DEF Holds, Paired, Active
    <2>2. CASE s # t
      BY <1>1, <1>4, <1>6, <2>2 DEF CInv, Holds, Paired, Active
    <2>3. QED
      BY <2>1, <2>2
  <1>10. Rivalry'
    <2> SUFFICES ASSUME NEW c \in Task, NEW d \in Task, SamePair(c, d)',
                        \/ request'[c].stage \in Active /\ request'[d].stage \in Active
                        \/ Makes(c)' /\ Makes(d)'
                 PROVE  d \in request'[c].rivals
      BY DEF Rivalry
    <2>1. ~Makes(t)' /\ \A s \in Task \ {t} : Makes(s)' <=> Makes(s)
      BY <1>1, <1>2, <1>3, <1>4, <1>6, <1>7 DEF Makes
    <2>2. CASE c # t /\ d # t
      <3>1. SamePair(c, d)
        BY <1>4, <2>2 DEF SamePair
      <3>2. d \in request[c].rivals
        BY <1>4, <2>1, <2>2, <3>1 DEF CInv, Rivalry
      <3>3. QED
        BY <1>4, <2>2, <3>2
    <2>3. CASE c = t
      BY <1>2, <1>3, <1>4, <2>1, <2>3 DEF SamePair
    <2>4. CASE d = t
      BY <1>2, <1>3, <1>4, <2>1, <2>4 DEF SamePair
    <2>5. QED
      BY <2>2, <2>3, <2>4
  <1>11. QED
    BY <1>5, <1>8, <1>9, <1>10 DEF CInv

LEMMA ConversationsNextInv == CInv /\ [ConversationsNext]_convVars => CInv'
  <1> SUFFICES ASSUME CInv, [ConversationsNext]_convVars PROVE CInv'
    OBVIOUS
  <1>1. CASE UNCHANGED convVars
    <2>1. UNCHANGED <<convRows, memberRows, request>>
      BY <1>1 DEF convVars
    <2>2. QED
      <3>1. \A c : MembersOf(c)' = MembersOf(c)
        BY <2>1 DEF MembersOf
      <3>2. ConversationsTypeOK' /\ RowMade' /\ Peopled'
        BY <2>1, <3>1 DEF CInv, ConversationsTypeOK, RowMade, Peopled
      <3>3. Rivalry'
        BY <2>1, <3>1 DEF CInv, Rivalry, Makes, SamePair
      <3>4. \A t \in Task : Holds(t)' /\ Paired(t)'
        <4> TAKE t \in Task
        <4>1. Holds(t) /\ Paired(t) /\ request'[t] = request[t]
          BY <2>1 DEF CInv
        <4>2. QED
          BY <2>1, <3>1, <4>1 DEF Holds, Paired
      <3>5. QED
        BY <3>2, <3>3, <3>4 DEF CInv
  <1>2. ASSUME NEW t \in Task, RequestStep(t) PROVE CInv'
    <2>1. CASE RequestFails(t)
      BY <2>1, FailStep DEF RequestFails
    <2>2. QED
      BY <1>2, <2>1, FindPrivateStep, StartGroupStep, SaveConversationStep, SaveMembersStep,
         ViewStep, FindMembersStep, SelectMembersStep, InsertMembersStep DEF RequestStep
  <1>3. ASSUME NEW t \in Task, NEW u \in User, NEW other \in User, AskPrivate(t, u, other)
        PROVE  CInv'
    <2> DEFINE r == [NoRequest EXCEPT !.kind = "private", !.people = {u, other}]
    <2>1. r \in Requests /\ r.kind = "private" /\ r.by = None /\ r.people # {}
      BY DEF NoRequest, Requests, RequestStages, Making
    <2>2. Ask(t, r)
      BY <1>3 DEF AskPrivate
    <2> HIDE DEF r
    <2>3. QED
      BY <2>1, <2>2, AskStep
  <1>4. ASSUME NEW t \in Task, NEW u \in User, NEW others \in Invited, AskGroup(t, u, others)
        PROVE  CInv'
    <2> DEFINE r == [NoRequest EXCEPT !.kind = "group", !.people = others \cup {u}]
    <2>1. r \in Requests /\ r.kind = "group" /\ r.by = None
      BY InvitedAssumption DEF NoRequest, Requests, RequestStages, Making
    <2>2. Ask(t, r)
      BY <1>4 DEF AskGroup
    <2> HIDE DEF r
    <2>3. QED
      BY <2>1, <2>2, AskStep
  <1>5. ASSUME NEW t \in Task, NEW u \in User, NEW others \in Invited, NEW c \in Task,
               AskMembers(t, u, c, others)
        PROVE  CInv'
    <2> DEFINE r == [NoRequest EXCEPT !.kind = "members", !.by = u, !.people = others, !.conv = c]
    <2>1. r \in Requests /\ r.kind = "members" /\ r.conv = c
      BY InvitedAssumption DEF NoRequest, Requests, RequestStages, Making
    <2>2. Ask(t, r) /\ convRows[c] # None
      BY <1>5 DEF AskMembers
    <2> HIDE DEF r
    <2>3. QED
      BY <2>1, <2>2, AskStep DEF Making
  <1>6. QED
    BY <1>1, <1>2, <1>3, <1>4, <1>5 DEF ConversationsNext

LEMMA ConversationsInvariant == ConversationsSpec => []CInv
  BY ConversationsInitInv, ConversationsNextInv, PTL DEF ConversationsSpec

(* The rows and requests have their types.                                 *)
THEOREM ConversationTypes == ConversationsSpec => []ConversationsTypeOK
  BY ConversationsInvariant, PTL DEF CInv

(* Two private conversations of exactly the same two users come only of    *)
(* requests that were under way together, whichever steps of them failed   *)
(* (conversations.service createPrivate).                                  *)
THEOREM OnePrivate == ConversationsSpec => []OnePrivatePerPair
  <1>1. ASSUME CInv, NEW c \in Task, NEW d \in Task, NEW u \in User, NEW v \in User, c # d,
               convRows[c] = "private", convRows[d] = "private",
               MembersOf(c) = {u, v}, MembersOf(d) = {u, v}
        PROVE  d \in request[c].rivals
    <2>1. /\ request[c].kind = "private" /\ request[d].kind = "private"
          /\ request[c].people \subseteq {u, v} /\ request[d].people \subseteq {u, v}
      BY <1>1, InvitedAssumption DEF CInv, RowMade, Peopled
    <2>2. request[c].people = {u, v} /\ request[d].people = {u, v}
      BY <1>1, <2>1, InvitedAssumption DEF CInv, Paired
    <2>3. QED
      BY <1>1, <2>1, <2>2 DEF CInv, Rivalry, SamePair, Makes
  <1>2. CInv => OnePrivatePerPair
    BY <1>1 DEF OnePrivatePerPair
  <1>3. QED
    BY <1>2, ConversationsInvariant, PTL

(* Whatever requests add members to one conversation, and whichever of     *)
(* them fail, one that was answered has everyone it named in it            *)
(* (conversations.service createPrivate, createGroup, addMembers).         *)
THEOREM MembersIn == ConversationsSpec => []AnsweredMembersIn
  <1>1. CInv => AnsweredMembersIn
    BY DEF CInv, Holds, AnsweredMembersIn
  <1>2. QED
    BY <1>1, ConversationsInvariant, PTL

-----------------------------------------------------------------------------
(* History *)

(* Messages are dated in the past.                                         *)
InPast == /\ time \in Nat \ {0}
          /\ \A t \in Task : post[t].stage # "unused" => post[t].at \in 1..time

MarkRecords == [stage : MarkStages, of : Reader \cup {None}, at : Time,
                known : SUBSET Task, rivals : SUBSET Task]

(* What a mark knew of is no newer than it, and everything else no older.  *)
Knows(t) ==
    mark[t].stage # "unused" =>
        /\ mark[t].at <= time
        /\ \A p \in Task : post[p].stage # "unused" =>
             IF p \in mark[t].known THEN post[p].at <= mark[t].at ELSE mark[t].at <= post[p].at
        /\ \A p \in mark[t].known : post[p].stage # "unused"

(* Marks of one member that are under way together know of each other.     *)
Rival(s, t) ==
    s # t /\ mark[s].of = mark[t].of /\ mark[s].stage = "dated" /\ mark[t].stage = "dated"
      => s \in mark[t].rivals

(* A mark that was alone is no newer than those that are to be written.    *)
Lone(u, t) == mark[t].stage = "done" /\ mark[t].of = u /\ mark[t].rivals = {}

Outdated(u, t) ==
    Lone(u, t) =>
        /\ mark[t].at <= lastReadAt[u]
        /\ \A s \in Task : mark[s].stage = "dated" /\ mark[s].of = u => mark[t].at <= mark[s].at

(* The date of a member is that of one of the member's marks.              *)
Written(u) ==
    \/ lastReadAt[u] = 0
    \/ \E t \in Task : /\ mark[t].stage = "done" /\ mark[t].of = u
                       /\ mark[t].at = lastReadAt[u]

Marks ==
    /\ \A t \in Task : Knows(t)
    /\ \A s, t \in Task : Rival(s, t)
    /\ \A u \in Reader : Written(u) /\ \A t \in Task : Outdated(u, t)

(* What a walk has not seen is older than its cursor, or was cut off       *)
Walked ==
    /\ walk.began \subseteq MessageRows
    /\ \A t \in walk.began \ walk.seen :
         \/ post[t].at \in walk.cuts
         \/ walk.stage # "ended" /\ post[t].at < walk.before
    /\ walk.stage = "idle" => walk.before = MaxTime + 1 /\ walk.seen = {}

(* What it has seen is stored, and not older than its cursor               *)
SeenBehind ==
    \A t \in walk.seen :
        t \in MessageRows /\ (walk.stage = "paging" => post[t].at >= walk.before)

HInv == /\ HistoryTypeOK /\ InPast /\ Marks /\ Walked /\ SeenBehind
        /\ IsFiniteSet(MessageRows)

LEMMA HTypes ==
    ASSUME HInv
    PROVE  /\ post \in [Task -> [stage : PostStages, id : MessageId \cup {0},
                                 from : Reader \cup {None}, at : Time]]
           /\ \A t \in Task : /\ post[t].id \in Nat /\ post[t].at \in Nat
                              /\ post[t].stage # "unused" => post[t].at \in 1..time
           /\ time \in Time /\ time \in 1..MaxTime /\ MaxTime \in Nat \ {0}
           /\ lastReadAt \in [Reader -> Time] /\ \A u \in Reader : lastReadAt[u] \in Nat
           /\ mark \in [Task -> MarkRecords] /\ \A t \in Task : mark[t].at \in Nat
           /\ walk \in [stage : {"idle", "paging", "ended"}, before : 1..(MaxTime + 1),
                        began : SUBSET Task, seen : SUBSET Task, cuts : SUBSET Time]
           /\ MessageRows \subseteq Task
           /\ Time \subseteq Nat
  <1>1. HistoryTypeOK /\ Time \subseteq Nat /\ MaxTime \in Nat \ {0}
    BY HistoryAssumption DEF HInv, Time
  <1>2. time \in 1..MaxTime
    BY <1>1 DEF HInv, HistoryTypeOK, InPast, Time
  <1>3. /\ post \in [Task -> [stage : PostStages, id : MessageId \cup {0},
                              from : Reader \cup {None}, at : Time]]
        /\ lastReadAt \in [Reader -> Time]
    BY <1>1 DEF HistoryTypeOK
  <1>4. \A t \in Task : post[t].id \in MessageId \cup {0} /\ post[t].at \in Time
    BY <1>3
  <1>5. \A t \in Task : post[t].id \in Nat /\ post[t].at \in Nat
    <2>1. MessageId \cup {0} \subseteq Nat
      BY HistoryAssumption
    <2>2. QED
      BY <1>1, <1>4, <2>1
  <1>6. \A u \in Reader : lastReadAt[u] \in Nat
    BY <1>1, <1>3
  <1>7. mark \in [Task -> MarkRecords] /\ \A t \in Task : mark[t].at \in Nat
    BY <1>1 DEF HistoryTypeOK, MarkRecords
  <1>8. QED
    BY <1>1, <1>2, <1>3, <1>5, <1>6, <1>7 DEF HInv, HistoryTypeOK, InPast, MessageRows

LEMMA HistoryInitInv == HistoryInit => HInv
  <1> SUFFICES ASSUME HistoryInit PROVE HInv
    OBVIOUS
  <1>1. MessageRows = {}
    BY DEF HistoryInit, MessageRows, NoPost
  <1>2. IsFiniteSet(MessageRows)
    BY <1>1, FS_EmptySet
  <1>3. HistoryTypeOK
    BY HistoryAssumption
       DEF HistoryInit, HistoryTypeOK, Time, NoPost, NoWalk, NoMark, PostStages, MarkStages
  <1>4. InPast /\ Marks
    BY DEF HistoryInit, InPast, Marks, Knows, Rival, Outdated, Lone, Written, NoPost, NoMark
  <1>5. Walked /\ SeenBehind
    BY <1>1 DEF HistoryInit, Walked, SeenBehind, NoWalk
  <1>6. QED
    BY <1>2, <1>3, <1>4, <1>5 DEF HInv

-----------------------------------------------------------------------------
(* What the query answers with: all that is older, or else a page that is  *)
(* not empty and leaves out nothing that is newer than anything on it.     *)
LEMMA PageRows ==
    ASSUME HInv, NEW before, NEW page \in Pages(before)
    PROVE  /\ page \subseteq Older(before) /\ page \subseteq MessageRows
           /\ \A s \in Older(before) \ page, t \in page : post[s].at <= post[t].at
           /\ ~ HasMore(before) => page = Older(before)
  <1>1. /\ page \in SUBSET Older(before) /\ Older(before) \subseteq MessageRows
        /\ Cardinality(page) = Fewest(Take, Cardinality(Older(before)))
    BY DEF Pages, Older
  <1>2. IsFiniteSet(Older(before)) /\ Cardinality(Older(before)) \in Nat
    <2>1. IsFiniteSet(Older(before))
      BY <1>1, FS_Subset DEF HInv
    <2>2. QED
      BY <2>1, FS_CardinalityType
  <1>3. ASSUME ~ HasMore(before) PROVE page = Older(before)
    <2>1. Cardinality(page) = Cardinality(Older(before))
      BY <1>1, <1>2, <1>3, HistoryAssumption DEF HasMore, Fewest
    <2>2. QED
      BY <1>1, <1>2, <2>1, FS_Subset
  <1>4. ASSUME NEW s \in Older(before) \ page, NEW t \in page PROVE post[s].at <= post[t].at
    <2>1. ~ Newer(s, t)
      BY DEF Pages
    <2>2. post[s].at \in Nat /\ post[t].at \in Nat
      BY <1>1, HTypes
    <2>3. QED
      BY <2>1, <2>2 DEF Newer
  <1>5. QED
    BY <1>1, <1>3, <1>4

-----------------------------------------------------------------------------
LEMMA WalkStands ==
    ASSUME HInv, UNCHANGED walk, MessageRows \subseteq MessageRows',
           \A t \in MessageRows : post'[t].at = post[t].at
    PROVE  Walked' /\ SeenBehind'
  <1>1. walk.began \subseteq MessageRows /\ walk.seen \subseteq MessageRows
    BY DEF HInv, Walked, SeenBehind
  <1>2. Walked'
    BY <1>1 DEF HInv, Walked
  <1>3. SeenBehind'
    BY <1>1 DEF HInv, SeenBehind
  <1>4. QED
    BY <1>2, <1>3

LEMMA TickStep == HInv /\ Tick => HInv'
  <1> SUFFICES ASSUME HInv, Tick PROVE HInv'
    OBVIOUS
  <1>1. time' = time + 1 /\ time < MaxTime /\ UNCHANGED <<post, lastReadAt, mark, walk>>
    BY DEF Tick
  <1>2. MessageRows' = MessageRows
    BY <1>1 DEF MessageRows
  <1>3. HistoryTypeOK'
    BY <1>1, HTypes DEF HInv, HistoryTypeOK, Time
  <1>4. InPast'
    BY <1>1, HTypes DEF HInv, InPast
  <1>5. Marks'
    BY <1>1, HTypes DEF HInv, Marks, Knows, Rival, Outdated, Lone, Written
  <1>6. Walked' /\ SeenBehind'
    BY <1>1, <1>2, WalkStands
  <1>7. QED
    BY <1>2, <1>3, <1>4, <1>5, <1>6 DEF HInv

LEMMA DateStep ==
    ASSUME HInv, NEW t \in Task, NEW u \in Reader, NEW id \in MessageId, Date(t, u, id)
    PROVE  HInv'
  <1> DEFINE p == [NoPost EXCEPT !.stage = "dated", !.id = id, !.from = u, !.at = time]
  <1>1. /\ post[t].stage = "unused" /\ post' = [post EXCEPT ![t] = p]
        /\ UNCHANGED <<time, lastReadAt, mark, walk>>
    BY DEF Date
  <1>2. /\ p.stage = "dated" /\ p.at = time
        /\ p \in [stage : PostStages, id : MessageId \cup {0}, from : Reader \cup {None}, at : Time]
    BY HTypes DEF NoPost, PostStages
  <1> HIDE DEF p
  <1>3. post'[t] = p /\ \A s \in Task : s # t => post'[s] = post[s]
    BY <1>1, HTypes
  <1>4. MessageRows' = MessageRows
    BY <1>1, <1>2, <1>3 DEF MessageRows
  <1>5. HistoryTypeOK'
    BY <1>1, <1>2, HTypes DEF HInv, HistoryTypeOK
  <1>6. InPast'
    BY <1>1, <1>2, <1>3, HTypes DEF HInv, InPast
  <1>7. Marks'
    <2>1. \A s \in Task : Knows(s)'
      <3> TAKE s \in Task
      <3>1. Knows(s) /\ mark[s].at \in Nat
        BY HTypes DEF HInv, Marks
      <3>2. QED
        BY <1>1, <1>2, <1>3, <3>1, HTypes DEF Knows
    <2>2. QED
      BY <1>1, <2>1 DEF HInv, Marks, Rival, Outdated, Lone, Written
  <1>8. \A s \in MessageRows : s # t /\ post'[s] = post[s]
    BY <1>1, <1>3 DEF MessageRows
  <1>9. Walked' /\ SeenBehind'
    BY <1>1, <1>4, <1>8, WalkStands
  <1>10. QED
    BY <1>4, <1>5, <1>6, <1>7, <1>9 DEF HInv

(* The insert of a message, whatever becomes of it                         *)
LEMMA PersistStep ==
    ASSUME HInv, NEW t \in Task, InsertPost(t) \/ PersistFails(t)
    PROVE  HInv'
  <1>1. PICK stage \in {"stored", "ignored", "unstored"} :
          post' = [post EXCEPT ![t].stage = stage]
    BY DEF InsertPost, PersistFails
  <1>2. post[t].stage = "dated" /\ UNCHANGED <<time, lastReadAt, mark, walk>>
    BY DEF InsertPost, PersistFails
  <1>3. /\ post'[t] = [post[t] EXCEPT !.stage = stage]
        /\ \A s \in Task : s # t => post'[s] = post[s]
    BY <1>1, HTypes
  <1>4. /\ post'[t] \in [stage : PostStages, id : MessageId \cup {0},
                         from : Reader \cup {None}, at : Time]
        /\ post'[t].stage = stage /\ post'[t].at = post[t].at
    <2>1. post[t] \in [stage : PostStages, id : MessageId \cup {0},
                       from : Reader \cup {None}, at : Time]
      BY HTypes
    <2>2. stage \in PostStages
      BY DEF PostStages
    <2>3. QED
      BY <1>3, <2>1, <2>2
  <1>5. \A s \in Task : /\ post'[s].at = post[s].at
                        /\ post'[s].stage = "unused" <=> post[s].stage = "unused"
    BY <1>2, <1>3, <1>4
  <1>6. MessageRows' \in SUBSET (MessageRows \cup {t}) /\ MessageRows \subseteq MessageRows'
    BY <1>2, <1>3, <1>4 DEF MessageRows
  <1>7. IsFiniteSet(MessageRows')
    <2>1. IsFiniteSet(MessageRows \cup {t})
      BY FS_AddElement DEF HInv
    <2>2. QED
      BY <1>6, <2>1, FS_Subset
  <1>8. HistoryTypeOK'
    <2>1. post' \in [Task -> [stage : PostStages, id : MessageId \cup {0},
                              from : Reader \cup {None}, at : Time]]
      BY <1>1, <1>3, <1>4, HTypes
    <2>2. QED
      BY <1>2, <2>1, HTypes DEF HInv, HistoryTypeOK
  <1>9. InPast' /\ Marks'
    <2>1. InPast'
      BY <1>2, <1>5 DEF HInv, InPast
    <2>2. Marks'
      <3>1. \A s \in Task : Knows(s)'
        <4> TAKE s \in Task
        <4>1. Knows(s) /\ mark[s].known \subseteq Task
          BY HTypes DEF HInv, Marks, MarkRecords
        <4>2. QED
          BY <1>2, <1>5, <4>1 DEF Knows
      <3>2. QED
        BY <1>2, <3>1 DEF HInv, Marks, Rival, Outdated, Lone, Written
    <2>3. QED
      BY <2>1, <2>2
  <1>10. Walked' /\ SeenBehind'
    BY <1>2, <1>5, <1>6, WalkStands DEF MessageRows
  <1>11. QED
    BY <1>7, <1>8, <1>9, <1>10 DEF HInv

LEMMA StartMarkStep ==
    ASSUME HInv, NEW t \in Task, NEW u \in Reader, StartMark(t, u)
    PROVE  HInv'
  <1> DEFINE rivals == {s \in Task : mark[s].stage = "dated" /\ mark[s].of = u}
             m == [stage |-> "dated", of |-> u, at |-> time, rivals |-> rivals,
                   known |-> {p \in Task : post[p].stage # "unused"}]
  <1>1. /\ mark[t].stage = "unused" /\ UNCHANGED <<time, post, lastReadAt, walk>>
        /\ mark' = [s \in Task |-> IF s = t THEN m
                                   ELSE IF s \in rivals THEN [mark[s] EXCEPT !.rivals = @ \cup {t}]
                                   ELSE mark[s]]
    BY DEF StartMark
  <1>2. /\ m \in MarkRecords /\ m.stage = "dated" /\ m.of = u /\ m.at = time
        /\ m.rivals = rivals /\ m.known = {p \in Task : post[p].stage # "unused"}
    BY HTypes DEF MarkRecords, MarkStages
  <1>3. mark'[t] = m
    BY <1>1
  <1> HIDE DEF m
  <1>4. \A s \in Task \ {t} :
          /\ mark'[s] \in MarkRecords /\ mark'[s].stage = mark[s].stage /\ mark'[s].of = mark[s].of
          /\ mark'[s].at = mark[s].at /\ mark'[s].known = mark[s].known
          /\ mark[s].rivals \subseteq mark'[s].rivals
          /\ IF s \in rivals THEN t \in mark'[s].rivals ELSE mark'[s].rivals = mark[s].rivals
    <2> TAKE s \in Task \ {t}
    <2>1. mark[s] \in MarkRecords
      BY HTypes
    <2>2. mark'[s] = IF s \in rivals THEN [mark[s] EXCEPT !.rivals = @ \cup {t}] ELSE mark[s]
      BY <1>1
    <2> HIDE DEF rivals
    <2>3. CASE s \in rivals
      BY <2>1, <2>2, <2>3 DEF MarkRecords
    <2>4. CASE s \notin rivals
      BY <2>1, <2>2, <2>4
    <2>5. QED
      BY <2>3, <2>4
  <1>5. MessageRows' = MessageRows
    BY <1>1 DEF MessageRows
  <1>6. HistoryTypeOK' /\ InPast'
    <2>1. mark' \in [Task -> MarkRecords]
      BY <1>1, <1>2, <1>3, <1>4
    <2>2. QED
      BY <1>1, <2>1 DEF HInv, HistoryTypeOK, InPast, MarkRecords
  <1>7. \A s \in Task : Knows(s)'
    <2> TAKE s \in Task
    <2>1. CASE s = t
      BY <1>1, <1>2, <1>3, <2>1, HTypes DEF Knows
    <2>2. CASE s # t
      BY <1>1, <1>4, <2>2 DEF HInv, Marks, Knows
    <2>3. QED
      BY <2>1, <2>2
  <1>8. ASSUME NEW r \in Task, NEW s \in Task PROVE Rival(r, s)'
    <2>1. CASE r # t /\ s # t
      BY <1>4, <2>1 DEF HInv, Marks, Rival
    <2>2. CASE r = t \/ s = t
      BY <1>2, <1>3, <1>4, <2>2 DEF Rival
    <2>3. QED
      BY <2>1, <2>2
  <1>9. ASSUME NEW v \in Reader PROVE Written(v)'
    <2>1. Written(v) /\ lastReadAt'[v] = lastReadAt[v]
      BY <1>1 DEF HInv, Marks
    <2>2. CASE lastReadAt[v] = 0
      BY <2>1, <2>2 DEF Written
    <2>3. ASSUME NEW s \in Task, mark[s].stage = "done", mark[s].of = v,
                 mark[s].at = lastReadAt[v]
          PROVE  Written(v)'
      <3>1. s # t
        BY <1>1, <2>3
      <3>2. QED
        BY <1>4, <2>1, <2>3, <3>1 DEF Written
    <2>4. QED
      BY <2>1, <2>2, <2>3 DEF Written
  <1>10. ASSUME NEW v \in Reader, NEW s \in Task PROVE Outdated(v, s)'
    <2> SUFFICES ASSUME Lone(v, s)' PROVE Outdated(v, s)'
      BY DEF Outdated
    <2>1. s # t /\ Lone(v, s)
      <3>1. s # t
        BY <1>2, <1>3 DEF Lone
      <3>2. QED
        BY <1>4, <3>1 DEF Lone
    <2>2. mark[s].at <= time /\ mark'[s].at = mark[s].at /\ Outdated(v, s)
      BY <1>4, <2>1 DEF HInv, Marks, Knows, Lone
    <2>3. QED
      BY <1>1, <1>2, <1>3, <1>4, <2>1, <2>2 DEF Outdated
  <1>11. Walked' /\ SeenBehind'
    BY <1>1, <1>5, WalkStands
  <1>12. QED
    BY <1>5, <1>6, <1>7, <1>8, <1>9, <1>10, <1>11 DEF HInv, Marks

(* A mark ends: its date is written, or the update failed                  *)
LEMMA EndMarkStep ==
    ASSUME HInv, NEW t \in Task, MarkRead(t) \/ MarkFails(t)
    PROVE  HInv'
  <1>1. PICK stage \in {"done", "failed"} :
          /\ mark[t].stage = "dated" /\ UNCHANGED <<time, post, walk>>
          /\ mark' = [mark EXCEPT ![t].stage = stage]
          /\ lastReadAt' = IF stage = "done"
                           THEN [lastReadAt EXCEPT ![mark[t].of] = mark[t].at] ELSE lastReadAt
    BY DEF MarkRead, MarkFails, MarkTurns
  <1>2. /\ mark'[t] \in MarkRecords /\ mark'[t].stage = stage
        /\ \A s \in Task : /\ mark'[s].of = mark[s].of /\ mark'[s].at = mark[s].at
                           /\ mark'[s].known = mark[s].known /\ mark'[s].rivals = mark[s].rivals
                           /\ s # t => mark'[s] = mark[s]
    <2>1. mark'[t] = [mark[t] EXCEPT !.stage = stage] /\ \A s \in Task \ {t} : mark'[s] = mark[s]
      BY <1>1, HTypes
    <2>2. mark[t] \in MarkRecords
      BY HTypes
    <2>3. /\ mark'[t] \in MarkRecords /\ mark'[t].stage = stage
          /\ mark'[t].of = mark[t].of /\ mark'[t].at = mark[t].at
          /\ mark'[t].known = mark[t].known /\ mark'[t].rivals = mark[t].rivals
      BY <1>1, <2>1, <2>2 DEF MarkRecords, MarkStages
    <2>4. QED
      BY <2>1, <2>3
  <1>3. MessageRows' = MessageRows
    BY <1>1 DEF MessageRows
  <1>4. lastReadAt' \in [Reader -> Time]
    BY <1>1, HTypes DEF MarkRecords
  <1>5. HistoryTypeOK' /\ InPast'
    <2>1. mark' \in [Task -> MarkRecords]
      BY <1>1, <1>2, HTypes
    <2>2. QED
      BY <1>1, <1>4, <2>1 DEF HInv, HistoryTypeOK, InPast, MarkRecords
  <1>6. \A s \in Task : Knows(s)'
    BY <1>1, <1>2 DEF HInv, Marks, Knows
  <1>7. \A r, s \in Task : Rival(r, s)'
    BY <1>1, <1>2 DEF HInv, Marks, Rival
  <1>8. ASSUME NEW v \in Reader
        PROVE  lastReadAt'[v] = IF stage = "done" /\ mark[t].of = v THEN mark[t].at
                                ELSE lastReadAt[v]
    BY <1>1, HTypes
  <1>9. ASSUME NEW v \in Reader PROVE Written(v)'
    <2>1. CASE stage = "done" /\ mark[t].of = v
      BY <1>2, <1>8, <2>1 DEF Written
    <2>2. CASE ~(stage = "done" /\ mark[t].of = v)
      BY <1>1, <1>2, <1>8, <2>2 DEF HInv, Marks, Written
    <2>3. QED
      BY <2>1, <2>2
  <1>10. ASSUME NEW v \in Reader, NEW s \in Task PROVE Outdated(v, s)'
    <2> SUFFICES ASSUME Lone(v, s)' PROVE Outdated(v, s)'
      BY DEF Outdated
    <2>1. \A r \in Task : mark'[r].stage = "dated" => r # t /\ mark[r].stage = "dated"
      BY <1>2
    <2>2. CASE s = t
      <3>1. mark[t].of = v /\ mark[t].rivals = {} /\ lastReadAt'[v] = mark[t].at
        BY <1>2, <1>8, <2>2 DEF Lone
      <3>2. \A r \in Task : ~(mark'[r].stage = "dated" /\ mark'[r].of = v)
        BY <1>1, <1>2, <2>1, <3>1 DEF HInv, Marks, Rival
      <3>3. mark'[t].at = mark[t].at /\ mark[t].at \in Nat
        BY <1>2, HTypes
      <3>4. QED
        BY <2>2, <3>1, <3>2, <3>3 DEF Outdated
    <2>3. CASE s # t
      <3>1. Lone(v, s) /\ Outdated(v, s) /\ mark'[s].at = mark[s].at
        BY <1>2, <2>3 DEF Lone, HInv, Marks
      <3>2. mark[s].at <= lastReadAt'[v]
        BY <1>1, <1>8, <3>1 DEF Outdated
      <3>3. QED
        BY <1>2, <2>1, <3>1, <3>2 DEF Outdated
    <2>4. QED
      BY <2>2, <2>3
  <1>11. Walked' /\ SeenBehind'
    BY <1>1, <1>3, WalkStands
  <1>12. QED
    BY <1>3, <1>5, <1>6, <1>7, <1>9, <1>10, <1>11 DEF HInv, Marks

LEMMA StartWalkStep == HInv /\ StartWalk => HInv'
  <1> SUFFICES ASSUME HInv, StartWalk PROVE HInv'
    OBVIOUS
  <1>1. /\ walk.stage = "idle" /\ walk.before = MaxTime + 1 /\ walk.seen = {}
        /\ walk' = [walk EXCEPT !.stage = "paging", !.began = MessageRows]
        /\ UNCHANGED <<time, post, lastReadAt, mark>>
    BY DEF StartWalk, HInv, Walked
  <1>2. MessageRows' = MessageRows
    BY <1>1 DEF MessageRows
  <1>a. HistoryTypeOK'
    BY <1>1, HTypes DEF HInv, HistoryTypeOK
  <1>b. InPast'
    BY <1>1 DEF HInv, InPast
  <1>c. Marks'
    BY <1>1 DEF HInv, Marks, Knows, Rival, Outdated, Lone, Written
  <1>3. HistoryTypeOK' /\ InPast' /\ Marks'
    BY <1>a, <1>b, <1>c
  <1>4. /\ walk'.stage = "paging" /\ walk'.before = walk.before /\ walk'.began = MessageRows
        /\ walk'.seen = {} /\ \A t \in MessageRows : post[t].at < walk.before
    BY <1>1, HTypes DEF MessageRows
  <1>5. Walked' /\ SeenBehind'
    BY <1>1, <1>2, <1>4 DEF Walked, SeenBehind
  <1>6. QED
    BY <1>2, <1>3, <1>5 DEF HInv

(* A page: the walk sees it, and what it leaves out is older than the next *)
(* cursor or of its very millisecond; the last page leaves nothing out.    *)
LEMMA FetchPageMoves ==
    ASSUME HInv, FetchPage
    PROVE  /\ walk' \in [stage : {"paging", "ended"}, before : 1..(MaxTime + 1),
                         began : SUBSET Task, seen : SUBSET Task, cuts : SUBSET Time]
           /\ walk.stage = "paging" /\ walk'.began = walk.began /\ walk.cuts \subseteq walk'.cuts
           /\ walk'.stage = "paging" => walk'.before < walk.before
           /\ \E page \in SUBSET Older(walk.before) :
                /\ walk'.seen = walk.seen \cup page
                /\ walk'.stage = "paging" => \A t \in page : post[t].at >= walk'.before
                /\ \A t \in Older(walk.before) \ page :
                     \/ post[t].at \in walk'.cuts
                     \/ walk'.stage # "ended" /\ post[t].at < walk'.before
  <1>1. PICK page \in Pages(walk.before) :
          IF HasMore(walk.before)
          THEN \E oldest \in page :
                 /\ \A t \in page : post[t].at >= post[oldest].at
                 /\ walk' = [walk EXCEPT !.before = post[oldest].at, !.seen = @ \cup page,
                                         !.cuts = @ \cup {post[oldest].at}]
          ELSE walk' = [walk EXCEPT !.stage = "ended", !.seen = @ \cup page]
    BY DEF FetchPage
  <1>2. /\ page \subseteq Older(walk.before) /\ page \subseteq MessageRows /\ page \subseteq Task
        /\ \A s \in Older(walk.before) \ page, t \in page : post[s].at <= post[t].at
        /\ ~ HasMore(walk.before) => page = Older(walk.before)
    BY PageRows, HTypes
  <1>3. /\ walk \in [stage : {"idle", "paging", "ended"}, before : 1..(MaxTime + 1),
                      began : SUBSET Task, seen : SUBSET Task, cuts : SUBSET Time]
        /\ walk.stage = "paging"
    BY HTypes DEF FetchPage
  <1>4. CASE HasMore(walk.before)
    <2>1. PICK oldest \in page :
            /\ \A t \in page : post[t].at >= post[oldest].at
            /\ walk' = [walk EXCEPT !.before = post[oldest].at, !.seen = @ \cup page,
                                    !.cuts = @ \cup {post[oldest].at}]
      BY <1>1, <1>4
    <2>2. PICK at \in Nat : at = post[oldest].at
      BY <1>2, HTypes
    <2>3. at \in 1..(MaxTime + 1) /\ at \in Time /\ at < walk.before
      <3>1. oldest \in MessageRows /\ at < walk.before
        BY <1>2, <2>2 DEF Older
      <3>2. at \in 1..time
        BY <2>2, <3>1, HTypes DEF MessageRows
      <3>3. QED
        BY <3>1, <3>2, HTypes DEF Time
    <2>4. /\ walk'.stage = "paging" /\ walk'.before = at /\ walk'.began = walk.began
          /\ walk'.seen = walk.seen \cup page /\ walk'.cuts = walk.cuts \cup {at}
          /\ walk' \in [stage : {"paging", "ended"}, before : 1..(MaxTime + 1),
                        began : SUBSET Task, seen : SUBSET Task, cuts : SUBSET Time]
      <3>1. walk.seen \cup page \in SUBSET Task /\ walk.cuts \cup {at} \in SUBSET Time
        BY <1>2, <1>3, <2>3
      <3>2. QED
        BY <1>3, <2>1, <2>2, <2>3, <3>1
    <2>5. ASSUME NEW t \in Older(walk.before) \ page PROVE post[t].at = at \/ post[t].at < at
      <3>1. post[t].at \in Nat /\ post[t].at <= at
        BY <1>2, <2>2, HTypes DEF Older
      <3>2. QED
        BY <3>1
    <2>6. /\ \A t \in page : post[t].at >= walk'.before
          /\ \A t \in Older(walk.before) \ page :
               \/ post[t].at \in walk'.cuts
               \/ walk'.stage # "ended" /\ post[t].at < walk'.before
      BY <2>1, <2>2, <2>4, <2>5
    <2>7. QED
      BY <1>2, <1>3, <2>3, <2>4, <2>6
  <1>5. CASE ~ HasMore(walk.before)
    <2>1. walk' = [walk EXCEPT !.stage = "ended", !.seen = @ \cup page]
      BY <1>1, <1>5
    <2>2. /\ walk'.stage = "ended" /\ walk'.began = walk.began /\ walk'.cuts = walk.cuts
          /\ walk'.seen = walk.seen \cup page
          /\ walk' \in [stage : {"paging", "ended"}, before : 1..(MaxTime + 1),
                        began : SUBSET Task, seen : SUBSET Task, cuts : SUBSET Time]
      <3>1. walk.seen \cup page \in SUBSET Task
        BY <1>2, <1>3
      <3>2. QED
        BY <1>3, <2>1, <3>1
    <2>3. QED
      BY <1>2, <1>3, <1>5, <2>2
  <1>6. QED
    BY <1>4, <1>5

LEMMA FetchPageStep == HInv /\ FetchPage => HInv'
  <1> SUFFICES ASSUME HInv, FetchPage PROVE HInv'
    OBVIOUS
  <1>1. UNCHANGED <<time, post, lastReadAt, mark>>
    BY DEF FetchPage
  <1>2. MessageRows' = MessageRows
    BY <1>1 DEF MessageRows
  <1>3. HistoryTypeOK' /\ InPast'
    BY <1>1, FetchPageMoves DEF HInv, HistoryTypeOK, InPast
  <1>4. Marks'
    BY <1>1 DEF HInv, Marks, Knows, Rival, Outdated, Lone, Written
  <1>5. PICK page \in SUBSET Older(walk.before) :
          /\ walk'.seen = walk.seen \cup page
          /\ walk'.stage = "paging" => \A t \in page : post[t].at >= walk'.before
          /\ \A t \in Older(walk.before) \ page :
               \/ post[t].at \in walk'.cuts
               \/ walk'.stage # "ended" /\ post[t].at < walk'.before
    BY FetchPageMoves
  <1>6. Walked'
    <2>1. /\ walk'.began \subseteq MessageRows' /\ walk'.stage # "idle"
      BY <1>2, FetchPageMoves DEF HInv, Walked
    <2>2. ASSUME NEW t \in walk'.began \ walk'.seen
          PROVE  \/ post'[t].at \in walk'.cuts
                 \/ walk'.stage # "ended" /\ post'[t].at < walk'.before
      <3>1. /\ t \in walk.began \ walk.seen /\ t \in MessageRows /\ t \notin page
        BY <1>2, <1>5, <2>1, FetchPageMoves
      <3>2. post[t].at \in walk.cuts \/ t \in Older(walk.before)
        BY <3>1 DEF HInv, Walked, Older
      <3>3. QED
        BY <1>1, <1>5, <3>1, <3>2, FetchPageMoves
    <2>3. QED
      BY <2>1, <2>2 DEF Walked
  <1>7. SeenBehind'
    <2> SUFFICES ASSUME NEW t \in walk'.seen
                 PROVE  /\ t \in MessageRows
                        /\ walk'.stage = "paging" => post[t].at >= walk'.before
      BY <1>1, <1>2 DEF SeenBehind
    <2>1. CASE t \in page
      BY <1>5, <2>1 DEF Older
    <2>2. CASE t \in walk.seen
      <3>1. t \in MessageRows /\ post[t].at >= walk.before
        BY <2>2, FetchPageMoves DEF HInv, SeenBehind
      <3>2. post[t].at \in Nat /\ walk.before \in Nat /\ walk'.before \in Nat
        BY <3>1, FetchPageMoves, HTypes
      <3>3. QED
        BY <3>1, <3>2, FetchPageMoves
    <2>3. QED
      BY <1>5, <2>1, <2>2
  <1>8. QED
    BY <1>2, <1>3, <1>4, <1>6, <1>7 DEF HInv

LEMMA HistoryNextInv == HInv /\ [HistoryNext]_historyVars => HInv'
  <1> SUFFICES ASSUME HInv, [HistoryNext]_historyVars PROVE HInv'
    OBVIOUS
  <1>1. CASE Tick
    BY <1>1, TickStep
  <1>2. ASSUME NEW t \in Task, PostStep(t) PROVE HInv'
    BY <1>2, DateStep, PersistStep DEF PostStep
  <1>3. CASE StartWalk
    BY <1>3, StartWalkStep
  <1>4. CASE FetchPage
    BY <1>4, FetchPageStep
  <1>5. CASE Reading
    BY <1>5, StartMarkStep, EndMarkStep DEF Reading
  <1>6. CASE UNCHANGED historyVars
    <2>1. UNCHANGED <<time, post, lastReadAt, mark, walk>>
      BY <1>6 DEF historyVars
    <2>2. MessageRows' = MessageRows
      BY <2>1 DEF MessageRows
    <2>3. QED
      BY <2>1, <2>2 DEF HInv, HistoryTypeOK, InPast, Marks, Knows, Rival, Outdated, Lone,
         Written, Walked, SeenBehind
  <1>7. QED
    BY <1>1, <1>2, <1>3, <1>4, <1>5, <1>6 DEF HistoryNext, Posting, Walking

LEMMA HistoryInvariant == HistorySpec => []HInv
  <1>1. HistoryInit => HInv
    BY HistoryInitInv
  <1>2. HInv /\ [HistoryNext]_historyVars => HInv'
    BY HistoryNextInv
  <1>3. QED
    BY <1>1, <1>2, PTL DEF HistorySpec

(* The rows, the marks and the walk keep their types.                      *)
THEOREM HistoryTypes == HistorySpec => []HistoryTypeOK
  <1>1. HInv => HistoryTypeOK
    BY DEF HInv
  <1>2. QED
    BY <1>1, HistoryInvariant, PTL

(* However late messages are inserted, paging back ends with every message *)
(* that was stored when it began, but for those of a cut millisecond.      *)
THEOREM WalkComplete == HistorySpec => []WalkCovers
  <1>1. HInv => WalkCovers
    BY DEF HInv, Walked, WalkCovers
  <1>2. QED
    BY <1>1, HistoryInvariant, PTL

(* What was dated when a member marked the conversation read, no other     *)
(* mark of the member being under way, stays read however later marks      *)
(* overlap; and what was dated after every mark counts once it is stored.  *)
THEOREM UnreadMarked == HistorySpec => []UnreadSinceMark
  <1>1. ASSUME HInv, NEW u \in Reader, NEW p \in MessageRows
        PROVE  /\ \A t \in Task : /\ mark[t].stage = "done" /\ mark[t].of = u
                                  /\ mark[t].rivals = {} /\ p \in mark[t].known
                                  => p \notin Unread(u)
               /\ post[p].from # u /\ (\A t \in Task : mark[t].of = u =>
                                           p \notin mark[t].known /\ mark[t].at # post[p].at)
                    => p \in Unread(u)
    <2>1. /\ p \in Task /\ post[p].stage # "unused" /\ post[p].at \in 1..time
          /\ post[p].at \in Nat /\ lastReadAt[u] \in Nat /\ post[p].at # 0
      BY <1>1, HTypes DEF MessageRows
    <2>2. ASSUME NEW t \in Task, mark[t].stage = "done", mark[t].of = u, mark[t].rivals = {},
                 p \in mark[t].known
          PROVE  p \notin Unread(u)
      <3>1. post[p].at <= mark[t].at /\ mark[t].at <= lastReadAt[u] /\ mark[t].at \in Nat
        BY <1>1, <2>1, <2>2, HTypes DEF HInv, Marks, Knows, Outdated, Lone
      <3>2. QED
        BY <2>1, <3>1 DEF Unread
    <2>3. ASSUME post[p].from # u, \A t \in Task : mark[t].of = u =>
                                     p \notin mark[t].known /\ mark[t].at # post[p].at
          PROVE  p \in Unread(u)
      <3>1. CASE lastReadAt[u] = 0
        BY <1>1, <2>1, <2>3, <3>1 DEF Unread
      <3>2. ASSUME NEW t \in Task, mark[t].stage = "done", mark[t].of = u,
                   mark[t].at = lastReadAt[u]
            PROVE  p \in Unread(u)
        <4>1. mark[t].at <= post[p].at /\ mark[t].at # post[p].at
          BY <1>1, <2>1, <2>3, <3>2 DEF HInv, Marks, Knows
        <4>2. QED
          BY <1>1, <2>1, <2>3, <3>2, <4>1 DEF Unread
      <3>3. QED
        BY <1>1, <3>1, <3>2 DEF HInv, Marks, Written
    <2>4. QED
      BY <2>2, <2>3
  <1>2. HInv => UnreadSinceMark
    BY <1>1 DEF UnreadSinceMark
  <1>3. QED
    BY <1>2, HistoryInvariant, PTL

(* Every page but the last takes the cursor back, and shows only what is   *)
(* older than it: no number of late inserts holds the walk in one place.   *)
THEOREM WalkGoesBack == HistorySpec => WalkMovesBack
  <1> DEFINE Back == walk'.seen # walk.seen /\ walk'.stage = "paging"
                       => /\ walk'.before < walk.before
                          /\ \A t \in walk'.seen \ walk.seen : post[t].at < walk.before
  <1>1. ASSUME HInv, [HistoryNext]_historyVars PROVE [Back]_historyVars
    <2>1. CASE FetchPage
      BY <1>1, <2>1, FetchPageMoves DEF Older
    <2>2. CASE StartWalk
      <3>1. walk'.seen = walk.seen
        BY <1>1, <2>2, HTypes DEF StartWalk
      <3>2. QED
        BY <3>1
    <2>3. CASE walk' = walk
      BY <2>3
    <2>4. QED
      BY <1>1, <2>1, <2>2, <2>3
         DEF HistoryNext, Posting, Walking, Reading, Tick, PostStep, Date, InsertPost,
             PersistFails, StartMark, MarkRead, MarkFails, MarkTurns, historyVars
  <1>2. QED
    BY <1>1, HistoryInvariant, PTL DEF HistorySpec, WalkMovesBack

(* No page shows again what an earlier page showed.                        *)
THEOREM ShownOnce == HistorySpec => []NothingTwice
  <1>1. HInv => NothingTwice
    <2> SUFFICES ASSUME HInv, walk.stage = "paging", NEW page \in Pages(walk.before),
                        NEW t \in page, t \in walk.seen
                 PROVE  FALSE
      BY DEF NothingTwice
    <2>1. post[t].at >= walk.before
      BY DEF HInv, SeenBehind
    <2>2. t \in MessageRows /\ post[t].at < walk.before
      BY PageRows DEF Older
    <2>3. post[t].at \in Nat /\ walk.before \in Nat
      BY <2>2, HTypes
    <2>4. QED
      BY <2>1, <2>2, <2>3
  <1>2. QED
    BY <1>1, HistoryInvariant, PTL

-----------------------------------------------------------------------------
(* DeviceTokens *)

Jobs == [stage : Busy \cup {"unused", "done", "failed"},
         kind : {"register", "unregister", "push"},
         user : Holder \cup {None}, token : Token \cup {None},
         platform : Platforms, found : SUBSET TokenRow,
         targets : SUBSET Token, reported : SUBSET Token, rivals : SUBSET Task]

Promises == {"none", "some", "unsure"}
Saving == {"selecting", "updating", "reinserting"}

(* What a call or a push holds at each of its stages                       *)
Calling(t) ==
    LET j == job[t] IN
    /\ j.stage \in Busy /\ j.kind # "push" => j.user \in Holder /\ j.token \in Token
    /\ j.stage \in Saving \cup {"inserting"} => j.kind = "register"
    /\ j.stage \in {"sending", "pruning"} => j.kind = "push"
    /\ j.stage = "pruning" => j.targets = j.reported
    /\ j.stage \in Saving => \E f \in TokenRow : /\ j.found = {f}
                                                 /\ f.user = j.user /\ f.token = j.token

Opposed(s, t) ==
    /\ {job[s].kind, job[t].kind} = {"register", "unregister"}
    /\ job[s].user = job[t].user /\ job[s].token = job[t].token

(* A register and an unregister of one token that are under way together   *)
(* know of each other.                                                     *)
Rivals ==
    \A s, t \in Task :
        job[s].stage \in Busy /\ job[t].stage \in Busy /\ Opposed(s, t) => s \in job[t].rivals

(* A register that found a row, and that no unregister overlaps            *)
Alone(t) ==
    job[t].rivals = {} /\ job[t].stage \in Saving => expected[job[t].user][job[t].token] # "none"

DInv == /\ DeviceTokensTypeOK /\ Rivals /\ TokensFollowCalls
        /\ \A t \in Task : Calling(t) /\ Alone(t)

(* What TokensFollowCalls says of one user and token                       *)
Follows(u, k) ==
    /\ expected[u][k] = "none" => RowsOf(u, k) = {}
    /\ expected[u][k] = "some" => RowsOf(u, k) # {}

LEMMA DTypes ==
    ASSUME DInv
    PROVE  /\ job \in [Task -> Jobs] /\ tokenRows \subseteq TokenRow /\ dead \subseteq FcmToken
           /\ indexed \in BOOLEAN /\ expected \in [Holder -> [Token -> Promises]]
           /\ \A u \in Holder, k \in Token : Follows(u, k)
  BY DEF DInv, DeviceTokensTypeOK, Jobs, Promises, TokensFollowCalls, Follows

LEMMA TokensInitInv == DeviceTokensInit => DInv
  <1> SUFFICES ASSUME DeviceTokensInit PROVE DInv
    OBVIOUS
  <1>1. NoJob \in Jobs /\ NoJob.stage = "unused"
    BY DEF NoJob, Jobs, Platforms
  <1>2. /\ tokenRows = {} /\ dead = {} /\ job = [t \in Task |-> NoJob] /\ indexed \in BOOLEAN
        /\ expected = [u \in Holder |-> [k \in Token |-> "none"]]
    BY DEF DeviceTokensInit
  <1>3. DeviceTokensTypeOK
    BY <1>1, <1>2 DEF DeviceTokensTypeOK, Jobs
  <1>4. TokensFollowCalls
    BY <1>2 DEF TokensFollowCalls, RowsOf
  <1>5. Rivals /\ \A t \in Task : Calling(t) /\ Alone(t)
    BY <1>1, <1>2 DEF Rivals, Calling, Alone, Busy, Saving
  <1>6. QED
    BY <1>3, <1>4, <1>5 DEF DInv

(* A step of a call or push: what is promised of any token holds, and only *)
(* an unregister promises that a token has gone.                           *)
LEMMA JobKeeps ==
    ASSUME DInv, NEW t \in Task, job[t].stage \in Busy,
           job'[t] \in Jobs, job' = [job EXCEPT ![t] = job'[t]],
           tokenRows' \subseteq TokenRow, dead' = dead, indexed' = indexed,
           expected' \in [Holder -> [Token -> Promises]],
           job'[t].stage \in Busy =>
             /\ job'[t].kind = job[t].kind /\ job'[t].user = job[t].user
             /\ job'[t].token = job[t].token /\ job'[t].rivals = job[t].rivals,
           Calling(t)', Alone(t)',
           \A u \in Holder, k \in Token :
             /\ Follows(u, k)'
             /\ expected'[u][k] = "none" =>
                  \/ expected[u][k] = "none"
                  \/ job[t].kind = "unregister" /\ job[t].user = u /\ job[t].token = k
    PROVE  DInv'
  <1>1. \A s \in Task : s # t => job'[s] = job[s]
    BY DTypes
  <1>2. DeviceTokensTypeOK'
    BY DTypes DEF DeviceTokensTypeOK, Jobs, Promises
  <1>3. Rivals'
    <2> SUFFICES ASSUME NEW s \in Task, NEW r \in Task, Opposed(s, r)',
                        job'[s].stage \in Busy, job'[r].stage \in Busy
                 PROVE  s \in job'[r].rivals
      BY DEF Rivals
    <2>1. \A q \in {s, r} : /\ job[q].stage \in Busy /\ job'[q].kind = job[q].kind
                            /\ job'[q].user = job[q].user /\ job'[q].token = job[q].token
                            /\ job'[q].rivals = job[q].rivals
      BY <1>1
    <2>2. Opposed(s, r)
      BY <2>1 DEF Opposed
    <2>3. QED
      BY <2>1, <2>2 DEF DInv, Rivals
  <1>4. TokensFollowCalls'
    BY DEF TokensFollowCalls, Follows
  <1>5. \A s \in Task : Calling(s)' /\ Alone(s)'
    <2> TAKE s \in Task
    <2>1. CASE s = t
      BY <2>1
    <2>2. CASE s # t
      <3>1. job'[s] = job[s] /\ Calling(s) /\ Alone(s)
        BY <1>1, <2>2 DEF DInv
      <3>2. Calling(s)'
        BY <3>1 DEF Calling
      <3>3. Alone(s)'
        <4> SUFFICES ASSUME job[s].rivals = {}, job[s].stage \in Saving,
                            expected'[job[s].user][job[s].token] = "none"
                     PROVE  FALSE
          BY <3>1 DEF Alone
        <4>1. job[s].kind = "register" /\ job[s].stage \in Busy
          BY <3>1 DEF Calling, Saving, Busy
        <4>2. job[s].user \in Holder /\ job[s].token \in Token
          BY <3>1, <4>1 DEF Calling
        <4>3. expected[job[s].user][job[s].token] # "none"
          BY <3>1 DEF Alone
        <4>4. Opposed(t, s)
          BY <4>1, <4>2, <4>3 DEF Opposed
        <4>5. QED
          BY <4>1, <4>4 DEF DInv, Rivals
      <3>4. QED
        BY <3>2, <3>3
    <2>3. QED
      BY <2>1, <2>2
  <1>6. QED
    BY <1>2, <1>3, <1>4, <1>5 DEF DInv

(* A step that writes no row and promises nothing                          *)
LEMMA StageKeeps ==
    ASSUME DInv, NEW t \in Task, job[t].stage \in Busy,
           job'[t] \in Jobs, job' = [job EXCEPT ![t] = job'[t]],
           UNCHANGED <<indexed, tokenRows, dead, expected>>,
           job'[t].stage \in Busy =>
             /\ job'[t].kind = job[t].kind /\ job'[t].user = job[t].user
             /\ job'[t].token = job[t].token /\ job'[t].rivals = job[t].rivals,
           Calling(t)', Alone(t)'
    PROVE  DInv'
  <1>1. \A u \in Holder, k \in Token : RowsOf(u, k)' = RowsOf(u, k)
    BY DEF RowsOf
  <1>2. \A u \in Holder, k \in Token : Follows(u, k)'
    BY <1>1, DTypes DEF Follows
  <1>3. QED
    BY <1>2, DTypes, JobKeeps

(* A call goes to another stage and remembers everything.                  *)
LEMMA StepType ==
    ASSUME DInv, NEW t \in Task, NEW stage \in Busy \cup {"done", "failed"},
           job' = [job EXCEPT ![t].stage = stage]
    PROVE  /\ job' = [job EXCEPT ![t] = job'[t]]
           /\ job'[t] \in Jobs /\ job'[t].stage = stage
           /\ job'[t].kind = job[t].kind /\ job'[t].user = job[t].user
           /\ job'[t].token = job[t].token /\ job'[t].rivals = job[t].rivals
           /\ job'[t].found = job[t].found /\ job'[t].targets = job[t].targets
           /\ job'[t].reported = job[t].reported
  BY DTypes DEF Jobs

(* A call that ends: its promise is as the rows then are, or in doubt.     *)
LEMMA SettleKeeps ==
    ASSUME DInv, NEW t \in Task, job[t].stage \in Busy, job[t].kind # "push",
           job' = [job EXCEPT ![t].stage = "done"],
           NEW outcome \in Promises, Promise(t, outcome),
           tokenRows' \subseteq TokenRow, dead' = dead, indexed' = indexed,
           outcome = "none" => job[t].kind = "unregister",
           \A u \in Holder, k \in Token :
             u # job[t].user \/ k # job[t].token => (RowsOf(u, k) = {} <=> RowsOf(u, k)' = {}),
           \A u \in Holder, k \in Token :
             u = job[t].user /\ k = job[t].token /\ job[t].rivals = {} =>
               /\ outcome = "none" => RowsOf(u, k)' = {}
               /\ outcome = "some" => RowsOf(u, k)' # {}
    PROVE  DInv'
  <1>1. PICK u \in Holder, k \in Token : u = job[t].user /\ k = job[t].token
    BY DEF DInv, Calling
  <1>2. /\ job' = [job EXCEPT ![t] = job'[t]] /\ job'[t] \in Jobs /\ job'[t].stage = "done"
    BY StepType
  <1> DEFINE settled == IF job[t].rivals = {} THEN outcome ELSE "unsure"
  <1>3. settled \in Promises /\ expected' = [expected EXCEPT ![u][k] = settled]
    BY <1>1 DEF Promise, Promises
  <1>4. /\ expected' \in [Holder -> [Token -> Promises]] /\ expected'[u][k] = settled
        /\ \A v \in Holder, l \in Token : v # u \/ l # k => expected'[v][l] = expected[v][l]
    <2> HIDE DEF settled
    <2>1. QED
      BY <1>3, DTypes
  <1>5. Follows(u, k)'
    BY <1>1, <1>4 DEF Follows
  <1>6. \A v \in Holder, l \in Token : v # u \/ l # k => Follows(v, l)'
    BY <1>1, <1>4, DTypes DEF Follows
  <1>7. expected'[u][k] = "none" => job[t].kind = "unregister"
    BY <1>4
  <1>8. Calling(t)' /\ Alone(t)' /\ job'[t].stage \notin Busy
    BY <1>2 DEF Calling, Alone, Busy, Saving
  <1> HIDE DEF settled
  <1>9. \A v \in Holder, l \in Token :
          /\ Follows(v, l)'
          /\ expected'[v][l] = "none" =>
               \/ expected[v][l] = "none"
               \/ job[t].kind = "unregister" /\ job[t].user = v /\ job[t].token = l
    <2> TAKE v \in Holder, l \in Token
    <2>1. CASE v = u /\ l = k
      BY <1>1, <1>5, <1>7, <2>1
    <2>2. CASE v # u \/ l # k
      BY <1>4, <1>6, <2>2
    <2>3. QED
      BY <2>1, <2>2
  <1>10. QED
    BY <1>2, <1>4, <1>8, <1>9, JobKeeps

LEMMA FindTokenStep ==
    ASSUME DInv, NEW t \in Task, FindToken(t)
    PROVE  DInv'
  <1>1. /\ job[t].kind = "register" /\ job[t].stage = "asked" /\ job[t].stage \in Busy
        /\ UNCHANGED <<indexed, tokenRows, dead>>
    BY DEF FindToken, Busy
  <1>2. PICK u \in Holder, k \in Token : u = job[t].user /\ k = job[t].token
    BY <1>1 DEF DInv, Calling
  <1>3. Follows(u, k) /\ \A v, l : RowsOf(v, l)' = RowsOf(v, l)
    BY <1>1, DTypes DEF RowsOf
  <1>4. CASE job' = [job EXCEPT ![t].stage = "inserting"] /\ UNCHANGED expected
    <2>1. /\ job' = [job EXCEPT ![t] = job'[t]]
          /\ job'[t] \in Jobs /\ job'[t].stage = "inserting"
          /\ job'[t].kind = job[t].kind /\ job'[t].user = job[t].user
          /\ job'[t].token = job[t].token /\ job'[t].rivals = job[t].rivals
      BY <1>4, StepType DEF Busy
    <2>2. Calling(t)' /\ Alone(t)'
      BY <1>1, <1>2, <2>1 DEF Calling, Alone, Busy, Saving
    <2>3. QED
      BY <1>1, <1>4, <2>1, <2>2, StageKeeps
  <1>5. CASE /\ RowsOf(u, k) # {}
             /\ job' = [job EXCEPT ![t].stage = "done"] /\ Promise(t, "some")
    BY <1>1, <1>2, <1>3, <1>5, DTypes, SettleKeeps DEF Promises
  <1>6. CASE \E r \in RowsOf(u, k) :
               /\ job' = [job EXCEPT ![t].stage = "selecting", ![t].found = {r}]
               /\ UNCHANGED expected
    <2>1. PICK r \in RowsOf(u, k) :
            job' = [job EXCEPT ![t].stage = "selecting", ![t].found = {r}]
      BY <1>6
    <2>2. r \in TokenRow /\ r.user = u /\ r.token = k
      BY DTypes DEF RowsOf
    <2>3. /\ job' = [job EXCEPT ![t] = job'[t]]
          /\ job'[t] \in Jobs /\ job'[t].stage = "selecting" /\ job'[t].found = {r}
          /\ job'[t].kind = job[t].kind /\ job'[t].user = job[t].user
          /\ job'[t].token = job[t].token /\ job'[t].rivals = job[t].rivals
      <3> DEFINE q == [job[t] EXCEPT !.stage = "selecting", !.found = {r}]
      <3>1. job[t] \in Jobs /\ job'[t] = q /\ job' = [job EXCEPT ![t] = q]
        BY <2>1, DTypes
      <3>2. /\ q \in Jobs /\ q.stage = "selecting" /\ q.found = {r} /\ q.kind = job[t].kind
            /\ q.user = job[t].user /\ q.token = job[t].token /\ q.rivals = job[t].rivals
        BY <2>2, <3>1 DEF Jobs, Busy
      <3> HIDE DEF q
      <3>3. QED
        BY <3>1, <3>2
    <2>4. Calling(t)'
      BY <1>1, <1>2, <2>2, <2>3 DEF Calling, Busy, Saving
    <2>5. expected[u][k] # "none" /\ UNCHANGED expected
      BY <1>3, <1>6 DEF Follows
    <2>6. Alone(t)'
      BY <1>2, <2>3, <2>5 DEF Alone, Saving
    <2>7. QED
      BY <1>1, <2>3, <2>4, <2>5, <2>6, StageKeeps
  <1>7. QED
    BY <1>2, <1>4, <1>5, <1>6 DEF FindToken

(* A save that the unique index, or the same row, refuses                  *)
LEMMA RefusedStep ==
    ASSUME DInv, NEW t \in Task, job[t].stage \in Busy,
           job' = [job EXCEPT ![t].stage = "failed"],
           UNCHANGED <<indexed, tokenRows, dead, expected>>
    PROVE  DInv'
  <1>1. /\ job' = [job EXCEPT ![t] = job'[t]] /\ job'[t] \in Jobs /\ job'[t].stage = "failed"
    BY StepType
  <1>2. Calling(t)' /\ Alone(t)' /\ job'[t].stage \notin Busy
    BY <1>1 DEF Calling, Alone, Busy, Saving
  <1>3. QED
    BY <1>1, <1>2, StageKeeps

(* A register that stores a row of its own user and token                  *)
LEMMA StoreStep ==
    ASSUME DInv, NEW t \in Task, job[t].stage \in Busy, job[t].kind = "register",
           NEW row \in TokenRow, row.user = job[t].user, row.token = job[t].token,
           job' = [job EXCEPT ![t].stage = "done"],
           tokenRows' = tokenRows \cup {row},
           Promise(t, "some"), UNCHANGED <<indexed, dead>>
    PROVE  DInv'
  <1>1. tokenRows' \subseteq TokenRow
    BY DTypes
  <1>2. \A u \in Holder, k \in Token :
          /\ u # job[t].user \/ k # job[t].token => RowsOf(u, k)' = RowsOf(u, k)
          /\ u = job[t].user /\ k = job[t].token => row \in RowsOf(u, k)'
    BY DEF RowsOf
  <1>3. QED
    BY <1>1, <1>2, SettleKeeps DEF Promises

LEMMA InsertTokenStep ==
    ASSUME DInv, NEW t \in Task, InsertToken(t)
    PROVE  DInv'
  <1>1. CASE Taken(t)
    <2>1. job[t].stage = "inserting" /\ job[t].stage \in Busy
      BY <1>1 DEF InsertToken, Step, Busy
    <2>2. QED
      BY <1>1, <2>1, RefusedStep DEF InsertToken, Step
  <1>2. CASE ~Taken(t)
    <2>1. /\ job[t].stage = "inserting" /\ job[t].stage \in Busy /\ UNCHANGED <<indexed, dead>>
          /\ job' = [job EXCEPT ![t].stage = "done"] /\ Promise(t, "some")
          /\ tokenRows' = tokenRows \cup {NewRow(t)}
      BY <1>2 DEF InsertToken, Step, Busy
    <2>2. /\ job[t].kind = "register" /\ job[t].user \in Holder /\ job[t].token \in Token
          /\ job[t] \in Jobs
      BY <2>1, DTypes DEF DInv, Calling
    <2>3. /\ NewRow(t) \in TokenRow
          /\ NewRow(t).user = job[t].user /\ NewRow(t).token = job[t].token
      BY <2>2 DEF NewRow, TokenRow, Jobs
    <2>4. QED
      BY <2>1, <2>2, <2>3, StoreStep
  <1>3. QED
    BY <1>1, <1>2

LEMMA SelectTokenStep ==
    ASSUME DInv, NEW t \in Task, SelectToken(t)
    PROVE  DInv'
  <1>1. PICK stage \in {"updating", "reinserting"} :
          /\ job[t].stage = "selecting" /\ job[t].stage \in Busy
          /\ job' = [job EXCEPT ![t].stage = stage]
          /\ UNCHANGED <<indexed, tokenRows, dead, expected>>
    BY DEF SelectToken, Step, Busy
  <1>2. /\ job' = [job EXCEPT ![t] = job'[t]]
        /\ job'[t] \in Jobs /\ job'[t].stage = stage /\ job'[t].found = job[t].found
        /\ job'[t].kind = job[t].kind /\ job'[t].user = job[t].user
        /\ job'[t].token = job[t].token /\ job'[t].rivals = job[t].rivals
    BY <1>1, StepType DEF Busy
  <1>3. Calling(t)'
    BY <1>1, <1>2 DEF DInv, Calling, Saving, Busy
  <1>4. Alone(t)'
    BY <1>1, <1>2 DEF DInv, Alone, Saving
  <1>5. QED
    BY <1>1, <1>2, <1>3, <1>4, StageKeeps

LEMMA UpdateTokenStep ==
    ASSUME DInv, NEW t \in Task, UpdateToken(t)
    PROVE  DInv'
  <1> DEFINE changed(r) == IF \E f \in job[t].found : r.id = f.id
                           THEN [r EXCEPT !.platform = job[t].platform] ELSE r
             outcome == IF expected[job[t].user][job[t].token] = "unsure" THEN "unsure" ELSE "some"
  <1>1. /\ job[t].stage = "updating" /\ job[t].stage \in Busy /\ UNCHANGED <<indexed, dead>>
        /\ job' = [job EXCEPT ![t].stage = "done"] /\ Promise(t, outcome)
        /\ tokenRows' = {changed(r) : r \in tokenRows}
    BY DEF UpdateToken, Step, Busy
  <1>2. PICK u \in Holder, k \in Token : u = job[t].user /\ k = job[t].token
    BY <1>1 DEF DInv, Calling, Saving
  <1>3. job[t].kind = "register" /\ job[t] \in Jobs /\ job[t].platform \in Platforms
    BY <1>1, DTypes DEF DInv, Calling, Saving, Jobs
  <1>4. \A r \in TokenRow : /\ changed(r) \in TokenRow
                            /\ changed(r).user = r.user /\ changed(r).token = r.token
    BY <1>3 DEF TokenRow
  <1> HIDE DEF changed
  <1>5. tokenRows' \subseteq TokenRow
    BY <1>1, <1>4, DTypes
  <1>6. ASSUME NEW v \in Holder, NEW l \in Token
        PROVE  RowsOf(v, l) = {} <=> RowsOf(v, l)' = {}
    <2>1. \A r \in RowsOf(v, l) : changed(r) \in RowsOf(v, l)'
      BY <1>1, <1>4, DTypes DEF RowsOf
    <2>2. \A q \in RowsOf(v, l)' : \E r \in RowsOf(v, l) : q = changed(r)
      BY <1>1, <1>4, DTypes DEF RowsOf
    <2>3. QED
      BY <2>1, <2>2
  <1>7. job[t].rivals = {} /\ outcome = "some" => RowsOf(u, k)' # {}
    <2>1. job[t].rivals = {} => expected[u][k] # "none"
      BY <1>1, <1>2 DEF DInv, Alone, Saving
    <2>2. expected[u][k] \in Promises /\ Follows(u, k)
      BY DTypes
    <2>3. QED
      BY <1>2, <1>6, <2>1, <2>2 DEF Follows, Promises
  <1>8. outcome \in Promises /\ outcome # "none"
    BY DEF Promises
  <1> HIDE DEF outcome
  <1>9. \A v \in Holder, l \in Token :
          v = job[t].user /\ l = job[t].token /\ job[t].rivals = {} =>
            /\ outcome = "none" => RowsOf(v, l)' = {}
            /\ outcome = "some" => RowsOf(v, l)' # {}
    BY <1>2, <1>7, <1>8
  <1>10. job[t].kind # "push" /\ dead' = dead /\ indexed' = indexed
    BY <1>1, <1>3
  <1>11. /\ job[t].stage \in Busy /\ job' = [job EXCEPT ![t].stage = "done"]
         /\ Promise(t, outcome) /\ outcome \in Promises
         /\ (outcome = "none" => job[t].kind = "unregister")
    BY <1>1, <1>8
  <1>12. \A v \in Holder, l \in Token :
           v # job[t].user \/ l # job[t].token => (RowsOf(v, l) = {} <=> RowsOf(v, l)' = {})
    BY <1>6
  <1>13. QED
    BY <1>5, <1>9, <1>10, <1>11, <1>12, SettleKeeps

LEMMA ReinsertTokenStep ==
    ASSUME DInv, NEW t \in Task, ReinsertToken(t)
    PROVE  DInv'
  <1>1. CASE Found(t) \/ Taken(t)
    <2>1. job[t].stage = "reinserting" /\ job[t].stage \in Busy
      BY <1>1 DEF ReinsertToken, Step, Busy
    <2>2. QED
      BY <1>1, <2>1, RefusedStep DEF ReinsertToken, Step
  <1>2. CASE ~(Found(t) \/ Taken(t))
    <2>1. /\ job[t].stage = "reinserting" /\ job[t].stage \in Busy
          /\ UNCHANGED <<indexed, dead>>
          /\ job' = [job EXCEPT ![t].stage = "done"] /\ Promise(t, "some")
          /\ tokenRows' = tokenRows \cup
               {[f EXCEPT !.platform = job[t].platform] : f \in job[t].found}
      BY <1>2 DEF ReinsertToken, Step, Busy
    <2>2. /\ job[t].kind = "register" /\ job[t].platform \in Platforms
          /\ \E f \in TokenRow : /\ job[t].found = {f}
                                 /\ f.user = job[t].user /\ f.token = job[t].token
      BY <2>1, DTypes DEF DInv, Calling, Saving, Jobs
    <2>3. PICK f \in TokenRow : /\ job[t].found = {f}
                                /\ f.user = job[t].user /\ f.token = job[t].token
      BY <2>2
    <2> DEFINE row == [f EXCEPT !.platform = job[t].platform]
    <2>4. row \in TokenRow /\ row.user = job[t].user /\ row.token = job[t].token
      BY <2>2, <2>3 DEF TokenRow
    <2>5. tokenRows' = tokenRows \cup {row}
      BY <2>1, <2>3
    <2> HIDE DEF row
    <2>6. QED
      BY <2>1, <2>2, <2>4, <2>5, StoreStep
  <1>3. QED
    BY <1>1, <1>2

LEMMA DeleteTokenStep ==
    ASSUME DInv, NEW t \in Task, DeleteToken(t)
    PROVE  DInv'
  <1>1. /\ job[t].stage = "asked" /\ job[t].stage \in Busy /\ job[t].kind = "unregister"
        /\ UNCHANGED <<indexed, dead>>
        /\ job' = [job EXCEPT ![t].stage = "done"] /\ Promise(t, "none")
        /\ tokenRows' = tokenRows \ RowsOf(job[t].user, job[t].token)
    BY DEF DeleteToken, Step, Busy
  <1>2. tokenRows' \subseteq TokenRow
    BY <1>1, DTypes
  <1>3. \A u \in Holder, k \in Token :
          RowsOf(u, k)' = IF u = job[t].user /\ k = job[t].token THEN {} ELSE RowsOf(u, k)
    BY <1>1 DEF RowsOf
  <1>4. QED
    BY <1>1, <1>2, <1>3, SettleKeeps DEF Promises

LEMMA PushSteps ==
    ASSUME DInv, NEW t \in Task, Collect(t) \/ Answer(t)
    PROVE  DInv'
  <1>1. /\ job[t].stage \in {"asked", "sending"} /\ job[t].stage \in Busy
        /\ job[t].kind = "push"
        /\ UNCHANGED <<indexed, tokenRows, dead, expected>>
    BY DEF Collect, Answer, Busy, DInv, Calling
  <1>2. PICK stage \in {"sending", "pruning"}, targets \in SUBSET Token,
             reported \in SUBSET Token :
          /\ job' = [job EXCEPT ![t].stage = stage, ![t].targets = targets,
                                ![t].reported = reported]
          /\ stage = "pruning" => targets = reported
    <2>1. CASE Collect(t)
      <3>1. PICK excluded \in {{}, {"ios-voip"}} :
              job' = [job EXCEPT ![t].stage = "sending",
                        ![t].targets = {r.token : r \in {r \in tokenRows : r.user = job[t].user
                                                            /\ r.platform \notin excluded}}]
        BY <2>1 DEF Collect
      <3> DEFINE targets == {r.token : r \in {r \in tokenRows : r.user = job[t].user
                                                 /\ r.platform \notin excluded}}
      <3>2. targets \in SUBSET Token /\ job[t].reported \in SUBSET Token
        BY DTypes DEF TokenRow, Jobs
      <3>3. job' = [job EXCEPT ![t].stage = "sending", ![t].targets = targets,
                               ![t].reported = job[t].reported]
        BY <3>1, DTypes DEF Jobs
      <3> HIDE DEF targets
      <3>4. QED
        BY <3>2, <3>3
    <2>2. CASE Answer(t)
      <3>1. job[t].targets \in SUBSET Token
        BY DTypes DEF Jobs
      <3>2. PICK reported \in SUBSET Token, transient \in SUBSET Token :
              job' = [job EXCEPT ![t].stage = "pruning", ![t].reported = reported,
                                 ![t].targets = Stale(reported, transient)]
        BY <2>2, <3>1 DEF Answer
      <3>3. job' = [job EXCEPT ![t].stage = "pruning", ![t].targets = reported,
                               ![t].reported = reported]
        BY <3>2, DTypes DEF Stale, Jobs
      <3>4. QED
        BY <3>3
    <2>3. QED
      BY <2>1, <2>2
  <1>3. /\ job' = [job EXCEPT ![t] = job'[t]]
        /\ job'[t] \in Jobs /\ job'[t].stage = stage /\ job'[t].targets = targets
        /\ job'[t].reported = reported
        /\ job'[t].kind = job[t].kind /\ job'[t].user = job[t].user
        /\ job'[t].token = job[t].token /\ job'[t].rivals = job[t].rivals
    <2> DEFINE q == [job[t] EXCEPT !.stage = stage, !.targets = targets, !.reported = reported]
    <2>1. job[t] \in Jobs /\ job'[t] = q /\ job' = [job EXCEPT ![t] = q]
      BY <1>2, DTypes
    <2>2. /\ q \in Jobs /\ q.stage = stage /\ q.targets = targets /\ q.kind = job[t].kind
          /\ q.user = job[t].user /\ q.token = job[t].token /\ q.rivals = job[t].rivals
          /\ q.reported = reported
      BY <2>1 DEF Jobs, Busy
    <2> HIDE DEF q
    <2>3. QED
      BY <2>1, <2>2
  <1>4. Calling(t)' /\ Alone(t)'
    BY <1>1, <1>2, <1>3 DEF Calling, Alone, Saving
  <1>5. QED
    BY <1>1, <1>3, <1>4, StageKeeps

LEMMA PruneStep ==
    ASSUME DInv, NEW t \in Task, Prune(t)
    PROVE  DInv'
  <1>1. /\ job[t].stage = "pruning" /\ job[t].stage \in Busy
        /\ job' = [job EXCEPT ![t].stage = "done"] /\ UNCHANGED <<indexed, dead>>
        /\ tokenRows' = {r \in tokenRows : r.token \notin job[t].targets}
        /\ expected' = [u \in Holder |-> [k \in Token |->
                          IF k \in job[t].reported /\ expected[u][k] = "some" THEN "unsure"
                          ELSE expected[u][k]]]
    BY DEF Prune, Step, Busy
  <1>2. job[t].kind = "push" /\ job[t].targets = job[t].reported
    BY <1>1 DEF DInv, Calling
  <1>3. /\ job' = [job EXCEPT ![t] = job'[t]]
        /\ job'[t] \in Jobs /\ job'[t].stage = "done"
    BY <1>1, StepType
  <1>4. Calling(t)' /\ Alone(t)' /\ job'[t].stage \notin Busy
    BY <1>3 DEF Calling, Alone, Saving, Busy
  <1>5. expected' \in [Holder -> [Token -> Promises]]
    BY <1>1, DTypes DEF Promises
  <1>6. ASSUME NEW u \in Holder, NEW k \in Token
        PROVE  Follows(u, k)' /\ (expected'[u][k] = "none" => expected[u][k] = "none")
    <2>1. RowsOf(u, k)' = IF k \in job[t].reported THEN {} ELSE RowsOf(u, k)
      BY <1>1, <1>2 DEF RowsOf
    <2>2. expected'[u][k] = IF k \in job[t].reported /\ expected[u][k] = "some" THEN "unsure"
                            ELSE expected[u][k]
      BY <1>1
    <2>3. QED
      BY <2>1, <2>2, DTypes DEF Follows
  <1>7. tokenRows' \subseteq TokenRow
    BY <1>1, DTypes
  <1>8. QED
    BY <1>1, <1>3, <1>4, <1>5, <1>6, <1>7, JobKeeps

LEMMA JobFailsStep ==
    ASSUME DInv, NEW t \in Task, JobFails(t)
    PROVE  DInv'
  <1>1. /\ job[t].stage \in Busy /\ UNCHANGED <<indexed, tokenRows, dead, expected>>
        /\ job' = [job EXCEPT ![t] = [NoJob EXCEPT !.stage = "failed"]]
    BY DEF JobFails
  <1>2. /\ job'[t] = [NoJob EXCEPT !.stage = "failed"]
        /\ job' = [job EXCEPT ![t] = job'[t]]
    BY <1>1, DTypes
  <1>3. job'[t] \in Jobs /\ job'[t].stage = "failed"
    BY <1>2 DEF NoJob, Jobs, Platforms
  <1>4. Calling(t)' /\ Alone(t)' /\ job'[t].stage \notin Busy
    BY <1>3 DEF Calling, Alone, Saving, Busy
  <1>5. QED
    BY <1>1, <1>2, <1>3, <1>4, StageKeeps

LEMMA BeginStep ==
    ASSUME DInv, NEW t \in Task, NEW j \in Jobs, Begin(t, j),
           j.kind # "push" => j.user \in Holder /\ j.token \in Token
    PROVE  DInv'
  <1> DEFINE rivals == {s \in Task : /\ job[s].stage \in Busy
                                     /\ {j.kind, job[s].kind} = {"register", "unregister"}
                                     /\ job[s].user = j.user /\ job[s].token = j.token}
             q == [j EXCEPT !.stage = "asked", !.rivals = rivals]
  <1>1. /\ job[t].stage = "unused" /\ UNCHANGED <<indexed, tokenRows, dead, expected>>
        /\ job' = [s \in Task |-> IF s = t THEN q
                                  ELSE IF s \in rivals THEN [job[s] EXCEPT !.rivals = @ \cup {t}]
                                  ELSE job[s]]
    BY DEF Begin
  <1>2. /\ q \in Jobs /\ q.stage = "asked" /\ q.kind = j.kind /\ q.user = j.user
        /\ q.token = j.token /\ q.rivals = rivals
    BY DEF Jobs, Busy
  <1>3. job'[t] = q
    BY <1>1
  <1> HIDE DEF q
  <1>4. \A s \in Task \ {t} :
          /\ job'[s] \in Jobs /\ job'[s].stage = job[s].stage /\ job'[s].kind = job[s].kind
          /\ job'[s].user = job[s].user /\ job'[s].token = job[s].token
          /\ job'[s].found = job[s].found /\ job'[s].targets = job[s].targets
          /\ job'[s].reported = job[s].reported
          /\ job[s].rivals \subseteq job'[s].rivals
          /\ s \in rivals => t \in job'[s].rivals
    <2> TAKE s \in Task \ {t}
    <2>1. job[s] \in Jobs
      BY DTypes
    <2>2. job'[s] = IF s \in rivals THEN [job[s] EXCEPT !.rivals = @ \cup {t}] ELSE job[s]
      BY <1>1
    <2> HIDE DEF rivals
    <2>3. CASE s \in rivals
      BY <2>1, <2>2, <2>3 DEF Jobs
    <2>4. CASE s \notin rivals
      BY <2>1, <2>2, <2>4
    <2>5. QED
      BY <2>3, <2>4
  <1>5. DeviceTokensTypeOK'
    <2>1. job' \in [Task -> Jobs]
      BY <1>1, <1>2, <1>3, <1>4
    <2>2. QED
      BY <1>1, <2>1, DTypes DEF DeviceTokensTypeOK, Jobs, Promises
  <1>6. \A u, k : RowsOf(u, k)' = RowsOf(u, k)
    BY <1>1 DEF RowsOf
  <1>7. TokensFollowCalls'
    BY <1>1, <1>6 DEF DInv, TokensFollowCalls
  <1>8. Rivals'
    <2> SUFFICES ASSUME NEW s \in Task, NEW r \in Task, Opposed(s, r)',
                        job'[s].stage \in Busy, job'[r].stage \in Busy
                 PROVE  s \in job'[r].rivals
      BY DEF Rivals
    <2>1. s # r
      BY DEF Opposed
    <2>2. CASE r = t
      BY <1>2, <1>3, <1>4, <2>1, <2>2 DEF Opposed
    <2>3. CASE s = t
      <3>1. r \in Task \ {t} /\ {j.kind, job[r].kind} = {"register", "unregister"}
        BY <1>2, <1>3, <1>4, <2>1, <2>3 DEF Opposed
      <3>2. r \in rivals
        BY <1>2, <1>3, <1>4, <2>1, <2>3, <3>1 DEF Opposed
      <3>3. QED
        BY <1>4, <2>3, <3>1, <3>2
    <2>4. CASE s # t /\ r # t
      <3>1. s \in job[r].rivals
        BY <1>4, <2>4 DEF DInv, Rivals, Opposed
      <3>2. QED
        BY <1>4, <2>4, <3>1
    <2>5. QED
      BY <2>2, <2>3, <2>4
  <1>9. \A s \in Task : Calling(s)' /\ Alone(s)'
    <2> TAKE s \in Task
    <2>1. CASE s = t
      BY <1>2, <1>3, <2>1 DEF Calling, Alone, Saving
    <2>2. CASE s # t
      <3>1. Calling(s) /\ Alone(s)
        BY DEF DInv
      <3>2. Calling(s)'
        BY <1>1, <1>4, <2>2, <3>1 DEF Calling
      <3>3. Alone(s)'
        BY <1>1, <1>4, <2>2, <3>1 DEF Alone
      <3>4. QED
        BY <3>2, <3>3
    <2>3. QED
      BY <2>1, <2>2
  <1>10. QED
    BY <1>5, <1>7, <1>8, <1>9 DEF DInv

LEMMA DieStep ==
    ASSUME DInv, NEW k \in FcmToken, Die(k)
    PROVE  DInv'
  <1>1. dead' = dead \cup {k} /\ UNCHANGED <<indexed, tokenRows, job, expected>>
    BY DEF Die
  <1>2. DeviceTokensTypeOK' /\ Rivals'
    BY <1>1 DEF DInv, DeviceTokensTypeOK, Rivals, Opposed
  <1>3. TokensFollowCalls'
    BY <1>1 DEF DInv, TokensFollowCalls, RowsOf
  <1>4. \A t \in Task : Calling(t)' /\ Alone(t)'
    BY <1>1 DEF DInv, Calling, Alone
  <1>5. QED
    BY <1>2, <1>3, <1>4 DEF DInv

LEMMA TokensNextInv == DInv /\ [DeviceTokensNext]_tokenVars => DInv'
  <1> SUFFICES ASSUME DInv, [DeviceTokensNext]_tokenVars PROVE DInv'
    OBVIOUS
  <1>1. CASE UNCHANGED tokenVars
    <2>1. UNCHANGED <<indexed, tokenRows, dead, job, expected>>
      BY <1>1 DEF tokenVars
    <2>2. DeviceTokensTypeOK' /\ Rivals' /\ TokensFollowCalls'
      BY <2>1 DEF DInv, DeviceTokensTypeOK, Rivals, Opposed, TokensFollowCalls, RowsOf
    <2>3. \A t \in Task : Calling(t)' /\ Alone(t)'
      BY <2>1 DEF DInv, Calling, Alone
    <2>4. QED
      BY <2>2, <2>3 DEF DInv
  <1>2. ASSUME NEW t \in Task, JobStep(t) PROVE DInv'
    BY <1>2, FindTokenStep, InsertTokenStep, SelectTokenStep, UpdateTokenStep, ReinsertTokenStep,
       DeleteTokenStep, PushSteps, PruneStep, JobFailsStep DEF JobStep
  <1>3. ASSUME NEW t \in Task, NEW u \in Holder, StartPush(t, u) PROVE DInv'
    <2> DEFINE j == [NoJob EXCEPT !.kind = "push", !.user = u]
    <2>1. j \in Jobs /\ j.kind = "push"
      BY DEF NoJob, Jobs, Platforms
    <2>2. Begin(t, j)
      BY <1>3 DEF StartPush
    <2> HIDE DEF j
    <2>3. QED
      BY <2>1, <2>2, BeginStep
  <1>4. ASSUME NEW t \in Task, NEW u \in Holder, NEW k \in Token, AskUnregister(t, u, k)
        PROVE  DInv'
    <2> DEFINE j == [NoJob EXCEPT !.kind = "unregister", !.user = u, !.token = k]
    <2>1. j \in Jobs /\ j.user = u /\ j.token = k
      BY DEF NoJob, Jobs, Platforms
    <2>2. Begin(t, j)
      BY <1>4 DEF AskUnregister
    <2> HIDE DEF j
    <2>3. QED
      BY <2>1, <2>2, BeginStep
  <1>5. ASSUME NEW t \in Task, NEW u \in Holder, NEW k \in Token, NEW platform \in Platforms,
               AskRegister(t, u, k, platform)
        PROVE  DInv'
    <2> DEFINE j == [NoJob EXCEPT !.kind = "register", !.user = u, !.token = k,
                                  !.platform = platform]
    <2>1. j \in Jobs /\ j.user = u /\ j.token = k
      BY DEF NoJob, Jobs
    <2>2. Begin(t, j)
      BY <1>5 DEF AskRegister
    <2> HIDE DEF j
    <2>3. QED
      BY <2>1, <2>2, BeginStep
  <1>6. QED
    BY <1>1, <1>2, <1>3, <1>4, <1>5, DieStep DEF DeviceTokensNext

LEMMA TokensInvariant == DeviceTokensSpec => []DInv
  BY TokensInitInv, TokensNextInv, PTL DEF DeviceTokensSpec

(* The token rows, requests and pushes have their types.                   *)
THEOREM TokenTypes == DeviceTokensSpec => []DeviceTokensTypeOK
  BY TokensInvariant, PTL DEF DInv

(* Whatever registers overlap and whatever pushes prune, with the unique   *)
(* index and without: a token is stored once it was registered and not     *)
(* once it was unregistered, unless the two overlapped or FCM itself       *)
(* reported the token since (device-tokens.service, fcm-push.service).     *)
THEOREM TokensFollow == DeviceTokensSpec => []TokensFollowCalls
  BY TokensInvariant, PTL DEF DInv

-----------------------------------------------------------------------------
(* All tables together, as MCRows runs them                                *)

rowsVars == <<focus, reactionVars, convVars, historyVars, accountVars, tokenVars, uploadVars>>

(* A step of the composition is a step of each table or leaves it alone.   *)
LEMMA RowsStepIsEach ==
    ASSUME [RowsNext]_rowsVars
    PROVE  /\ [ReactionsNext]_reactionVars
           /\ [ConversationsNext]_convVars
           /\ [HistoryNext]_historyVars
           /\ [AccountsNext]_accountVars
           /\ [DeviceTokensNext]_tokenVars
           /\ [UploadsNext]_uploadVars
  <1>1. CASE UNCHANGED rowsVars
    BY <1>1 DEF rowsVars
  <1>2. Posted \/ OneSender \/ OneMessage => HistoryNext
    <2>1. Posted => HistoryNext
      BY DEF Posted, PostStep, Posting, HistoryNext
    <2>2. OneSender => HistoryNext
      BY DEF OneSender, PostStep, Posting, HistoryNext
    <2>3. OneMessage => HistoryNext
      BY DEF OneMessage, PostStep, Posting, HistoryNext
    <2>4. QED
      BY <2>1, <2>2, <2>3
  <1>3. CASE ReactionsNext /\ Others("reactions")
    BY <1>3 DEF Others
  <1>4. CASE OneMaker /\ Others("conversations")
    <2>1. ConversationsNext
      BY <1>4 DEF OneMaker, ConversationsNext
    <2>2. QED
      BY <1>4, <2>1 DEF Others
  <1>5. CASE HistoryNext /\ Others("history")
    BY <1>5 DEF Others
  <1>6. CASE AccountsNext /\ Others("accounts")
    BY <1>6 DEF Others
  <1>7. CASE DeviceTokensNext /\ Others("tokens")
    BY <1>7 DEF Others
  <1>8. CASE UploadsNext /\ Others("uploads")
    BY <1>8 DEF Others
  <1>9. QED
    BY <1>1, <1>2, <1>3, <1>4, <1>5, <1>6, <1>7, <1>8 DEF RowsNext, HistoryNext

(* So the composition implements what each table specifies on its own.     *)
LEMMA RowsImplements ==
    RowsSpec => /\ ReactionsSpec /\ ConversationsSpec /\ HistorySpec
                /\ AccountsSpec /\ DeviceTokensSpec /\ UploadsSpec
  <1>1. RowsInit => /\ ReactionsInit /\ ConversationsInit /\ HistoryInit
                    /\ AccountsInit /\ DeviceTokensInit /\ UploadsInit
    BY DEF RowsInit
  <1>2. QED
    BY <1>1, RowsStepIsEach, PTL
       DEF RowsSpec, rowsVars, ReactionsSpec, ConversationsSpec, HistorySpec, AccountsSpec,
           DeviceTokensSpec, UploadsSpec

(* The variables of all tables keep their types, whichever of them works.  *)
THEOREM RowsTypes == RowsSpec => []RowsTypeOK
  <1>1. RInv /\ CInv /\ HInv /\ AInv /\ DInv /\ UInv => RowsTypeOK
    BY DEF RInv, CInv, HInv, AInv, DInv, UInv, RowsTypeOK
  <1>2. QED
    BY <1>1, RowsImplements, ReactionsInvariant, ConversationsInvariant, HistoryInvariant,
       AccountsInvariant, TokensInvariant, UploadsInvariant, PTL
=============================================================================
