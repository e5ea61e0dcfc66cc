--------------------------- MODULE DeliveryProofs ---------------------------
(***************************************************************************)
(* Proofs about module Delivery, for any number of users, sockets,         *)
(* conversations and messages.                                             *)
(***************************************************************************)
EXTENDS Delivery, TLAPS

(* What a task learned before an await still holds after it: a socket is   *)
(* about to join only conversations its user is in.                        *)
Admitted == \A s \in Socket : \A v \in found[s] : OwnerOf[s] \in members[v]

(* The tasks of message:send, and what those that have begun name.         *)
Tasks == [stage : Stages, sock : Socket \cup {None}, conv : Conv \cup {None},
          heard : SUBSET User, pushed : SUBSET User]
TaskNamesConv == \A m \in Message : task[m].stage # "unused" => task[m].conv \in Conv

(* The inductive invariant: a broadcast that a user is offline is harmless *)
(* because PresenceService knows of every connected socket.                *)
DInv == TypeOK /\ Admitted /\ TaskNamesConv /\ PresenceExact /\ JoinedShownOnline

-----------------------------------------------------------------------------
LEMMA InitInv == Init => DInv
  BY OwnerAssumption DEF Init, DInv, TypeOK, Admitted, PresenceExact, JoinedShownOnline,
     TaskNamesConv, Nets, Shakes, Stages, NoTask

(* A join adds a connected socket to the rooms of its user's conversations *)
(* only.                                                                   *)
LEMMA EnterKeepsRooms ==
    ASSUME DInv, NEW s \in Socket, NEW convs \in SUBSET Conv, Enter(s, convs),
           \A v \in convs : OwnerOf[s] \in members[v]
    PROVE  /\ rooms' \in [Conv -> SUBSET Socket]
           /\ \A v \in Conv : \A t \in rooms'[v] : net[t] = "open" /\ OwnerOf[t] \in members[v]
  BY DEF DInv, TypeOK, PresenceExact, Enter

(* The steps of message:send touch no variable but `task'.                 *)
LEMMA TaskKeepsInv ==
    ASSUME DInv, UNCHANGED <<presenceVars, rooms, members>>,
           NEW m \in Message, NEW r \in Tasks, task' = [task EXCEPT ![m] = r],
           r.conv \in Conv
    PROVE  DInv'
  <1>1. task' \in [Message -> Tasks] /\ TaskNamesConv'
    BY DEF DInv, TypeOK, Tasks, TaskNamesConv
  <1>2. TypeOK'
    BY <1>1 DEF DInv, TypeOK, presenceVars, Tasks
  <1>3. Admitted' /\ PresenceExact' /\ JoinedShownOnline'
    BY DEF DInv, Admitted, PresenceExact, JoinedShownOnline, presenceVars
  <1>4. QED
    BY <1>1, <1>2, <1>3 DEF DInv

LEMMA ConnectStep ==
    ASSUME DInv, NEW s \in Socket, Connect(s)
    PROVE  DInv'
  <1>1. TypeOK'
    BY OwnerAssumption DEF DInv, TypeOK, Connect, Nets, Shakes
  <1>2. Admitted'
    BY DEF DInv, Admitted, Connect
  <1>3. PresenceExact'
    <2>1. \A u \in User : sockets'[u] = {t \in Socket : OwnerOf[t] = u /\ net'[t] = "open"}
      BY OwnerAssumption DEF DInv, TypeOK, PresenceExact, Connect
    <2>2. \A v \in Conv : \A t \in rooms'[v] : net'[t] = "open" /\ OwnerOf[t] \in members'[v]
      BY DEF DInv, TypeOK, PresenceExact, Connect
    <2>3. QED
      BY <2>1, <2>2 DEF PresenceExact
  <1>4. JoinedShownOnline'
    BY DEF DInv, TypeOK, JoinedShownOnline, Connect
  <1>5. TaskNamesConv'
    BY DEF DInv, TaskNamesConv, Connect
  <1>6. QED
    BY <1>1, <1>2, <1>3, <1>4, <1>5 DEF DInv

LEMMA TouchedStep ==
    ASSUME DInv, NEW s \in Socket, Touched(s)
    PROVE  DInv'
  BY DEF DInv, TypeOK, Admitted, TaskNamesConv, PresenceExact, JoinedShownOnline,
     Touched, Shakes

LEMMA ListStep ==
    ASSUME DInv, NEW s \in Socket, List(s)
    PROVE  DInv'
  <1>1. TypeOK'
    BY DEF DInv, TypeOK, List, Shakes
  <1>2. Admitted'
    BY DEF DInv, TypeOK, Admitted, List
  <1>3. PresenceExact' /\ JoinedShownOnline'
    BY DEF DInv, TypeOK, PresenceExact, JoinedShownOnline, List
  <1>4. TaskNamesConv'
    BY DEF DInv, TaskNamesConv, List
  <1>5. QED
    BY <1>1, <1>2, <1>3, <1>4 DEF DInv

LEMMA JoinStep ==
    ASSUME DInv, NEW s \in Socket, Join(s)
    PROVE  DInv'
  <1>1. found[s] \in SUBSET Conv /\ \A v \in found[s] : OwnerOf[s] \in members[v]
    BY DEF DInv, TypeOK, Admitted
  <1>2. /\ rooms' \in [Conv -> SUBSET Socket]
        /\ \A v \in Conv : \A t \in rooms'[v] : net[t] = "open" /\ OwnerOf[t] \in members[v]
    BY <1>1, EnterKeepsRooms DEF Join
  <1>3. TypeOK'
    BY <1>2 DEF DInv, TypeOK, Join, Shakes
  <1>4. Admitted' /\ PresenceExact'
    BY <1>2 DEF DInv, Admitted, PresenceExact, Join
  <1>5. JoinedShownOnline'
    BY OwnerAssumption DEF DInv, TypeOK, JoinedShownOnline, Join
  <1>6. TaskNamesConv'
    BY DEF DInv, TaskNamesConv, Join
  <1>7. QED
    BY <1>3, <1>4, <1>5, <1>6 DEF DInv

LEMMA DropStep ==
    ASSUME DInv, NEW s \in Socket, Drop(s)
    PROVE  DInv'
  <1>1. TypeOK'
    BY DEF DInv, TypeOK, Drop, Nets
  <1>2. Admitted'
    BY DEF DInv, Admitted, Drop
  <1>3. \A t \in Socket : net'[t] = "open" <=> net[t] = "open" /\ t # s
    BY DEF DInv, TypeOK, Drop
  <1>4. PresenceExact'
    <2>1. \A u \in User : sockets'[u] = {t \in Socket : OwnerOf[t] = u /\ net'[t] = "open"}
      BY <1>3, OwnerAssumption DEF DInv, TypeOK, PresenceExact, Drop
    <2>2. \A v \in Conv : \A t \in rooms'[v] : net'[t] = "open" /\ OwnerOf[t] \in members'[v]
      BY <1>3 DEF DInv, TypeOK, PresenceExact, Drop
    <2>3. QED
      BY <2>1, <2>2 DEF PresenceExact
  <1>5. JoinedShownOnline'
    BY <1>3 DEF DInv, JoinedShownOnline, Drop
  <1>6. TaskNamesConv'
    BY DEF DInv, TaskNamesConv, Drop
  <1>7. QED
    BY <1>1, <1>2, <1>4, <1>5, <1>6 DEF DInv

(* The second look, after the await, is what keeps a returning user shown. *)
LEMMA FinishDisconnectStep ==
    ASSUME DInv, NEW s \in Socket, FinishDisconnect(s)
    PROVE  DInv'
  <1>1. TypeOK'
    BY OwnerAssumption DEF DInv, TypeOK, FinishDisconnect, Nets
  <1>2. \A t \in Socket : net'[t] = "open" <=> net[t] = "open"
    BY DEF DInv, TypeOK, FinishDisconnect
  <1>3. Admitted' /\ PresenceExact'
    BY <1>2 DEF DInv, Admitted, PresenceExact, FinishDisconnect
  <1>4. JoinedShownOnline'
    <2>1. SUFFICES ASSUME NEW t \in Socket, net[t] = "open", shake[t] = "joined"
                   PROVE  shown'[OwnerOf[t]] = "online"
      BY <1>2 DEF JoinedShownOnline, FinishDisconnect
    <2>2. shown[OwnerOf[t]] = "online" /\ Online(OwnerOf[t])
      BY <2>1, OwnerAssumption DEF DInv, JoinedShownOnline, PresenceExact, Online
    <2>3. QED
      BY <2>2, OwnerAssumption DEF DInv, TypeOK, FinishDisconnect
  <1>5. TaskNamesConv'
    BY DEF DInv, TaskNamesConv, FinishDisconnect
  <1>6. QED
    BY <1>1, <1>3, <1>4, <1>5 DEF DInv

LEMMA DisconnectFailsStep ==
    ASSUME DInv, NEW s \in Socket, DisconnectFails(s)
    PROVE  DInv'
  <1>1. \A t \in Socket : net'[t] = "open" <=> net[t] = "open"
    BY DEF DInv, TypeOK, DisconnectFails
  <1>2. TypeOK'
    BY DEF DInv, TypeOK, DisconnectFails, Nets
  <1>3. Admitted' /\ PresenceExact' /\ JoinedShownOnline'
    BY <1>1 DEF DInv, Admitted, PresenceExact, JoinedShownOnline, DisconnectFails
  <1>4. TaskNamesConv'
    BY DEF DInv, TaskNamesConv, DisconnectFails
  <1>5. QED
    BY <1>2, <1>3, <1>4 DEF DInv

(* Conversations only grow. *)
LEMMA GrowStep ==
    ASSUME DInv, NEW v \in Conv, NEW new \in SUBSET User, Create(v) \/ AddMembers(v, new)
    PROVE  DInv'
  <1>1. members' \in [Conv -> SUBSET User] /\ \A w \in Conv : members[w] \subseteq members'[w]
    BY GroupsAssumption DEF DInv, TypeOK, Create, AddMembers
  <1>2. UNCHANGED <<net, shake, found, sockets, shown, rooms, task>>
    BY DEF Create, AddMembers, presenceVars
  <1>3. TypeOK'
    BY <1>1, <1>2 DEF DInv, TypeOK
  <1>4. Admitted'
    BY <1>1, <1>2 DEF DInv, TypeOK, Admitted
  <1>5. PresenceExact'
    BY <1>1, <1>2 DEF DInv, PresenceExact
  <1>6. TaskNamesConv' /\ JoinedShownOnline'
    BY <1>2 DEF DInv, TaskNamesConv, JoinedShownOnline
  <1>7. QED
    BY <1>3, <1>4, <1>5, <1>6 DEF DInv

LEMMA JoinRoomStep ==
    ASSUME DInv, NEW s \in Socket, NEW v \in Conv, JoinRoom(s, v)
    PROVE  DInv'
  <1>1. TypeOK'
    BY DEF DInv, TypeOK, JoinRoom, presenceVars
  <1>2. Admitted' /\ TaskNamesConv' /\ JoinedShownOnline'
    BY DEF DInv, Admitted, TaskNamesConv, JoinedShownOnline, JoinRoom, presenceVars
  <1>3. PresenceExact'
    BY DEF DInv, TypeOK, PresenceExact, JoinRoom, presenceVars
  <1>4. QED
    BY <1>1, <1>2, <1>3 DEF DInv

(* A step that changes a task's stage alone. *)
LEMMA StageStep ==
    ASSUME DInv, UNCHANGED <<presenceVars, rooms, members>>,
           NEW m \in Message, task[m].stage # "unused",
           NEW x \in Stages, task' = [task EXCEPT ![m].stage = x]
    PROVE  DInv'
  <1> DEFINE r == [task[m] EXCEPT !.stage = x]
  <1>1. task[m] \in Tasks /\ task \in [Message -> Tasks] /\ task[m].conv \in Conv
    BY DEF DInv, TypeOK, Tasks, TaskNamesConv
  <1>2. r \in Tasks /\ r.conv \in Conv
    BY <1>1 DEF Tasks
  <1>3. task' = [task EXCEPT ![m] = r]
    BY <1>1
  <1>4. QED
    BY <1>2, <1>3, TaskKeepsInv

LEMMA SendStepKeeps ==
    ASSUME DInv, NEW m \in Message,
           SendStep(m) \/ \E s \in Socket, v \in Conv : Send(s, v, m)
    PROVE  DInv'
  <1>0. task[m] \in Tasks /\ task \in [Message -> Tasks]
    BY DEF DInv, TypeOK, Tasks
  <1>1. CASE \E s \in Socket, v \in Conv : Send(s, v, m)
    <2>1. PICK s \in Socket, v \in Conv : Send(s, v, m)
      BY <1>1
    <2> DEFINE r == [task[m] EXCEPT !.stage = "checking", !.sock = s, !.conv = v]
    <2>2. r \in Tasks /\ r.conv \in Conv
      BY <1>0 DEF Tasks, Stages
    <2>3. task' = [task EXCEPT ![m] = r]
      BY <1>0, <2>1 DEF Send
    <2>4. QED
      BY <2>1, <2>2, <2>3, TaskKeepsInv DEF Send
  <1>2. CASE Check(m)
    <2>1. PICK x \in Stages : task' = [task EXCEPT ![m].stage = x]
      BY <1>2 DEF Check, Stages
    <2>2. QED
      BY <1>0, <1>2, <2>1, StageStep DEF Check
  <1>3. CASE Emit(m)
    <2>1. task[m].conv \in Conv
      BY <1>3 DEF Emit, DInv, TaskNamesConv
    <2>2. Heard(m) \in SUBSET User
      BY <2>1, OwnerAssumption DEF Heard, DInv, TypeOK
    <2>3. PICK next \in {"mentioning", "fanning"} :
            task' = [task EXCEPT ![m].stage = next, ![m].heard = Heard(m)]
      BY <1>3 DEF Emit
    <2> DEFINE r == [task[m] EXCEPT !.stage = next, !.heard = Heard(m)]
    <2>4. r \in Tasks /\ r.conv \in Conv
      BY <1>0, <2>1, <2>2 DEF Tasks, Stages
    <2>5. task' = [task EXCEPT ![m] = r]
      BY <1>0, <2>3
    <2>6. QED
      BY <1>3, <2>4, <2>5, TaskKeepsInv DEF Emit
  <1>4. CASE Mention(m)
    <2>1. PICK x \in Stages : task' = [task EXCEPT ![m].stage = x]
      BY <1>4 DEF Mention, Stages
    <2>2. QED
      BY <1>0, <1>4, <2>1, StageStep DEF Mention
  <1>5. CASE FanOut(m)
    <2>1. CASE task' = [task EXCEPT ![m].stage = "unpushed"]
      BY <1>0, <1>5, <2>1, StageStep DEF FanOut, Stages
    <2>2. CASE task' = [task EXCEPT ![m].stage = "done", ![m].pushed = Offline(m)]
      <3>1. task[m].conv \in Conv
        BY <1>5 DEF FanOut, DInv, TaskNamesConv
      <3>2. Offline(m) \in SUBSET User
        BY <3>1 DEF Offline, DInv, TypeOK
      <3> DEFINE r == [task[m] EXCEPT !.stage = "done", !.pushed = Offline(m)]
      <3>3. r \in Tasks /\ r.conv \in Conv
        BY <1>0, <3>1, <3>2 DEF Tasks, Stages
      <3>4. task' = [task EXCEPT ![m] = r]
        BY <1>0, <2>2
      <3>5. QED
        BY <1>5, <3>3, <3>4, TaskKeepsInv DEF FanOut
    <2>3. QED
      BY <1>5, <2>1, <2>2 DEF FanOut
  <1>6. QED
    BY <1>1, <1>2, <1>3, <1>4, <1>5 DEF SendStep

-----------------------------------------------------------------------------
THEOREM DeliveryInvariant == SafeSpec => []DInv
  <1>1. DInv /\ [Next]_vars => DInv'
    <2>1. SUFFICES ASSUME DInv, [Next]_vars PROVE DInv'
      OBVIOUS
    <2>2. ASSUME NEW s \in Socket,
                 Connect(s) \/ HandleConnection(s) \/ Drop(s) \/ HandleDisconnect(s)
          PROVE  DInv'
      BY <2>1, <2>2, ConnectStep, TouchedStep, ListStep, JoinStep, DropStep,
         FinishDisconnectStep, DisconnectFailsStep DEF HandleConnection, HandleDisconnect
    <2>3. ASSUME NEW v \in Conv,
                 Create(v) \/ \E new \in SUBSET (User \ members[v]) : AddMembers(v, new)
          PROVE  DInv'
      BY <2>1, <2>3, GrowStep
    <2>4. ASSUME NEW s \in Socket, NEW v \in Conv, JoinRoom(s, v) PROVE DInv'
      BY <2>1, <2>4, JoinRoomStep
    <2>5. ASSUME NEW m \in Message,
                 SendStep(m) \/ \E s \in Socket, v \in Conv : Send(s, v, m)
          PROVE  DInv'
      BY <2>1, <2>5, SendStepKeeps
    <2>6. CASE UNCHANGED vars
      BY <2>1, <2>6 DEF vars, DInv, TypeOK, Admitted, TaskNamesConv, PresenceExact,
         JoinedShownOnline
    <2>7. QED
      BY <2>1, <2>2, <2>3, <2>4, <2>5, <2>6 DEF Next
  <1>2. QED
    BY <1>1, InitInv, PTL DEF SafeSpec

(* The sockets that push decisions and presence go by are exactly the      *)
(* connected ones, and rooms hold only connected sockets of members.       *)
THEOREM PresenceIsExact == Spec => []PresenceExact
  <1>1. DInv => PresenceExact
    BY DEF DInv
  <1>2. QED
    BY <1>1, DeliveryInvariant, PTL DEF Spec

(* Whoever is connected and joined was last shown online, however the      *)
(* handlers of older sockets are delayed.                                  *)
THEOREM JoinedAreShown == Spec => []JoinedShownOnline
  <1>1. DInv => JoinedShownOnline
    BY DEF DInv
  <1>2. QED
    BY <1>1, DeliveryInvariant, PTL DEF Spec

(* Every variable stays within its type. *)
THEOREM DeliveryTypes == Spec => []TypeOK
  <1>1. DInv => TypeOK
    BY DEF DInv
  <1>2. QED
    BY <1>1, DeliveryInvariant, PTL DEF Spec
=============================================================================
