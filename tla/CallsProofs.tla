---------------------------- MODULE CallsProofs ----------------------------
(***************************************************************************)
(* The invariants of module Calls, for any number of users, devices,       *)
(* conversations, invites and call ids.                                    *)
(***************************************************************************)
EXTENDS Calls, TLAPS

(* What an invite handler has learned by each of its stages, and that only *)
(* a call that was started can ring, be answered or be replaced.           *)
StageInv ==
    \A t \in Task :
        /\ invite[t].sock = "open" => invite[t].dev \in Device
        /\ invite[t].stage # "unused" => invite[t].dev \in Device /\ invite[t].call \in CallId
        /\ invite[t].stage \in {"chosen", "pushing", "done"} =>
              Callee(t) \in User /\ Callee(t) # Caller(t)
        /\ ~Started(t) => t \notin armed /\ t \notin answered /\ history[t].stage = "none"

(* A call is stored under its own id.                                      *)
Stored == \A c \in CallId, t \in Task : byId[c] = t => Started(t) /\ invite[t].call = c

(* LiveCallFindable, said of the call t that is stored                     *)
Findable ==
    \A c \in CallId, t \in Task : byId[c] = t =>
        \A u \in Parties(t) : byUser[u] = c \/ Overtaken(t, u)

(* An invite past its busy check that shares a party with a live call was  *)
(* past it when that call started, or the call had lost the party's        *)
(* pointer by then.                                                        *)
PastCheck ==
    \A c \in CallId, t, s \in Task : byId[c] = t /\ invite[s].stage = "chosen" =>
        \A u \in Parties(t) \cap Parties(s) : s \in rivals[t] \/ Overtaken(t, u)

(* The inductive invariant: the maps of CallsService agree with each other *)
(* and with the handlers that filled them.                                 *)
Tables == Stored /\ RingTimerArmed /\ NoStaleBusy /\ Findable /\ PastCheck
IInv == TypeOK /\ StageInv /\ Tables

tableVars == <<byId, answered, byUser, timers, armed, replaced, rivals>>

-----------------------------------------------------------------------------
(* The texts of a history row, for each way a call ends. *)
LEMMA RowTextsType ==
    ASSUME NEW t, NEW reason \in Reasons
    PROVE  RowTexts(t, reason) \subseteq HistoryTexts
  BY DEF RowTexts, ReasonText, HistoryTexts, Reasons

(* A message to some devices is a set of well-formed messages. *)
LEMMA MsgType ==
    ASSUME NEW D \in SUBSET Device, NEW e \in Events, NEW c \in CallId
    PROVE  Msg(D, e, c) \in SUBSET [to : Device, ev : Events, call : CallId]
  BY DEF Msg

LEMMA RoomsAreDevices ==
    \A u : /\ UserRoom(u) \in SUBSET Device /\ DevicesOf(u) \in SUBSET Device
           /\ \A d \in UserRoom(u) : OwnerOf[d] = u
  BY DEF UserRoom, DevicesOf

LEMMA InviteTypes ==
    ASSUME TypeOK, NEW t \in Task
    PROVE  invite[t] \in InviteTasks /\ invite \in [Task -> InviteTasks]
  BY DEF TypeOK

(* What the updates of an invite task leave alone. *)
LEMMA StageUpdate ==
    ASSUME NEW r \in InviteTasks, NEW s \in Stages
    PROVE  LET q == [r EXCEPT !.stage = s] IN
             /\ q \in InviteTasks /\ q.stage = s /\ q.dev = r.dev /\ q.sock = r.sock
             /\ q.conv = r.conv /\ q.callee = r.callee /\ q.call = r.call
  BY DEF InviteTasks

LEMMA SockUpdate ==
    ASSUME NEW r \in InviteTasks
    PROVE  LET q == [r EXCEPT !.sock = "gone"] IN
             /\ q \in InviteTasks /\ q.sock = "gone" /\ q.stage = r.stage /\ q.dev = r.dev
             /\ q.conv = r.conv /\ q.callee = r.callee /\ q.call = r.call
  BY DEF InviteTasks

(* An invite handler that remembers what it knew *)
SameInvite(t) ==
    /\ invite'[t].dev = invite[t].dev /\ invite'[t].callee = invite[t].callee
    /\ invite'[t].call = invite[t].call

(* An invite handler moves to another stage. *)
LEMMA StageMove ==
    ASSUME TypeOK, NEW t \in Task, NEW s \in Stages,
           invite' = [invite EXCEPT ![t].stage = s]
    PROVE  /\ invite' \in [Task -> InviteTasks] /\ invite'[t].stage = s
           /\ invite'[t].sock = invite[t].sock /\ SameInvite(t)
           /\ \A e \in Task \ {t} : invite'[e] = invite[e]
  <1> DEFINE q == [invite[t] EXCEPT !.stage = s]
  <1>1. invite[t] \in InviteTasks /\ invite \in [Task -> InviteTasks]
    BY InviteTypes
  <1>2. /\ q \in InviteTasks /\ q.stage = s /\ q.dev = invite[t].dev
        /\ q.sock = invite[t].sock /\ q.callee = invite[t].callee /\ q.call = invite[t].call
    BY <1>1, StageUpdate, Zenon
  <1>3. invite' = [invite EXCEPT ![t] = q]
    OBVIOUS
  <1> HIDE DEF q
  <1>4. QED
    BY <1>1, <1>2, <1>3 DEF SameInvite

(* Whom a call is between is settled once its invite is past the check.    *)
LEMMA SameParties ==
    ASSUME NEW t, SameInvite(t)
    PROVE  /\ Caller(t)' = Caller(t) /\ Callee(t)' = Callee(t) /\ Parties(t)' = Parties(t)
  BY DEF SameInvite, Caller, Callee, Parties

LEMMA PartiesAreUsers ==
    ASSUME TypeOK, StageInv, NEW t \in Task, invite[t].stage \in {"chosen", "pushing", "done"}
    PROVE  /\ Caller(t) \in User /\ Callee(t) \in User /\ Parties(t) \subseteq User
           /\ invite[t].call \in CallId
  BY OwnerAssumption DEF StageInv, Caller, Parties

-----------------------------------------------------------------------------
LEMMA InitInv == Init => IInv
  <1> SUFFICES ASSUME Init PROVE IInv
    OBVIOUS
  <1>1. TypeOK
    BY DEF Init, TypeOK, NoInvite, NoHistory, InviteTasks, Stages
  <1>2. Live = {} /\ \A u \in User : byUser[u] = None
    BY DEF Init, Live
  <1>3. StageInv
    BY DEF Init, StageInv, NoInvite, NoHistory, Started
  <1>4. RingTimerArmed
    BY <1>2 DEF Init, RingTimerArmed, Ringing
  <1>5. Stored /\ NoStaleBusy /\ Findable /\ PastCheck
    BY <1>2, NoneAssumption DEF Init, Stored, NoStaleBusy, Findable, PastCheck
  <1>6. QED
    BY <1>1, <1>3, <1>4, <1>5 DEF IInv, Tables

(* What a step that leaves the maps alone does to the invites: no call     *)
(* starts, and no invite passes the busy check.                            *)
Settled ==
    \A t \in Task :
        /\ Started(t)' <=> Started(t)
        /\ invite[t].stage \in {"chosen", "pushing", "done"} => SameInvite(t)
        /\ invite'[t].stage = "chosen" => invite[t].stage = "chosen"

LEMMA UnchangedSettled ==
    ASSUME UNCHANGED invite
    PROVE  Settled
  BY DEF Settled, SameInvite, Started

LEMMA SettledParties ==
    ASSUME Settled, NEW t \in Task, Started(t) \/ invite'[t].stage = "chosen"
    PROVE  Parties(t)' = Parties(t) /\ invite'[t].call = invite[t].call
  BY SameParties DEF Settled, Started, SameInvite

LEMMA OvertakenStays ==
    ASSUME TypeOK, Settled, UNCHANGED rivals, NEW t \in Task, NEW u, Overtaken(t, u)
    PROVE  Overtaken(t, u)'
  <1>1. PICK s \in rivals[t] : Started(s) /\ u \in Parties(s)
    BY DEF Overtaken
  <1>2. s \in Task /\ s \in rivals'[t]
    BY <1>1 DEF TypeOK
  <1>3. Started(s)' /\ Parties(s)' = Parties(s)
    BY <1>1, <1>2, SettledParties DEF Settled
  <1>4. QED
    BY <1>1, <1>2, <1>3 DEF Overtaken

(* What a step does to the maps that at most takes calls out of them       *)
Shrinks ==
    /\ \A c \in CallId : byId'[c] \in {byId[c], None}
    /\ \A u \in User :
         \/ byUser'[u] = byUser[u]
         \/ byUser'[u] = None /\ (byUser[u] \in CallId => byId'[byUser[u]] = None)
    /\ \A u \in User, t \in Task :
         byUser'[u] # None /\ byId[byUser[u]] = t /\ u \in Parties(t) => byId'[byUser[u]] = t
    /\ UNCHANGED <<replaced, rivals>>

LEMMA UnchangedShrinks ==
    ASSUME UNCHANGED tableVars
    PROVE  Shrinks
  BY DEF tableVars, Shrinks

LEMMA ShrinksKeeps ==
    ASSUME TypeOK, StageInv, Tables, Settled, Shrinks
    PROVE  Stored' /\ NoStaleBusy' /\ Findable' /\ PastCheck'
  <1>1. ASSUME NEW c \in CallId, NEW t \in Task, byId'[c] = t
        PROVE  /\ byId[c] = t /\ Started(t) /\ invite[t].call = c
               /\ Started(t)' /\ invite'[t].call = c /\ Parties(t)' = Parties(t)
    <2>1. byId[c] = t
      BY <1>1, NoneAssumption DEF Shrinks
    <2>2. Started(t) /\ invite[t].call = c
      BY <2>1 DEF Tables, Stored
    <2>3. QED
      BY <2>1, <2>2, SettledParties DEF Settled
  <1>2. Stored'
    BY <1>1 DEF Stored
  <1>3. NoStaleBusy'
    <2> SUFFICES ASSUME NEW u \in User, byUser'[u] # None
                 PROVE  \E t \in Task : /\ Started(t)' /\ invite'[t].call = byUser'[u]
                                        /\ u \in Parties(t)'
                                        /\ byId'[byUser'[u]] = t \/ t \in replaced'
      BY DEF NoStaleBusy
    <2>1. byUser'[u] = byUser[u] /\ byUser[u] # None
      BY DEF Shrinks
    <2>2. PICK t \in Task : /\ Started(t) /\ invite[t].call = byUser[u] /\ u \in Parties(t)
                            /\ byId[byUser[u]] = t \/ t \in replaced
      BY <2>1 DEF Tables, NoStaleBusy
    <2>3. Started(t)' /\ invite'[t].call = byUser[u] /\ Parties(t)' = Parties(t)
      BY <2>2, SettledParties DEF Settled
    <2>4. byId'[byUser[u]] = t \/ t \in replaced'
      BY <2>1, <2>2 DEF Shrinks
    <2>5. QED
      BY <2>1, <2>2, <2>3, <2>4
  <1>4. Findable'
    <2> SUFFICES ASSUME NEW c \in CallId, NEW t \in Task, byId'[c] = t, NEW u \in Parties(t)
                 PROVE  byUser'[u] = c \/ Overtaken(t, u)'
      BY <1>1 DEF Findable
    <2>1. byId[c] = t /\ Started(t)
      BY <1>1
    <2>2. CASE Overtaken(t, u)
      BY <2>2, OvertakenStays DEF Shrinks
    <2>3. CASE byUser[u] = c
      <3>1. u \in User /\ byId'[c] # None
        BY <2>1, NoneAssumption, PartiesAreUsers DEF Started
      <3>2. QED
        BY <2>3, <3>1 DEF Shrinks
    <2>4. QED
      BY <2>1, <2>2, <2>3 DEF Tables, Findable
  <1>5. PastCheck'
    <2> SUFFICES ASSUME NEW c \in CallId, NEW t \in Task, NEW s \in Task,
                        byId'[c] = t, invite'[s].stage = "chosen",
                        NEW u \in Parties(t) \cap Parties(s)'
                 PROVE  s \in rivals'[t] \/ Overtaken(t, u)'
      BY <1>1 DEF PastCheck
    <2>1. byId[c] = t /\ invite[s].stage = "chosen" /\ u \in Parties(s)
      BY <1>1, SettledParties DEF Settled
    <2>2. s \in rivals[t] \/ Overtaken(t, u)
      BY <2>1 DEF Tables, PastCheck
    <2>3. QED
      BY <2>2, OvertakenStays DEF Shrinks
  <1>6. QED
    BY <1>2, <1>3, <1>4, <1>5
-----------------------------------------------------------------------------
(* A step that starts no call and lets no invite past the check keeps the  *)
(* invariant, if it keeps the types and the timers do.                     *)
LEMMA CalmStep ==
    ASSUME IInv, TypeOK', StageInv', RingTimerArmed', Settled, Shrinks
    PROVE  IInv'
  BY ShrinksKeeps DEF IInv, Tables

(* A step of an invite task, or of a socket, that the maps do not notice   *)
LEMMA MapsUnchanged ==
    ASSUME IInv, UNCHANGED <<tableVars, history>>, out' \in SUBSET [to : Device, ev : Events, call : CallId],
           link' \in [Device -> {"down", "joining", "up"}], closing' \in SUBSET Device,
           invite' \in [Task -> InviteTasks], StageInv', Settled
    PROVE  IInv' /\ Shrinks
  <1>1. TypeOK'
    BY DEF IInv, TypeOK, tableVars
  <1>2. RingTimerArmed'
    BY DEF IInv, Tables, RingTimerArmed, Ringing, Live, tableVars
  <1>3. Shrinks
    BY UnchangedShrinks
  <1>4. QED
    BY <1>1, <1>2, <1>3, CalmStep

LEMMA SocketSteps ==
    ASSUME IInv, NEW d \in Device, Connect(d) \/ JoinRooms(d)
    PROVE  IInv' /\ Shrinks
  <1>1. UNCHANGED <<tableVars, history, closing, invite>> /\ out' = {}
    BY DEF Connect, JoinRooms, callVars, tableVars
  <1>2. link' \in [Device -> {"down", "joining", "up"}]
    BY DEF Connect, JoinRooms, IInv, TypeOK
  <1>3. StageInv' /\ Settled
    BY <1>1, UnchangedSettled DEF IInv, StageInv, Started, Callee, Caller, tableVars
  <1>4. QED
    BY <1>1, <1>2, <1>3, MapsUnchanged DEF IInv, TypeOK

LEMMA DropStep ==
    ASSUME IInv, NEW d \in Device, Drop(d)
    PROVE  IInv' /\ Shrinks
  <1>1. UNCHANGED <<tableVars, history>> /\ out' = {}
    BY DEF Drop, callVars, tableVars
  <1>2. link' \in [Device -> {"down", "joining", "up"}] /\ closing' \in SUBSET Device
    BY DEF Drop, IInv, TypeOK
  <1>3. ASSUME NEW t \in Task
        PROVE  /\ invite'[t] \in InviteTasks /\ invite'[t].stage = invite[t].stage
               /\ invite'[t].dev = invite[t].dev /\ invite'[t].callee = invite[t].callee
               /\ invite'[t].call = invite[t].call
               /\ invite'[t].sock = "open" => invite[t].sock = "open"
    BY SockUpdate DEF Drop, IInv, TypeOK
  <1>4. invite' \in [Task -> InviteTasks]
    <2>1. invite' = [t \in Task |-> invite'[t]]
      BY DEF Drop
    <2>2. QED
      BY <1>3, <2>1
  <1>5. Settled
    BY <1>3 DEF Settled, Started, SameInvite
  <1>6. StageInv'
    BY <1>1, <1>3 DEF IInv, StageInv, Started, Callee, Caller, tableVars
  <1>7. QED
    BY <1>1, <1>2, <1>4, <1>5, <1>6, MapsUnchanged

(* An invite task moves on, and neither past the check nor to a start.     *)
LEMMA TaskMoves ==
    ASSUME IInv, NEW t \in Task, NEW s \in Stages,
           invite' = [invite EXCEPT ![t].stage = s],
           \/ invite[t].stage = "pushing" /\ s = "done"
           \/ invite[t].stage \in {"checking", "chosen"} /\ s \in {"busy", "refused"},
           UNCHANGED <<link, closing, tableVars, history>>,
           out' \in SUBSET [to : Device, ev : Events, call : CallId]
    PROVE  IInv' /\ Shrinks
  <1>1. /\ invite' \in [Task -> InviteTasks] /\ invite'[t].stage = s
        /\ invite'[t].sock = invite[t].sock /\ SameInvite(t)
        /\ \A e \in Task \ {t} : invite'[e] = invite[e]
    BY StageMove DEF IInv
  <1>2. Settled
    BY <1>1 DEF Settled, SameInvite, Started
  <1>3. StageInv'
    BY <1>1 DEF IInv, StageInv, Started, Callee, Caller, SameInvite, tableVars
  <1>4. QED
    BY <1>1, <1>2, <1>3, MapsUnchanged DEF IInv, TypeOK

LEMMA InviteArrivesStep ==
    ASSUME IInv, NEW t \in Task, NEW d \in Device, NEW c \in CallId, NEW v \in Conv,
           InviteArrives(t, d, c, v)
    PROVE  IInv' /\ Shrinks
  <1>1. UNCHANGED <<link, closing, tableVars, history>> /\ out' = {}
    BY DEF InviteArrives, callVars, tableVars
  <1>2. /\ invite[t].stage = "unused"
        /\ invite'[t] = [stage |-> "checking", dev |-> d, sock |-> "open",
                         conv |-> v, callee |-> None, call |-> c]
        /\ \A e \in Task \ {t} : invite'[e] = invite[e]
    BY DEF InviteArrives, IInv, TypeOK
  <1>3. invite' \in [Task -> InviteTasks]
    <2>1. [stage |-> "checking", dev |-> d, sock |-> "open", conv |-> v, callee |-> None, call |-> c]
             \in InviteTasks
      BY DEF InviteTasks, Stages
    <2>2. QED
      BY <2>1 DEF InviteArrives, IInv, TypeOK
  <1>4. Settled
    BY <1>2 DEF Settled, SameInvite, Started
  <1>5. StageInv'
    BY <1>1, <1>2 DEF IInv, StageInv, Started, Callee, Caller, tableVars
  <1>6. QED
    BY <1>1, <1>3, <1>4, <1>5, MapsUnchanged DEF IInv, TypeOK

LEMMA InviteRefusedStep ==
    ASSUME IInv, NEW t \in Task, InviteRefused(t)
    PROVE  IInv' /\ Shrinks
  <1>1. /\ invite' = [invite EXCEPT ![t].stage = "refused"] /\ "refused" \in Stages
        /\ invite[t].stage \in {"checking", "chosen"} /\ out' = {}
        /\ UNCHANGED <<link, closing, tableVars, history>>
    BY DEF InviteRefused, callVars, tableVars, Stages
  <1>2. QED
    BY <1>1, TaskMoves

LEMMA InvitePushStep ==
    ASSUME IInv, NEW t \in Task, InvitePush(t)
    PROVE  IInv' /\ Shrinks
  <1>1. /\ invite' = [invite EXCEPT ![t].stage = "done"] /\ "done" \in Stages
        /\ invite[t].stage = "pushing"
        /\ UNCHANGED <<link, closing, tableVars, history>>
    BY DEF InvitePush, callVars, tableVars, Stages
  <1>2. out' \in SUBSET [to : Device, ev : Events, call : CallId]
    <2>1. PICK reached \in SUBSET DevicesOf(Callee(t)) : out' = Msg(reached, "push", invite[t].call)
      BY DEF InvitePush
    <2>2. reached \in SUBSET Device /\ "push" \in Events /\ invite[t].call \in CallId
      BY <1>1, <2>1, RoomsAreDevices DEF Events, Notices, IInv, StageInv
    <2>3. QED
      BY <2>1, <2>2, MsgType
  <1>3. QED
    BY <1>1, <1>2, TaskMoves
-----------------------------------------------------------------------------
(* The removal of a live call, by whichever handler or timer *)
LEMMA RemoveCallStep ==
    ASSUME IInv, NEW c \in CallId, NEW t \in Task, byId[c] = t,
           NEW fired \in SUBSET Task, \A e \in fired : invite[e].call = c,
           RemoveCall(c, fired), UNCHANGED invite
    PROVE  /\ byId' = [byId EXCEPT ![c] = None] /\ UNCHANGED <<answered, replaced, rivals>>
           /\ byUser' \in [User -> CallId \cup {None}] /\ timers' \in [CallId -> Task \cup {None}]
           /\ armed' \in SUBSET Task /\ armed' \subseteq armed
           /\ RingTimerArmed' /\ Shrinks
  <1>1. /\ byId' = [byId EXCEPT ![c] = None] /\ UNCHANGED <<answered, replaced, rivals>>
        /\ byUser' = [u \in User |-> IF u \in Parties(t) /\ byUser[u] = c THEN None ELSE byUser[u]]
        /\ timers' = [timers EXCEPT ![c] = None]
        /\ armed' = armed \ (fired \cup {timers[c]})
    BY DEF RemoveCall
  <1>2. byUser' \in [User -> CallId \cup {None}] /\ timers' \in [CallId -> Task \cup {None}]
    BY <1>1 DEF IInv, TypeOK
  <1>3. armed' \in SUBSET Task /\ armed' \subseteq armed
    BY <1>1 DEF IInv, TypeOK
  <1>4. RingTimerArmed'
    <2>1. ASSUME NEW e \in CallId, e # c
          PROVE  byId'[e] = byId[e] /\ timers'[e] = timers[e] /\ (Ringing(e)' <=> Ringing(e))
      BY <1>1, <2>1 DEF IInv, TypeOK, Ringing, Live
    <2>2. ASSUME NEW e \in CallId, e # c, timers[e] # None
          PROVE  timers[e] \in armed'
      <3>1. PICK s \in Task : byId[e] = s /\ timers[e] = s /\ s \in armed
        BY <2>2, NoneAssumption DEF IInv, TypeOK, Tables, RingTimerArmed, Ringing, Live
      <3>2. invite[s].call = e /\ invite[t].call = c
        BY <3>1 DEF IInv, Tables, Stored
      <3>3. timers[c] = None \/ timers[c] = t
        BY DEF IInv, Tables, RingTimerArmed
      <3>4. QED
        BY <1>1, <2>2, <3>1, <3>2, <3>3, NoneAssumption
    <2>3. timers'[c] = None /\ ~Ringing(c)'
      BY <1>1 DEF IInv, TypeOK, Ringing, Live
    <2>4. QED
      BY <2>1, <2>2, <2>3 DEF RingTimerArmed, IInv, Tables
  <1>5. Shrinks
    <2>1. \A e \in CallId : byId'[e] \in {byId[e], None}
      BY <1>1 DEF IInv, TypeOK
    <2>2. ASSUME NEW u \in User
          PROVE  \/ byUser'[u] = byUser[u]
                 \/ byUser'[u] = None /\ (byUser[u] \in CallId => byId'[byUser[u]] = None)
      BY <1>1 DEF IInv, TypeOK
    <2>3. ASSUME NEW u \in User, NEW s \in Task,
                 byUser'[u] # None, byId[byUser[u]] = s, u \in Parties(s)
          PROVE  byId'[byUser[u]] = s
      <3>1. byUser[u] # c
        BY <1>1, <2>3
      <3>2. byUser[u] \in CallId
        BY <1>1, <2>3 DEF IInv, TypeOK
      <3>3. QED
        BY <1>1, <2>3, <3>1, <3>2 DEF IInv, TypeOK
    <2>4. QED
      BY <1>1, <2>1, <2>2, <2>3 DEF Shrinks
  <1>6. QED
    BY <1>1, <1>2, <1>3, <1>4, <1>5

(* Calls are taken out of the maps, or answered, by a step that leaves the *)
(* invites alone.                                                          *)
LEMMA SettledStep ==
    ASSUME IInv, TypeOK', UNCHANGED invite, RingTimerArmed', Shrinks, armed' \subseteq armed,
           \A t \in Task : t \in answered' => t \in answered \/ Started(t),
           \A t \in Task : history'[t].stage # "none" => history[t].stage # "none" \/ Started(t)
    PROVE  IInv'
  <1>1. StageInv'
    BY DEF IInv, StageInv, Started, Callee, Caller
  <1>2. QED
    BY <1>1, UnchangedSettled, CalmStep

(* RealtimeGateway.endCall, from a handler or from handleDisconnect *)
LEMMA EndCallStep ==
    ASSUME IInv, NEW c \in CallId, NEW reason \in Reasons, EndCall(c, reason),
           UNCHANGED <<link, invite>>, closing' \in SUBSET Device
    PROVE  IInv' /\ Shrinks
  <1>1. CASE c \notin Live
    <2>1. UNCHANGED <<tableVars, history>> /\ out' = {}
      BY <1>1 DEF EndCall, callVars, tableVars
    <2>2. StageInv' /\ Settled
      BY <2>1, UnchangedSettled DEF IInv, StageInv, Started, Callee, Caller, tableVars
    <2>3. QED
      BY <2>1, <2>2, MapsUnchanged DEF IInv, TypeOK
  <1>2. CASE c \in Live
    <2>1. PICK t \in Task : byId[c] = t
      BY <1>2 DEF Live, IInv, TypeOK
    <2>2. /\ RemoveCall(c, {}) /\ out' = Msg(Rooms(t), "ended", c)
          /\ \E text \in RowTexts(t, reason) :
               history' = [history EXCEPT ![t] = [stage |-> "saving", text |-> text]]
      BY <1>2, <2>1 DEF EndCall
    <2>3. /\ byId' = [byId EXCEPT ![c] = None] /\ UNCHANGED <<answered, replaced, rivals>>
          /\ byUser' \in [User -> CallId \cup {None}] /\ timers' \in [CallId -> Task \cup {None}]
          /\ armed' \in SUBSET Task /\ armed' \subseteq armed
          /\ RingTimerArmed' /\ Shrinks
      BY <2>1, <2>2, RemoveCallStep
    <2>4. out' \in SUBSET [to : Device, ev : Events, call : CallId]
      <3>1. Rooms(t) \in SUBSET Device /\ "ended" \in Events
        BY RoomsAreDevices DEF Rooms, Events, Notices
      <3>2. QED
        BY <2>2, <3>1, MsgType
    <2>5. history' \in [Task -> [stage : {"none", "saving", "saved", "done"},
                                 text : HistoryTexts \cup {"none"}]]
      BY <2>2, RowTextsType DEF IInv, TypeOK
    <2>6. TypeOK'
      BY <2>3, <2>4, <2>5 DEF IInv, TypeOK
    <2>7. \A e \in Task : history'[e].stage # "none" => history[e].stage # "none" \/ Started(e)
      BY <2>1, <2>2 DEF IInv, TypeOK, Tables, Stored
    <2>8. QED
      BY <2>3, <2>6, <2>7, SettledStep
  <1>3. QED
    BY <1>1, <1>2

LEMMA FinishDisconnectStep ==
    ASSUME IInv, NEW d \in Device, FinishDisconnect(d)
    PROVE  IInv' /\ Shrinks
  <1> DEFINE u == OwnerOf[d]
  <1>1. UNCHANGED <<link, invite>> /\ closing' \in SUBSET Device
    BY DEF FinishDisconnect, IInv, TypeOK
  <1>2. CASE Busy(u) /\ EndCall(byUser[u], DisconnectReason(byUser[u], u))
    <2>1. byUser[u] \in CallId
      BY <1>2, OwnerAssumption DEF Busy, IInv, TypeOK
    <2>2. DisconnectReason(byUser[u], u) \in Reasons
      BY DEF DisconnectReason, Reasons
    <2>3. QED
      BY <1>1, <1>2, <2>1, <2>2, EndCallStep
  <1>3. CASE out' = {} /\ UNCHANGED callVars
    <2>1. UNCHANGED <<tableVars, history>>
      BY <1>3 DEF callVars, tableVars
    <2>2. StageInv' /\ Settled
      BY <1>1, <2>1, UnchangedSettled DEF IInv, StageInv, Started, Callee, Caller, tableVars
    <2>3. QED
      BY <1>1, <1>3, <2>1, <2>2, MapsUnchanged DEF IInv, TypeOK
  <1>4. QED
    BY <1>2, <1>3 DEF FinishDisconnect

(* A handler that throws, or only sends something on *)
LEMMA TellStep ==
    ASSUME IInv, UNCHANGED <<link, closing, invite, callVars>>,
           out' \in SUBSET [to : Device, ev : Events, call : CallId]
    PROVE  IInv' /\ Shrinks
  <1>1. UNCHANGED <<tableVars, history>>
    BY DEF callVars, tableVars
  <1>2. StageInv' /\ Settled
    BY <1>1, UnchangedSettled DEF IInv, StageInv, Started, Callee, Caller, tableVars
  <1>3. QED
    BY <1>1, <1>2, MapsUnchanged DEF IInv, TypeOK

LEMMA AcceptStep ==
    ASSUME IInv, NEW u, NEW c \in CallId, Accept(u, c), UNCHANGED <<link, closing, invite>>
    PROVE  IInv' /\ Shrinks
  <1>1. CASE ~(c \in Live /\ u = Callee(byId[c]))
    BY <1>1, TellStep DEF Accept, Throw
  <1>2. CASE c \in Live /\ u = Callee(byId[c])
    <2>1. PICK t \in Task : byId[c] = t
      BY <1>2 DEF Live, IInv, TypeOK
    <2>2. /\ answered' = answered \cup {t} /\ timers' = [timers EXCEPT ![c] = None]
          /\ armed' = armed \ {timers[c]} /\ UNCHANGED <<byId, byUser, replaced, rivals, history>>
          /\ out' = Msg(UserRoom(Caller(t)), "accepted", c)
      BY <1>2, <2>1 DEF Accept, Activate
    <2>3. Started(t) /\ invite[t].call = c
      BY <2>1 DEF IInv, Tables, Stored
    <2>4. Shrinks
      BY <2>2 DEF Shrinks
    <2>5. RingTimerArmed'
      <3>1. ASSUME NEW e \in CallId, e # c
            PROVE  timers'[e] = timers[e] /\ (Ringing(e)' <=> Ringing(e))
        <4>1. byId[e] # t
          BY <2>3, <3>1 DEF IInv, Tables, Stored
        <4>2. QED
          BY <2>2, <3>1, <4>1 DEF IInv, TypeOK, Ringing, Live
      <3>2. ASSUME NEW e \in CallId, e # c, timers[e] # None
            PROVE  timers[e] \in armed'
        <4>1. PICK s \in Task : byId[e] = s /\ timers[e] = s /\ s \in armed
          BY <3>2, NoneAssumption DEF IInv, TypeOK, Tables, RingTimerArmed, Ringing, Live
        <4>2. invite[s].call = e
          BY <4>1 DEF IInv, Tables, Stored
        <4>3. timers[c] = None \/ timers[c] = t
          BY <2>1 DEF IInv, Tables, RingTimerArmed
        <4>4. QED
          BY <2>2, <2>3, <3>2, <4>1, <4>2, <4>3, NoneAssumption
      <3>3. timers'[c] = None /\ ~Ringing(c)'
        BY <2>1, <2>2 DEF IInv, TypeOK, Ringing, Live
      <3>4. QED
        BY <2>2, <3>1, <3>2, <3>3 DEF RingTimerArmed, IInv, Tables
    <2>6. out' \in SUBSET [to : Device, ev : Events, call : CallId]
      <3>1. "accepted" \in Events
        BY DEF Events, Notices
      <3>2. QED
        BY <2>2, <3>1, MsgType, RoomsAreDevices
    <2>7. TypeOK'
      BY <2>2, <2>6 DEF IInv, TypeOK
    <2>8. QED
      BY <2>2, <2>3, <2>4, <2>5, <2>7, SettledStep
  <1>3. QED
    BY <1>1, <1>2
LEMMA EndingHandlers ==
    ASSUME NEW u, NEW c, Reject(u, c) \/ Cancel(u, c) \/ Hangup(u, c)
    PROVE  Throw \/ \E reason \in {"rejected", "cancelled", "hangup"} : EndCall(c, reason)
  BY DEF Reject, Cancel, Hangup

LEMMA RelayStep ==
    ASSUME IInv, NEW u, NEW c \in CallId, NEW sig \in Signals, Relay(u, c, sig),
           UNCHANGED <<link, closing, invite>>
    PROVE  IInv' /\ Shrinks
  <1>1. CASE ~(c \in Live /\ u \in Parties(byId[c]))
    BY <1>1, TellStep DEF Relay, Throw
  <1>2. CASE c \in Live /\ u \in Parties(byId[c])
    <2>1. out' = Msg(UserRoom(Peer(byId[c], u)), sig, c) /\ UNCHANGED callVars
      BY <1>2 DEF Relay
    <2>2. sig \in Events
      BY DEF Events
    <2>3. out' \in SUBSET [to : Device, ev : Events, call : CallId]
      BY <2>1, <2>2, MsgType, RoomsAreDevices
    <2>4. QED
      BY <2>1, <2>3, TellStep
  <1>3. QED
    BY <1>1, <1>2

LEMMA HandleStep ==
    ASSUME IInv, NEW d \in Device, NEW c \in CallId, Handle(d, c)
    PROVE  IInv' /\ Shrinks
  <1> DEFINE u == OwnerOf[d]
  <1>1. UNCHANGED <<link, closing, invite>> /\ closing' \in SUBSET Device
    BY DEF Handle, IInv, TypeOK
  <1>2. CASE Accept(u, c)
    BY <1>1, <1>2, AcceptStep
  <1>3. CASE Reject(u, c) \/ Cancel(u, c) \/ Hangup(u, c)
    <2>1. CASE Throw
      BY <1>1, <2>1, TellStep DEF Throw
    <2>2. CASE \E reason \in {"rejected", "cancelled", "hangup"} : EndCall(c, reason)
      BY <1>1, <2>2, EndCallStep DEF Reasons
    <2>3. QED
      BY <1>3, <2>1, <2>2, EndingHandlers
  <1>4. CASE \E sig \in Signals : Relay(u, c, sig)
    BY <1>1, <1>4, RelayStep
  <1>5. QED
    BY <1>2, <1>3, <1>4 DEF Handle

LEMMA RingTimeoutStep ==
    ASSUME IInv, NEW t \in Task, RingTimeout(t)
    PROVE  IInv' /\ Shrinks
  <1> DEFINE c == invite[t].call
  <1>1. t \in armed /\ out' = {} /\ UNCHANGED <<link, closing, invite, history>>
    BY DEF RingTimeout
  <1>2. c \in CallId
    BY <1>1 DEF IInv, StageInv, Started
  <1>3. CASE Ringing(c)
    <2>1. RemoveCall(c, {t})
      BY <1>3 DEF RingTimeout
    <2>2. PICK s \in Task : byId[c] = s
      BY <1>2, <1>3 DEF Ringing, Live, IInv, TypeOK
    <2> HIDE DEF c
    <2>3. {t} \in SUBSET Task /\ \A e \in {t} : invite[e].call = c
      BY DEF c
    <2>4. /\ byId' = [byId EXCEPT ![c] = None] /\ UNCHANGED <<answered, replaced, rivals>>
          /\ byUser' \in [User -> CallId \cup {None}] /\ timers' \in [CallId -> Task \cup {None}]
          /\ armed' \in SUBSET Task /\ armed' \subseteq armed
          /\ RingTimerArmed' /\ Shrinks
      BY <1>1, <1>2, <2>1, <2>2, <2>3, RemoveCallStep
    <2>5. TypeOK'
      BY <1>1, <2>4 DEF IInv, TypeOK
    <2>6. QED
      BY <1>1, <2>4, <2>5, SettledStep
  <1>4. CASE ~Ringing(c)
    <2>1. armed' = armed \ {t} /\ UNCHANGED <<byId, answered, byUser, timers, replaced, rivals>>
      BY <1>4 DEF RingTimeout
    <2>2. Shrinks
      BY <2>1 DEF Shrinks
    <2>3. ASSUME NEW e \in CallId, timers[e] # None PROVE timers[e] # t
      <3>1. Ringing(e) /\ timers[e] = byId[e]
        BY <2>3 DEF IInv, Tables, RingTimerArmed
      <3>2. byId[e] = t => invite[t].call = e
        BY DEF IInv, Tables, Stored
      <3>3. QED
        BY <1>4, <3>1, <3>2
    <2>4. RingTimerArmed'
      BY <2>1, <2>3 DEF IInv, Tables, RingTimerArmed, Ringing, Live
    <2>5. TypeOK'
      BY <1>1, <2>1 DEF IInv, TypeOK
    <2>6. QED
      BY <1>1, <2>1, <2>2, <2>4, <2>5, SettledStep
  <1>5. QED
    BY <1>3, <1>4

LEMMA HistorySteps ==
    ASSUME IInv, NEW t \in Task, SaveHistory(t) \/ AnnounceHistory(t)
    PROVE  IInv' /\ Shrinks
  <1>1. UNCHANGED <<link, closing, invite, tableVars>>
    BY DEF SaveHistory, AnnounceHistory, tableVars
  <1>2. history' \in [Task -> [stage : {"none", "saving", "saved", "done"},
                               text : HistoryTexts \cup {"none"}]]
    BY DEF SaveHistory, AnnounceHistory, IInv, TypeOK
  <1>3. out' \in SUBSET [to : Device, ev : Events, call : CallId]
    <2>1. CASE SaveHistory(t)
      BY <2>1 DEF SaveHistory
    <2>2. CASE AnnounceHistory(t)
      <3>1. PICK reached \in SUBSET UNION {UserRoom(u) : u \in MembersOf[invite[t].conv]} :
               out' = Msg(reached, "row", invite[t].call)
        BY <2>2 DEF AnnounceHistory
      <3>2. reached \in SUBSET Device
        BY RoomsAreDevices
      <3>3. \A m \in out' : m.to \in Device /\ m.ev = "row" /\ m.call = invite[t].call
        BY <3>1, <3>2 DEF Msg
      <3>4. invite[t].call \in CallId
        BY <2>2 DEF AnnounceHistory, IInv, StageInv, Started
      <3>5. QED
        BY <3>1, <3>2, <3>4, MsgType DEF Events, Notices
    <2>3. QED
      BY <2>1, <2>2
  <1>4. TypeOK'
    BY <1>1, <1>2, <1>3 DEF IInv, TypeOK, tableVars
  <1>5. StageInv'
    <2>1. \A e \in Task : history'[e].stage # "none" => history[e].stage # "none"
      BY DEF SaveHistory, AnnounceHistory, IInv, TypeOK
    <2>2. QED
      BY <1>1, <2>1 DEF IInv, StageInv, Started, Callee, Caller, tableVars
  <1>8. Settled /\ Shrinks
    BY <1>1, UnchangedSettled, UnchangedShrinks
  <1>6. RingTimerArmed'
    BY <1>1 DEF IInv, Tables, RingTimerArmed, Ringing, Live, tableVars
  <1>7. QED
    BY <1>4, <1>5, <1>6, <1>8, CalmStep
-----------------------------------------------------------------------------
(* The two steps that let a call in *)

(* An invite passes the check: whoever it shares with a live call was not  *)
(* busy with that call any more.                                           *)
LEMMA ChosenStep ==
    ASSUME IInv, NEW t \in Task, NEW callee \in User, invite[t].stage = "checking",
           callee # Caller(t), ~Busy(Caller(t)), ~Busy(callee),
           invite' = [invite EXCEPT ![t] =
                        [invite[t] EXCEPT !.stage = "chosen", !.callee = callee]],
           UNCHANGED <<link, closing, tableVars, history>>, out' = {}
    PROVE  IInv'
  <1>1. /\ invite'[t] \in InviteTasks /\ invite'[t].stage = "chosen"
        /\ invite'[t].dev = invite[t].dev /\ invite'[t].sock = invite[t].sock
        /\ invite'[t].call = invite[t].call /\ invite'[t].callee = callee
        /\ \A e \in Task \ {t} : invite'[e] = invite[e]
    <2>1. invite[t] \in InviteTasks
      BY DEF IInv, TypeOK
    <2>2. QED
      BY <2>1 DEF IInv, TypeOK, InviteTasks, Stages
  <1>2. invite' \in [Task -> InviteTasks]
    BY <1>1 DEF IInv, TypeOK
  <1>3. TypeOK'
    BY <1>2 DEF IInv, TypeOK, tableVars
  <1>4. StageInv'
    BY <1>1 DEF IInv, StageInv, Started, Callee, Caller, tableVars
  <1>5. ASSUME NEW e \in Task
        PROVE  /\ Started(e)' <=> Started(e) /\ invite'[e].call = invite[e].call
               /\ e # t => Parties(e)' = Parties(e)
               /\ Started(e) => e # t
    BY <1>1 DEF Started, Parties, Caller, Callee
  <1>6. ASSUME NEW e \in Task, NEW u, Overtaken(e, u)
        PROVE  Overtaken(e, u)'
    <2>1. PICK s \in rivals[e] : Started(s) /\ u \in Parties(s)
      BY <1>6 DEF Overtaken
    <2>2. s \in Task /\ s \in rivals'[e]
      BY <2>1 DEF IInv, TypeOK, tableVars
    <2>3. Started(s)' /\ Parties(s)' = Parties(s)
      BY <1>5, <2>1, <2>2
    <2>4. QED
      BY <2>1, <2>2, <2>3 DEF Overtaken
  <1>7. Stored' /\ RingTimerArmed'
    BY <1>5 DEF IInv, Tables, Stored, RingTimerArmed, Ringing, Live, tableVars
  <1>8. NoStaleBusy'
    <2> SUFFICES ASSUME NEW u \in User, byUser[u] # None
                 PROVE  \E e \in Task : /\ Started(e)' /\ invite'[e].call = byUser[u]
                                        /\ u \in Parties(e)'
                                        /\ byId[byUser[u]] = e \/ e \in replaced
      BY DEF NoStaleBusy, tableVars
    <2>1. PICK e \in Task : /\ Started(e) /\ invite[e].call = byUser[u] /\ u \in Parties(e)
                            /\ byId[byUser[u]] = e \/ e \in replaced
      BY DEF IInv, Tables, NoStaleBusy
    <2>2. QED
      BY <1>5, <2>1
  <1>9. Findable'
    <2> SUFFICES ASSUME NEW c \in CallId, NEW e \in Task, byId[c] = e, NEW u \in Parties(e)'
                 PROVE  byUser[u] = c \/ Overtaken(e, u)'
      BY DEF Findable, tableVars
    <2>1. u \in Parties(e)
      BY <1>5 DEF IInv, Tables, Stored
    <2>2. QED
      BY <1>6, <2>1 DEF IInv, Tables, Findable
  <1>10. PastCheck'
    <2> SUFFICES ASSUME NEW c \in CallId, NEW e \in Task, NEW s \in Task, byId[c] = e,
                        invite'[s].stage = "chosen", NEW u \in Parties(e)' \cap Parties(s)'
                 PROVE  s \in rivals[e] \/ Overtaken(e, u)'
      BY DEF PastCheck, tableVars
    <2>1. u \in Parties(e)
      BY <1>5 DEF IInv, Tables, Stored
    <2>2. CASE s = t
      <3>1. u \in {Caller(t), callee}
        BY <1>1, <2>2 DEF Parties, Caller, Callee
      <3>2. byUser[u] # c
        BY <3>1, NoneAssumption DEF Busy, Live
      <3>3. Overtaken(e, u)
        BY <2>1, <3>2 DEF IInv, Tables, Findable
      <3>4. QED
        BY <1>6, <3>3
    <2>3. CASE s # t
      <3>1. invite[s].stage = "chosen" /\ u \in Parties(s)
        BY <1>1, <1>5, <2>3
      <3>2. s \in rivals[e] \/ Overtaken(e, u)
        BY <2>1, <3>1 DEF IInv, Tables, PastCheck
      <3>3. QED
        BY <1>6, <3>2
    <2>4. QED
      BY <2>2, <2>3
  <1>11. QED
    BY <1>3, <1>4, <1>7, <1>8, <1>9, <1>10 DEF IInv, Tables

LEMMA InviteCheckStep ==
    ASSUME IInv, NEW t \in Task, InviteCheck(t)
    PROVE  IInv' /\ Shrinks
  <1>1. /\ invite[t].stage = "checking" /\ Caller(t) \in MembersOf[invite[t].conv]
        /\ UNCHANGED <<link, closing, tableVars, history>>
    BY DEF InviteCheck, callVars, tableVars
  <1>2. PICK callee \in User :
          /\ Others(t) = {callee}
          /\ IF Busy(Caller(t)) \/ Busy(callee)
             THEN /\ invite' = [invite EXCEPT ![t].stage = "busy"]
                  /\ out' = Msg(Sender(t), "busy", invite[t].call)
             ELSE /\ invite' = [invite EXCEPT ![t] =
                                  [invite[t] EXCEPT !.stage = "chosen", !.callee = callee]]
                  /\ out' = {}
    BY Zenon DEF InviteCheck
  <1>3. Shrinks
    BY <1>1, UnchangedShrinks
  <1>4. CASE Busy(Caller(t)) \/ Busy(callee)
    <2>1. invite' = [invite EXCEPT ![t].stage = "busy"] /\ out' = Msg(Sender(t), "busy", invite[t].call)
      BY <1>2, <1>4, Zenon
    <2>2. Sender(t) \in SUBSET Device /\ invite[t].call \in CallId
      BY <1>1 DEF Sender, IInv, StageInv
    <2>3. "busy" \in Events /\ "busy" \in Stages
      BY DEF Events, Notices, Stages
    <2>4. out' \in SUBSET [to : Device, ev : Events, call : CallId]
      BY <2>1, <2>2, <2>3, MsgType
    <2>5. QED
      BY <1>1, <2>1, <2>3, <2>4, TaskMoves
  <1>5. CASE ~(Busy(Caller(t)) \/ Busy(callee))
    <2>1. /\ invite' = [invite EXCEPT ![t] =
                           [invite[t] EXCEPT !.stage = "chosen", !.callee = callee]]
          /\ out' = {}
      BY <1>2, <1>5, Zenon
    <2>2. callee # Caller(t)
      BY <1>2 DEF Others
    <2>3. IInv'
      BY <1>1, <1>5, <2>1, <2>2, ChosenStep
    <2>4. QED
      BY <1>3, <2>3
  <1>6. QED
    BY <1>4, <1>5

(* The maps after a call has started *)
LEMMA InviteStartFacts ==
    ASSUME IInv, NEW t \in Task, NEW c, c = invite[t].call, InviteStart(t)
    PROVE  /\ c \in CallId /\ invite[t].stage = "chosen" /\ Parties(t) \subseteq User
           /\ Caller(t) \in User /\ Callee(t) \in User
           /\ byId' = [byId EXCEPT ![c] = t]
           /\ \A u \in User : byUser'[u] = IF u \in Parties(t) THEN c ELSE byUser[u]
           /\ timers' = [timers EXCEPT ![c] = t] /\ armed' = armed \cup {t}
           /\ replaced' = replaced \cup ({byId[c]} \ {None})
           /\ rivals' = [rivals EXCEPT ![t] = {s \in Task \ {t} : invite[s].stage = "chosen"}]
           /\ UNCHANGED <<answered, link, closing, history>>
           /\ invite' \in [Task -> InviteTasks] /\ invite'[t].stage = "pushing"
           /\ invite'[t].sock = invite[t].sock /\ SameInvite(t)
           /\ \A e \in Task \ {t} : invite'[e] = invite[e]
           /\ \A e \in Task : Parties(e)' = Parties(e) /\ invite'[e].call = invite[e].call
  <1>1. /\ invite[t].stage = "chosen"
        /\ byId' = [byId EXCEPT ![c] = t]
        /\ byUser' = [byUser EXCEPT ![Caller(t)] = c, ![Callee(t)] = c]
        /\ timers' = [timers EXCEPT ![c] = t] /\ armed' = armed \cup {t}
        /\ replaced' = replaced \cup ({byId[c]} \ {None})
        /\ rivals' = [rivals EXCEPT ![t] = {s \in Task \ {t} : invite[s].stage = "chosen"}]
        /\ UNCHANGED <<answered, link, closing, history>>
    BY DEF InviteStart, StartCall, Observe
  <1>2. invite' = [invite EXCEPT ![t].stage = "pushing"] /\ "pushing" \in Stages
    BY Zenon DEF InviteStart, Stages
  <1>3. /\ invite' \in [Task -> InviteTasks] /\ invite'[t].stage = "pushing"
        /\ invite'[t].sock = invite[t].sock /\ SameInvite(t)
        /\ \A e \in Task \ {t} : invite'[e] = invite[e]
    BY <1>2, StageMove DEF IInv
  <1>4. /\ Caller(t) \in User /\ Callee(t) \in User /\ Parties(t) \subseteq User
        /\ invite[t].call \in CallId
    BY <1>1, PartiesAreUsers DEF IInv
  <1>5. \A u \in User : byUser'[u] = IF u \in Parties(t) THEN c ELSE byUser[u]
    BY <1>1, <1>4 DEF IInv, TypeOK, Parties
  <1>6. \A e \in Task : Parties(e)' = Parties(e) /\ invite'[e].call = invite[e].call
    BY <1>3 DEF SameInvite, Parties, Caller, Callee
  <1>7. QED
    BY <1>1, <1>3, <1>4, <1>5, <1>6

LEMMA InviteStartStep ==
    ASSUME IInv, NEW t \in Task, NEW c, c = invite[t].call, InviteStart(t)
    PROVE  IInv'
  <1>1. /\ c \in CallId /\ invite[t].stage = "chosen" /\ Parties(t) \subseteq User
        /\ Caller(t) \in User /\ Callee(t) \in User
        /\ byId' = [byId EXCEPT ![c] = t]
        /\ \A u \in User : byUser'[u] = IF u \in Parties(t) THEN c ELSE byUser[u]
        /\ timers' = [timers EXCEPT ![c] = t] /\ armed' = armed \cup {t}
        /\ replaced' = replaced \cup ({byId[c]} \ {None})
        /\ rivals' = [rivals EXCEPT ![t] = {s \in Task \ {t} : invite[s].stage = "chosen"}]
        /\ UNCHANGED <<answered, link, closing, history>>
        /\ invite' \in [Task -> InviteTasks] /\ invite'[t].stage = "pushing"
        /\ invite'[t].sock = invite[t].sock /\ SameInvite(t)
        /\ \A e \in Task \ {t} : invite'[e] = invite[e]
        /\ \A e \in Task : Parties(e)' = Parties(e) /\ invite'[e].call = invite[e].call
    BY InviteStartFacts
  <1>2. ~Started(t) /\ Started(t)' /\ \A e \in Task \ {t} : Started(e)' <=> Started(e)
    BY <1>1 DEF Started
  <1>3. TypeOK'
    <2>1. byUser' \in [User -> CallId \cup {None}]
      BY <1>1 DEF IInv, TypeOK, InviteStart, StartCall
    <2>2. out' \in SUBSET [to : Device, ev : Events, call : CallId]
      <3>1. Sender(t) \in SUBSET Device /\ {"incoming", "ringing"} \subseteq Events
        BY DEF Sender, IInv, StageInv, Events, Notices
      <3>2. /\ Msg(UserRoom(Callee(t)), "incoming", c) \in SUBSET [to : Device, ev : Events, call : CallId]
            /\ Msg(Sender(t), "ringing", c) \in SUBSET [to : Device, ev : Events, call : CallId]
        BY <1>1, <3>1, MsgType, RoomsAreDevices
      <3>3. QED
        BY <3>2 DEF InviteStart
    <2>3. byId[c] # None => byId[c] \in Task
      BY <1>1 DEF IInv, TypeOK
    <2>4. replaced' \in SUBSET Task /\ rivals' \in [Task -> SUBSET Task]
      BY <1>1, <2>3 DEF IInv, TypeOK
    <2>5. QED
      BY <1>1, <2>1, <2>2, <2>4 DEF IInv, TypeOK
  <1>4. StageInv'
    BY <1>1, <1>2 DEF IInv, StageInv, SameInvite, Callee, Caller, Started
  <1>5. \A e \in CallId \ {c} : byId'[e] = byId[e] /\ timers'[e] = timers[e]
    BY <1>1 DEF IInv, TypeOK
  <1>6. byId'[c] = t /\ timers'[c] = t
    BY <1>1 DEF IInv, TypeOK
  <1>7. ASSUME NEW e \in CallId, NEW s \in Task, byId[e] = s
        PROVE  s # t /\ Started(s) /\ invite[s].call = e
    BY <1>2, <1>7 DEF IInv, Tables, Stored
  <1>8. Stored'
    BY <1>1, <1>2, <1>5, <1>6, <1>7 DEF Stored
  <1>9. RingTimerArmed'
    <2>1. ~(t \in answered)
      BY <1>2 DEF IInv, StageInv
    <2>2. Ringing(c)' /\ t \in armed'
      BY <1>1, <1>6, <2>1, NoneAssumption DEF Ringing, Live
    <2>3. \A e \in CallId \ {c} : Ringing(e)' <=> Ringing(e)
      BY <1>1, <1>5 DEF Ringing, Live
    <2>4. QED
      BY <1>1, <1>5, <1>6, <2>2, <2>3 DEF RingTimerArmed, IInv, Tables
  <1>10. ASSUME NEW e \in Task \ {t}, NEW u, Overtaken(e, u)
        PROVE  Overtaken(e, u)'
    <2>1. PICK s \in rivals[e] : Started(s) /\ u \in Parties(s)
      BY <1>10 DEF Overtaken
    <2>2. s \in Task /\ s \in rivals'[e]
      BY <1>1, <2>1 DEF IInv, TypeOK
    <2>3. Started(s)' /\ Parties(s)' = Parties(s)
      BY <1>1, <1>2, <2>1, <2>2
    <2>4. QED
      BY <2>1, <2>2, <2>3 DEF Overtaken
  <1>11. NoStaleBusy'
    <2> SUFFICES ASSUME NEW u \in User, byUser'[u] # None
                 PROVE  \E e \in Task : /\ Started(e)' /\ invite'[e].call = byUser'[u]
                                        /\ u \in Parties(e)'
                                        /\ byId'[byUser'[u]] = e \/ e \in replaced'
      BY DEF NoStaleBusy
    <2>1. CASE u \in Parties(t)
      BY <1>1, <1>2, <1>6, <2>1
    <2>2. CASE u \notin Parties(t)
      <3>1. byUser'[u] = byUser[u] /\ byUser[u] \in CallId
        BY <1>1, <2>2 DEF IInv, TypeOK
      <3>2. PICK e \in Task : /\ Started(e) /\ invite[e].call = byUser[u] /\ u \in Parties(e)
                              /\ byId[byUser[u]] = e \/ e \in replaced
        BY <3>1 DEF IInv, Tables, NoStaleBusy
      <3>3. byId'[byUser[u]] = e \/ e \in replaced'
        BY <1>1, <1>5, <3>1, <3>2, NoneAssumption
      <3>4. QED
        BY <1>1, <1>2, <3>1, <3>2, <3>3
    <2>3. QED
      BY <2>1, <2>2
  <1>12. Findable'
    <2> SUFFICES ASSUME NEW e \in CallId, NEW s \in Task, byId'[e] = s, NEW u \in Parties(s)
                 PROVE  byUser'[u] = e \/ Overtaken(s, u)'
      BY <1>1 DEF Findable
    <2>1. CASE e = c
      BY <1>1, <1>6, <2>1
    <2>2. CASE e # c
      <3>1. byId[e] = s /\ s # t /\ u \in User
        BY <1>5, <1>7, <2>2, PartiesAreUsers DEF IInv, Started
      <3>2. byUser[u] = e \/ Overtaken(s, u)
        BY <3>1 DEF IInv, Tables, Findable
      <3>3. CASE u \in Parties(t)
        <4>1. t \in rivals[s] \/ Overtaken(s, u)
          BY <1>1, <3>1, <3>3 DEF IInv, Tables, PastCheck
        <4>2. t \in rivals[s] => Overtaken(s, u)'
          BY <1>1, <1>2, <3>1, <3>3 DEF Overtaken, IInv, TypeOK
        <4>3. QED
          BY <1>10, <3>1, <4>1, <4>2
      <3>4. CASE u \notin Parties(t)
        BY <1>1, <1>10, <3>1, <3>2, <3>4
      <3>5. QED
        BY <3>3, <3>4
    <2>3. QED
      BY <2>1, <2>2
  <1>13. PastCheck'
    <2> SUFFICES ASSUME NEW e \in CallId, NEW s \in Task, NEW r \in Task, byId'[e] = s,
                        invite'[r].stage = "chosen", NEW u \in Parties(s) \cap Parties(r)
                 PROVE  r \in rivals'[s] \/ Overtaken(s, u)'
      BY <1>1 DEF PastCheck
    <2>1. r # t /\ invite[r].stage = "chosen"
      BY <1>1
    <2>2. CASE e = c
      <3>1. s = t /\ rivals'[t] = {q \in Task \ {t} : invite[q].stage = "chosen"}
        BY <1>1, <1>6, <2>2 DEF IInv, TypeOK
      <3>2. QED
        BY <2>1, <3>1
    <2>3. CASE e # c
      <3>1. byId[e] = s
        BY <1>5, <2>3
      <3>2. s # t
        BY <1>7, <3>1
      <3>3. r \in rivals[s] \/ Overtaken(s, u)
        BY <2>1, <3>1 DEF IInv, Tables, PastCheck
      <3>4. rivals'[s] = rivals[s]
        BY <1>1, <3>2 DEF IInv, TypeOK
      <3>5. QED
        BY <1>10, <3>2, <3>3, <3>4
    <2>4. QED
      BY <2>2, <2>3
  <1>14. QED
    BY <1>3, <1>4, <1>8, <1>9, <1>11, <1>12, <1>13 DEF IInv, Tables
-----------------------------------------------------------------------------
(* Every step but the start of a call at most takes calls out of the maps. *)
LEMMA NextKeepsInv ==
    ASSUME IInv, [Next]_vars
    PROVE  IInv' /\ (Shrinks \/ \E t \in Task : InviteStart(t))
  <1>1. CASE UNCHANGED vars
    <2>1. UNCHANGED <<link, closing, invite, tableVars, history, out>>
      BY <1>1 DEF vars, callVars, tableVars
    <2>2. StageInv' /\ Settled
      BY <2>1, UnchangedSettled DEF IInv, StageInv, Started, Callee, Caller, tableVars
    <2>3. QED
      BY <2>1, <2>2, MapsUnchanged DEF IInv, TypeOK
  <1>2. ASSUME NEW d \in Device, Connect(d) \/ JoinRooms(d) \/ Drop(d) \/ FinishDisconnect(d)
        PROVE  IInv' /\ Shrinks
    BY <1>2, SocketSteps, DropStep, FinishDisconnectStep
  <1>3. ASSUME NEW t \in Task, InviteStep(t)
        PROVE  IInv' /\ (Shrinks \/ InviteStart(t))
    BY <1>3, InviteCheckStep, InviteStartStep, InvitePushStep, InviteRefusedStep DEF InviteStep
  <1>4. ASSUME NEW t \in Task, RingTimeout(t) \/ SaveHistory(t) \/ AnnounceHistory(t)
        PROVE  IInv' /\ Shrinks
    BY <1>4, RingTimeoutStep, HistorySteps
  <1>5. QED
    BY <1>1, <1>2, <1>3, <1>4, InviteArrivesStep, HandleStep DEF Next

THEOREM InductiveInvariant == SafeSpec => []IInv
  BY InitInv, NextKeepsInv, PTL DEF SafeSpec

-----------------------------------------------------------------------------
(* The state of CallsService and of the handlers keeps its types. *)
THEOREM TypeCorrect == Spec => []TypeOK
  <1>1. IInv => TypeOK
    BY DEF IInv
  <1>2. QED
    BY <1>1, InductiveInvariant, PTL DEF Spec

(* No call rings without a pending timer that will stop it, also when its  *)
(* id stood for other calls before, and no answered call has one kept: the *)
(* three maps that start, activate and end keep by hand agree.             *)
THEOREM TimersMatchCalls == Spec => []RingTimerArmed
  <1>1. IInv => RingTimerArmed
    BY DEF IInv, Tables
  <1>2. QED
    BY <1>1, InductiveInvariant, PTL DEF Spec

(* Whatever calls end and whatever ids are used again, a user that is busy *)
(* is busy with a live call of its own, or with one that was replaced.     *)
THEOREM NobodyStaysBusy == Spec => []NoStaleBusy
  <1>1. IInv => NoStaleBusy
    BY DEF IInv, Tables
  <1>2. QED
    BY <1>1, InductiveInvariant, PTL DEF Spec

(* Only an invite past its busy check when a call started can take that    *)
(* call's parties away from it (the await between check and start).        *)
THEOREM LiveCallsFound == Spec => []LiveCallFindable
  <1>1. IInv => LiveCallFindable
    <2> SUFFICES ASSUME IInv, NEW c \in CallId, byId[c] # None, NEW u \in Parties(byId[c])
                 PROVE  byUser[u] = c \/ Overtaken(byId[c], u)
      BY DEF LiveCallFindable, Live
    <2>1. byId[c] \in Task
      BY DEF IInv, TypeOK
    <2>2. QED
      BY <2>1 DEF IInv, Tables, Findable
  <1>2. QED
    BY <1>1, InductiveInvariant, PTL DEF Spec

(* A user stays busy as long as the call that made it so is live.          *)
THEOREM BusyTillTheEnd == Spec => BusyUntilOver
  <1> DEFINE Good ==
        \A u \in User :
          Busy(u) /\ byId'[byUser[u]] = byId[byUser[u]] =>
            byUser'[u] # None /\ byId'[byUser'[u]] # None
  <1>1. ASSUME IInv, [Next]_vars PROVE Good
    <2> SUFFICES ASSUME NEW u \in User, Busy(u), byId'[byUser[u]] = byId[byUser[u]]
                 PROVE  byUser'[u] # None /\ byId'[byUser'[u]] # None
      OBVIOUS
    <2>1. byUser[u] # None /\ byUser[u] \in CallId /\ byId[byUser[u]] # None
      BY DEF Busy, Live
    <2>2. CASE Shrinks
      BY <2>1, <2>2 DEF Shrinks
    <2>3. ASSUME NEW t \in Task, NEW c, c = invite[t].call, InviteStart(t)
          PROVE  byUser'[u] # None /\ byId'[byUser'[u]] # None
      <3>1. /\ c \in CallId /\ byId' = [byId EXCEPT ![c] = t]
            /\ byUser'[u] = IF u \in Parties(t) THEN c ELSE byUser[u]
        BY <1>1, <2>3, InviteStartFacts
      <3>2. byId'[c] = t /\ \A e \in CallId \ {c} : byId'[e] = byId[e]
        BY <1>1, <3>1 DEF IInv, TypeOK
      <3>3. QED
        BY <2>1, <3>1, <3>2, NoneAssumption
    <2>4. QED
      BY <1>1, <2>2, <2>3, NextKeepsInv
  <1>2. [][Good]_vars => BusyUntilOver
    BY PTL DEF BusyUntilOver
  <1>3. IInv /\ [Next]_vars => [Good]_vars
    BY <1>1
  <1> HIDE DEF Good
  <1>4. QED
    BY <1>2, <1>3, InductiveInvariant, PTL DEF Spec, SafeSpec
=============================================================================
