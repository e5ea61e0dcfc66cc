-------------------------- MODULE CallsStepProofs --------------------------
(***************************************************************************)
(* What a step of module Calls may never do, and that the server           *)
(* implements CallLifecycle, whatever ids its clients choose.              *)
(***************************************************************************)
EXTENDS CallsProofs

(* What one step may do to the calls, with what it emits: a call begins,   *)
(* in the place of another perhaps; one is answered; one ends, with its    *)
(* events and its row or, while it rings, in silence; or none changes.     *)
Begins(t, c) ==
    /\ invite[t].call = c /\ ~Started(t) /\ Started(t)'
    /\ byId' = [byId EXCEPT ![c] = t] /\ UNCHANGED answered
    /\ \A e \in Task \ {t} : Started(e)' <=> Started(e)
    /\ \A e \in Task : invite'[e].call = invite[e].call
    /\ \A m \in out' : m.call = c /\ m.ev \in {"incoming", "ringing"} /\ OwnerOf[m.to] \in Parties(t)

Answers(t, c) ==
    /\ byId[c] = t /\ UNCHANGED <<byId, invite>> /\ answered' = answered \cup {t}
    /\ \A m \in out' : m.call = c /\ m.ev = "accepted" /\ OwnerOf[m.to] \in Parties(t)

Loud(t, c) ==
    /\ out' = Msg(Rooms(t), "ended", c)
    /\ history'[t].stage = "saving"
    /\ t \in answered => history'[t].text # "missed"

Ends(t, c) ==
    /\ byId[c] = t /\ byId' = [byId EXCEPT ![c] = None] /\ UNCHANGED <<answered, invite>>
    /\ Loud(t, c) \/ (out' = {} /\ t \notin answered)

(* No call starts, and one that has started keeps its id. *)
Steady ==
    \A t \in Task : /\ Started(t)' <=> Started(t)
                    /\ Started(t) => invite'[t].call = invite[t].call

Sends ==
    /\ UNCHANGED <<byId, answered>> /\ Steady
    /\ \A m \in out' : \/ m.ev \in {"busy", "push", "row"}
                       \/ /\ m.ev \in Signals
                          /\ \E t \in Task : byId[m.call] = t /\ OwnerOf[m.to] \in Parties(t)

OneCall == \E t \in Task, c \in CallId : Begins(t, c) \/ Answers(t, c) \/ Ends(t, c)

LEMMA MsgFields ==
    ASSUME NEW D, NEW e, NEW c
    PROVE  \A m \in Msg(D, e, c) : m.to \in D /\ m.ev = e /\ m.call = c
  BY DEF Msg

LEMMA EndCallShape ==
    ASSUME IInv, NEW c \in CallId, NEW reason \in Reasons, EndCall(c, reason), UNCHANGED invite,
           byId[c] \in answered => reason # "timeout"
    PROVE  OneCall \/ Sends
  <1>1. CASE c \notin Live
    BY <1>1 DEF EndCall, callVars, Sends, Steady, Started
  <1>2. CASE c \in Live
    <2>1. PICK t \in Task : byId[c] = t
      BY <1>2 DEF Live, IInv, TypeOK
    <2>2. /\ byId' = [byId EXCEPT ![c] = None] /\ UNCHANGED answered
          /\ out' = Msg(Rooms(t), "ended", c)
      BY <1>2, <2>1 DEF EndCall, RemoveCall
    <2>3. PICK text \in RowTexts(t, reason) :
             history' = [history EXCEPT ![t] = [stage |-> "saving", text |-> text]]
      BY <1>2, <2>1 DEF EndCall
    <2>4. t \in answered => text # "missed"
      BY <2>1, <2>3 DEF RowTexts, ReasonText, Reasons
    <2>5. history'[t] = [stage |-> "saving", text |-> text]
      BY <2>3 DEF IInv, TypeOK
    <2>6. Ends(t, c)
      BY <2>1, <2>2, <2>4, <2>5 DEF Ends, Loud
    <2>7. QED
      BY <2>6 DEF OneCall
  <1>3. QED
    BY <1>1, <1>2

LEMMA ThrowSends ==
    ASSUME Throw, UNCHANGED invite
    PROVE  Sends
  BY DEF Throw, callVars, Sends, Steady, Started

LEMMA SocketShape ==
    ASSUME IInv, NEW d \in Device,
           Connect(d) \/ JoinRooms(d) \/ Drop(d) \/ FinishDisconnect(d)
    PROVE  OneCall \/ Sends
  <1>1. CASE Connect(d) \/ JoinRooms(d)
    BY <1>1, ThrowSends DEF Connect, JoinRooms, Throw
  <1>2. CASE Drop(d)
    <2>1. ASSUME NEW t \in Task
          PROVE  invite'[t].stage = invite[t].stage /\ invite'[t].call = invite[t].call
      BY <1>2, SockUpdate DEF Drop, IInv, TypeOK
    <2>2. Steady
      BY <2>1 DEF Steady, Started
    <2>3. QED
      BY <1>2, <2>2 DEF Drop, callVars, Sends
  <1>3. CASE FinishDisconnect(d)
    <2> DEFINE u == OwnerOf[d]
    <2>1. CASE Busy(u) /\ EndCall(byUser[u], DisconnectReason(byUser[u], u))
      <3>1. byUser[u] \in CallId
        BY <2>1, OwnerAssumption DEF Busy, IInv, TypeOK
      <3>2. /\ DisconnectReason(byUser[u], u) \in Reasons
            /\ byId[byUser[u]] \in answered => DisconnectReason(byUser[u], u) # "timeout"
        BY DEF DisconnectReason, Reasons, Ringing
      <3>3. QED
        BY <1>3, <2>1, <3>1, <3>2, EndCallShape DEF FinishDisconnect
    <2>2. CASE out' = {} /\ UNCHANGED callVars
      BY <1>3, <2>2, ThrowSends DEF FinishDisconnect, Throw
    <2>3. QED
      BY <1>3, <2>1, <2>2 DEF FinishDisconnect
  <1>4. QED
    BY <1>1, <1>2, <1>3

(* An invite task moves on, but to or from the start of its call.          *)
LEMMA MoveSteady ==
    ASSUME IInv, NEW t \in Task, NEW s \in Stages, invite' = [invite EXCEPT ![t].stage = s],
           s \in {"pushing", "done"} <=> Started(t)
    PROVE  Steady
  BY StageMove DEF IInv, Steady, Started, SameInvite

(* A call starts: those who hear of it are the caller and the callee's     *)
(* devices.                                                                *)
LEMMA StartShape ==
    ASSUME IInv, NEW t \in Task, InviteStart(t)
    PROVE  OneCall
  <1>1. PICK c : c = invite[t].call
    OBVIOUS
  <1>2. /\ c \in CallId /\ invite[t].stage = "chosen" /\ byId' = [byId EXCEPT ![c] = t]
        /\ UNCHANGED answered /\ invite'[t].stage = "pushing"
        /\ \A e \in Task \ {t} : invite'[e] = invite[e]
        /\ \A e \in Task : invite'[e].call = invite[e].call
    BY <1>1, InviteStartFacts
  <1>3. \A m \in out' : /\ m.call = c /\ m.ev \in {"incoming", "ringing"}
                        /\ OwnerOf[m.to] \in Parties(t)
    <2>1. out' = Msg(UserRoom(Callee(t)), "incoming", c) \cup Msg(Sender(t), "ringing", c)
      BY <1>1 DEF InviteStart
    <2>2. \A d \in UserRoom(Callee(t)) : OwnerOf[d] = Callee(t)
      BY RoomsAreDevices
    <2>3. \A d \in Sender(t) : OwnerOf[d] = Caller(t)
      BY DEF Sender, Caller
    <2>4. QED
      BY <2>1, <2>2, <2>3, MsgFields DEF Parties
  <1>4. Begins(t, c)
    BY <1>1, <1>2, <1>3 DEF Begins, Started
  <1>5. QED
    BY <1>2, <1>4 DEF OneCall

LEMMA InviteShape ==
    ASSUME IInv, NEW t \in Task, InviteStep(t)
    PROVE  OneCall \/ Sends
  <1>0. invite[t] \in InviteTasks
    BY DEF IInv, TypeOK
  <1>1. CASE InviteCheck(t)
    <2>1. ~Started(t) /\ UNCHANGED <<byId, answered>>
      BY <1>1 DEF InviteCheck, callVars, Started
    <2>2. PICK callee \in User :
             \/ /\ invite' = [invite EXCEPT ![t].stage = "busy"]
                /\ out' = Msg(Sender(t), "busy", invite[t].call)
             \/ /\ invite' = [invite EXCEPT ![t] =
                                 [invite[t] EXCEPT !.stage = "chosen", !.callee = callee]]
                /\ out' = {}
      BY <1>1, Zenon DEF InviteCheck
    <2>3. CASE /\ invite' = [invite EXCEPT ![t].stage = "busy"]
               /\ out' = Msg(Sender(t), "busy", invite[t].call)
      <3>1. Steady
        BY <2>1, <2>3, MoveSteady DEF Stages
      <3>2. QED
        BY <2>1, <2>3, <3>1, MsgFields DEF Sends
    <2>4. CASE /\ invite' = [invite EXCEPT ![t] =
                               [invite[t] EXCEPT !.stage = "chosen", !.callee = callee]]
               /\ out' = {}
      <3>1. /\ invite'[t].stage = "chosen" /\ invite'[t].call = invite[t].call
            /\ \A e \in Task \ {t} : invite'[e] = invite[e]
        BY <1>0, <2>4 DEF IInv, TypeOK, InviteTasks
      <3>2. QED
        BY <2>1, <2>4, <3>1 DEF Sends, Steady, Started
    <2>5. QED
      BY <2>2, <2>3, <2>4
  <1>2. CASE InviteStart(t)
    BY <1>2, StartShape
  <1>3. CASE InvitePush(t)
    <2>1. Steady
      BY <1>3, MoveSteady DEF InvitePush, Stages, Started
    <2>2. PICK D : out' = Msg(D, "push", invite[t].call)
      BY <1>3 DEF InvitePush
    <2>3. QED
      BY <1>3, <2>1, <2>2, MsgFields DEF InvitePush, callVars, Sends
  <1>4. CASE InviteRefused(t)
    <2>1. Steady
      BY <1>4, MoveSteady DEF InviteRefused, Stages, Started
    <2>2. QED
      BY <1>4, <2>1 DEF InviteRefused, callVars, Sends
  <1>5. QED
    BY <1>1, <1>2, <1>3, <1>4 DEF InviteStep

LEMMA HandleShape ==
    ASSUME IInv, NEW d \in Device, NEW c \in CallId, Handle(d, c)
    PROVE  OneCall \/ Sends
  <1> DEFINE u == OwnerOf[d]
  <1>1. UNCHANGED invite
    BY DEF Handle
  <1>2. CASE Accept(u, c)
    <2>1. CASE ~(c \in Live /\ u = Callee(byId[c]))
      BY <1>1, <1>2, <2>1, ThrowSends DEF Accept
    <2>2. CASE c \in Live /\ u = Callee(byId[c])
      <3>1. PICK t \in Task : byId[c] = t
        BY <2>2 DEF Live, IInv, TypeOK
      <3>2. /\ answered' = answered \cup {t} /\ UNCHANGED byId
            /\ out' = Msg(UserRoom(Caller(t)), "accepted", c)
        BY <1>2, <2>2, <3>1 DEF Accept, Activate
      <3>3. \A m \in out' : m.call = c /\ m.ev = "accepted" /\ OwnerOf[m.to] \in Parties(t)
        BY <3>2, MsgFields, RoomsAreDevices DEF Parties
      <3>4. QED
        BY <1>1, <3>1, <3>2, <3>3 DEF Answers, OneCall
    <2>3. QED
      BY <2>1, <2>2
  <1>3. CASE Reject(u, c) \/ Cancel(u, c) \/ Hangup(u, c)
    BY <1>1, <1>3, EndingHandlers, ThrowSends, EndCallShape DEF Reasons
  <1>4. CASE \E sig \in Signals : Relay(u, c, sig)
    <2>1. PICK sig \in Signals : Relay(u, c, sig)
      BY <1>4
    <2>2. CASE ~(c \in Live /\ u \in Parties(byId[c]))
      BY <1>1, <2>1, <2>2, ThrowSends DEF Relay
    <2>3. CASE c \in Live /\ u \in Parties(byId[c])
      <3>1. PICK t \in Task : byId[c] = t
        BY <2>3 DEF Live, IInv, TypeOK
      <3>2. out' = Msg(UserRoom(Peer(t, u)), sig, c) /\ UNCHANGED <<byId, answered>>
        BY <2>1, <2>3, <3>1 DEF Relay, callVars
      <3>3. Peer(t, u) \in Parties(t)
        BY DEF Peer, Parties
      <3>4. \A m \in out' : m.ev \in Signals /\ byId[m.call] = t /\ OwnerOf[m.to] \in Parties(t)
        BY <3>1, <3>2, <3>3, MsgFields, RoomsAreDevices
      <3>5. QED
        BY <1>1, <3>2, <3>4 DEF Sends, Steady, Started
    <2>4. QED
      BY <2>2, <2>3
  <1>5. QED
    BY <1>2, <1>3, <1>4 DEF Handle

LEMMA TimerShape ==
    ASSUME IInv, NEW t \in Task, RingTimeout(t) \/ SaveHistory(t) \/ AnnounceHistory(t)
    PROVE  OneCall \/ Sends
  <1>1. UNCHANGED invite
    BY DEF RingTimeout, SaveHistory, AnnounceHistory
  <1>2. CASE RingTimeout(t)
    <2>1. PICK c : c = invite[t].call
      OBVIOUS
    <2>2. CASE Ringing(c)
      <3>1. PICK s \in Task : byId[c] = s
        BY <2>2 DEF Ringing, Live, IInv, TypeOK
      <3>2. Ends(s, c)
        BY <1>1, <1>2, <2>1, <2>2, <3>1 DEF RingTimeout, RemoveCall, Ends, Ringing
      <3>3. QED
        BY <2>2, <3>2 DEF OneCall, Ringing, Live
    <2>3. CASE ~Ringing(c)
      BY <1>1, <1>2, <2>1, <2>3 DEF RingTimeout, Sends, Steady, Started
    <2>4. QED
      BY <2>2, <2>3
  <1>3. CASE SaveHistory(t) \/ AnnounceHistory(t)
    <2>1. \A m \in out' : m.ev = "row"
      BY <1>3, MsgFields DEF SaveHistory, AnnounceHistory
    <2>2. UNCHANGED <<byId, answered>>
      BY <1>3 DEF SaveHistory, AnnounceHistory
    <2>3. QED
      BY <1>1, <2>1, <2>2 DEF Sends, Steady, Started
  <1>4. QED
    BY <1>2, <1>3

LEMMA ArrivalShape ==
    ASSUME IInv, NEW t \in Task, NEW d \in Device, NEW c \in CallId, NEW v \in Conv,
           InviteArrives(t, d, c, v)
    PROVE  Sends
  <1>1. /\ ~Started(t) /\ ~Started(t)' /\ \A e \in Task \ {t} : invite'[e] = invite[e]
        /\ UNCHANGED <<byId, answered>> /\ out' = {}
    BY DEF InviteArrives, callVars, IInv, TypeOK, Started
  <1>2. QED
    BY <1>1 DEF Sends, Steady, Started

(* Every step does one thing to at most one call, or stutters. *)
LEMMA StepIsShaped ==
    ASSUME IInv, [Next]_vars
    PROVE  OneCall \/ Sends \/ UNCHANGED vars
  BY SocketShape, InviteShape, HandleShape, TimerShape, ArrivalShape, Zenon DEF Next
-----------------------------------------------------------------------------
(* Clients hear of a call's progress only while it is live, and hear that  *)
(* it ended exactly when it does; and only its parties do, whatever call   *)
(* had the id before.                                                      *)
THEOREM EventsMatch == Spec => EventsMatchCallState
  <1> DEFINE Good ==
        \A m \in out' :
          /\ m.ev \in Signals \cup {"incoming", "ringing", "accepted"} =>
               byId'[m.call] # None /\ OwnerOf[m.to] \in Parties(byId'[m.call])
          /\ m.ev = "ended" =>
               /\ byId[m.call] # None /\ byId'[m.call] = None
               /\ OwnerOf[m.to] \in Parties(byId[m.call])
  <1>1. ASSUME IInv, [Next]_vars PROVE Good \/ UNCHANGED vars
    <2>1. CASE Sends
      <3> SUFFICES ASSUME NEW m \in out'
                   PROVE  /\ m.ev \in Signals \cup {"incoming", "ringing", "accepted"} =>
                               byId'[m.call] # None /\ OwnerOf[m.to] \in Parties(byId'[m.call])
                          /\ m.ev # "ended"
        OBVIOUS
      <3>1. CASE m.ev \in {"busy", "push", "row"}
        BY <3>1, SignalsAssumption DEF Notices
      <3>2. CASE m.ev \in Signals /\ \E t \in Task : byId[m.call] = t /\ OwnerOf[m.to] \in Parties(t)
        <4>1. PICK t \in Task : byId[m.call] = t /\ OwnerOf[m.to] \in Parties(t)
          BY <3>2
        <4>2. byId'[m.call] = t
          BY <2>1, <4>1 DEF Sends
        <4>3. t # None /\ m.ev # "ended"
          BY <3>2, NoneAssumption, SignalsAssumption DEF Notices
        <4>4. QED
          BY <4>1, <4>2, <4>3
      <3>3. QED
        BY <2>1, <3>1, <3>2 DEF Sends
    <2>2. CASE OneCall
      <3>1. PICK t \in Task, c \in CallId : Begins(t, c) \/ Answers(t, c) \/ Ends(t, c)
        BY <2>2 DEF OneCall
      <3>2. t # None
        BY NoneAssumption
      <3>3. CASE Begins(t, c)
        <4>1. byId'[c] = t
          <5>1. byId' = [byId EXCEPT ![c] = t]
            BY <3>3 DEF Begins
          <5>2. QED
            BY <1>1, <5>1 DEF IInv, TypeOK
        <4>2. QED
          BY <3>2, <3>3, <4>1 DEF Begins
      <3>4. CASE Answers(t, c)
        BY <3>2, <3>4 DEF Answers
      <3>5. CASE Ends(t, c)
        <4>1. byId[c] = t /\ byId'[c] = None
          <5>1. byId[c] = t /\ byId' = [byId EXCEPT ![c] = None]
            BY <3>5 DEF Ends
          <5>2. QED
            BY <1>1, <5>1 DEF IInv, TypeOK
        <4>2. \A m \in out' : m.call = c /\ m.ev = "ended" /\ OwnerOf[m.to] \in Parties(t)
          BY <3>5, MsgFields, RoomsAreDevices DEF Ends, Loud, Rooms, Parties
        <4>3. QED
          BY <3>2, <4>1, <4>2, SignalsAssumption DEF Notices
      <3>6. QED
        BY <3>1, <3>3, <3>4, <3>5
    <2>3. QED
      BY <1>1, <2>1, <2>2, StepIsShaped
  <1>2. [][Good]_vars => EventsMatchCallState
    BY PTL DEF EventsMatchCallState
  <1>3. IInv /\ [Next]_vars => [Good]_vars
    BY <1>1
  <1> HIDE DEF Good
  <1>4. QED
    BY <1>2, <1>3, InductiveInvariant, PTL DEF Spec, SafeSpec

(* However an answered call ends, both parties are told and a history row  *)
(* is on its way: also when a ring timer of an earlier call under its id   *)
(* is still pending.                                                       *)
THEOREM AnsweredEndsLoudly == Spec => AnsweredCallEndsLoudly
  <1> DEFINE Good ==
        \A c \in CallId :
         c \in Live /\ byId[c] \in answered /\ byId'[c] = None =>
            /\ Msg(Rooms(byId[c]), "ended", c) \subseteq out'
            /\ history'[byId[c]].stage = "saving" /\ history'[byId[c]].text # "missed"
  <1>1. ASSUME IInv, [Next]_vars PROVE Good \/ UNCHANGED vars
    <2>1. CASE Sends
      BY <2>1 DEF Sends, Live
    <2>2. CASE OneCall
      <3>1. PICK t \in Task, c \in CallId : Begins(t, c) \/ Answers(t, c) \/ Ends(t, c)
        BY <2>2 DEF OneCall
      <3>2. CASE Begins(t, c)
        <4>1. \A e \in CallId : byId'[e] = t \/ byId'[e] = byId[e]
          BY <3>2 DEF Begins, IInv, TypeOK
        <4>2. QED
          BY <4>1, NoneAssumption DEF Live
      <3>3. CASE Answers(t, c)
        BY <3>3 DEF Answers, Live
      <3>4. CASE Ends(t, c)
        <4>1. \A e \in CallId \ {c} : byId'[e] = byId[e]
          BY <3>4 DEF Ends, IInv, TypeOK
        <4>2. byId[c] = t
          BY <3>4 DEF Ends
        <4>3. t \in answered => Loud(t, c)
          BY <3>4 DEF Ends
        <4>4. QED
          BY <4>1, <4>2, <4>3 DEF Live, Loud
      <3>5. QED
        BY <3>1, <3>2, <3>3, <3>4
    <2>3. QED
      BY <1>1, <2>1, <2>2, StepIsShaped
  <1>2. [][Good]_vars => AnsweredCallEndsLoudly
    BY PTL DEF AnsweredCallEndsLoudly
  <1>3. IInv /\ [Next]_vars => [Good]_vars
    BY <1>1
  <1> HIDE DEF Good
  <1>4. QED
    BY <1>2, <1>3, InductiveInvariant, PTL DEF Spec, SafeSpec

-----------------------------------------------------------------------------
(* The status of one call, which depends on the task that started it *)
LEMMA StatusOf ==
    ASSUME NEW t \in Task
    PROVE  /\ ~Started(t) => Status[t] = "unknown"
           /\ Started(t) /\ byId[invite[t].call] # t => Status[t] = "over"
           /\ Started(t) /\ byId[invite[t].call] = t =>
                Status[t] = IF t \in answered THEN "active" ELSE "ringing"
  BY DEF Status

LEMMA StatusNext ==
    ASSUME NEW t \in Task
    PROVE  /\ ~Started(t)' => Status'[t] = "unknown"
           /\ Started(t)' /\ byId'[invite'[t].call] # t => Status'[t] = "over"
           /\ Started(t)' /\ byId'[invite'[t].call] = t =>
                Status'[t] = IF t \in answered' THEN "active" ELSE "ringing"
  BY DEF Status

LEMMA StatusType ==
    LET Statuses == {"unknown", "ringing", "active", "over"} IN
    Status \in [Task -> Statuses] /\ Status' \in [Task -> Statuses]
  <1>1. Status \in [Task -> {"unknown", "ringing", "active", "over"}]
    BY DEF Status
  <1>2. Status' \in [Task -> {"unknown", "ringing", "active", "over"}]
    BY DEF Status
  <1>3. QED
    BY <1>1, <1>2

LEMMA SameStatus ==
    ASSUME Steady, NEW t \in Task, t \in answered' <=> t \in answered,
           Started(t) => (byId'[invite[t].call] = t <=> byId[invite[t].call] = t)
    PROVE  Status'[t] = Status[t]
  BY StatusOf, StatusNext DEF Steady

LEMMA BeginRefines ==
    ASSUME IInv, NEW t \in Task, NEW c \in CallId, Begins(t, c)
    PROVE  Lifecycle!Next
  <1>1. byId'[c] = t /\ \A e \in CallId \ {c} : byId'[e] = byId[e]
    BY DEF Begins, IInv, TypeOK
  <1>2. Status[t] = "unknown" /\ Status'[t] = "ringing"
    BY <1>1, StatusOf, StatusNext DEF Begins, IInv, StageInv
  <1>3. ASSUME NEW e \in Task \ {t}, byId[c] # e
        PROVE  Status'[e] = Status[e]
    <2>1. (Started(e)' <=> Started(e)) /\ invite'[e].call = invite[e].call
      BY DEF Begins
    <2>2. Started(e) => invite[e].call \in CallId
      BY DEF IInv, StageInv, Started
    <2>3. Started(e) => (byId'[invite[e].call] = e <=> byId[invite[e].call] = e)
      BY <1>1, <1>3, <2>2
    <2>4. QED
      BY <2>1, <2>3, StatusOf, StatusNext DEF Begins
  <1>4. CASE byId[c] = None
    <2>1. \A e \in Task \ {t} : Status'[e] = Status[e]
      BY <1>3, <1>4, NoneAssumption
    <2>2. Status' = [Status EXCEPT ![t] = "ringing"]
      BY <1>2, <2>1, StatusType
    <2>3. Lifecycle!Ring(t)
      BY <1>2, <2>2, Zenon DEF Lifecycle!Ring
    <2>4. QED
      BY <2>3, Zenon DEF Lifecycle!Next
  <1>5. CASE byId[c] # None
    <2>1. PICK s \in Task : byId[c] = s
      BY <1>5 DEF IInv, TypeOK
    <2>2. Started(s) /\ invite[s].call = c /\ s # t
      BY <2>1 DEF IInv, Tables, Stored, Begins
    <2>3. Status[s] \in {"ringing", "active"}
      BY <2>1, <2>2, StatusOf
    <2>4. Started(s)' /\ invite'[s].call = c
      BY <2>2 DEF Begins
    <2>5. Status'[s] = "over"
      BY <1>1, <2>2, <2>4, StatusNext
    <2>6. \A e \in Task \ {t, s} : Status'[e] = Status[e]
      BY <1>3, <2>1
    <2>7. Status' = [Status EXCEPT ![t] = "ringing", ![s] = "over"]
      BY <1>2, <2>2, <2>5, <2>6, StatusType
    <2>8. Lifecycle!Replace(t, s)
      BY <1>2, <2>3, <2>7, Zenon DEF Lifecycle!Replace
    <2>9. QED
      BY <2>8, Zenon DEF Lifecycle!Next
  <1>6. QED
    BY <1>4, <1>5

LEMMA AnswerRefines ==
    ASSUME IInv, NEW t \in Task, NEW c \in CallId, Answers(t, c)
    PROVE  [Lifecycle!Next]_Status
  <1>1. Steady
    BY DEF Answers, Steady, Started
  <1>2. \A e \in Task \ {t} : Status'[e] = Status[e]
    BY <1>1, SameStatus DEF Answers
  <1>3. Started(t) /\ invite[t].call = c
    BY DEF Answers, IInv, Tables, Stored
  <1>4. Status[t] = IF t \in answered THEN "active" ELSE "ringing"
    BY <1>3, StatusOf DEF Answers
  <1>5. Status'[t] = "active"
    BY <1>1, <1>3, StatusNext DEF Answers, Steady
  <1>6. Status' = [Status EXCEPT ![t] = "active"]
    BY <1>2, <1>5, StatusType
  <1>7. CASE t \in answered
    <2>1. \A e \in Task : Status'[e] = Status[e]
      BY <1>2, <1>4, <1>5, <1>7
    <2>2. QED
      BY <2>1, StatusType
  <1>8. CASE t \notin answered
    <2>1. Lifecycle!Answer(t)
      BY <1>4, <1>6, <1>8, Zenon DEF Lifecycle!Answer
    <2>2. QED
      BY <2>1, Zenon DEF Lifecycle!Next
  <1>9. QED
    BY <1>7, <1>8

LEMMA EndRefines ==
    ASSUME IInv, NEW t \in Task, NEW c \in CallId, Ends(t, c)
    PROVE  Lifecycle!Next
  <1>1. byId'[c] = None /\ \A e \in CallId \ {c} : byId'[e] = byId[e]
    BY DEF Ends, IInv, TypeOK
  <1>2. Steady
    BY DEF Ends, Steady, Started
  <1>3. ASSUME NEW e \in Task \ {t}
        PROVE  Status'[e] = Status[e]
    <2>1. Started(e) => invite[e].call \in CallId
      BY DEF IInv, StageInv, Started
    <2>2. Started(e) => (byId'[invite[e].call] = e <=> byId[invite[e].call] = e)
      BY <1>1, <2>1, NoneAssumption DEF Ends
    <2>3. QED
      BY <1>2, <2>2, SameStatus DEF Ends
  <1>4. Started(t) /\ invite[t].call = c
    BY DEF Ends, IInv, Tables, Stored
  <1>5. Status[t] \in {"ringing", "active"}
    BY <1>4, StatusOf DEF Ends
  <1>6. Status'[t] = "over"
    BY <1>1, <1>2, <1>4, StatusNext, NoneAssumption DEF Steady
  <1>7. Status' = [Status EXCEPT ![t] = "over"]
    BY <1>3, <1>6, StatusType
  <1>8. Lifecycle!Finish(t)
    BY <1>5, <1>7, Zenon DEF Lifecycle!Finish
  <1>9. QED
    BY <1>8, Zenon DEF Lifecycle!Next

(* Every behaviour of the server is one the call lifecycle allows: the     *)
(* call of an invite rings once, is answered at most once and, once it is  *)
(* over or replaced, never comes back, even when its id does.              *)
THEOREM Refinement == SafeSpec => Lifecycle!SafeSpec
  <1>1. Init => Lifecycle!Init
    BY DEF Init, Lifecycle!Init, Status, Started, NoInvite
  <1>2. IInv /\ [Next]_vars => [Lifecycle!Next]_Status
    <2> SUFFICES ASSUME IInv, [Next]_vars PROVE [Lifecycle!Next]_Status
      OBVIOUS
    <2>1. CASE OneCall
      BY <2>1, BeginRefines, AnswerRefines, EndRefines DEF OneCall
    <2>2. CASE Sends
      <3>1. \A t \in Task : Status'[t] = Status[t]
        BY <2>2, SameStatus DEF Sends
      <3>2. QED
        BY <3>1, StatusType
    <2>3. CASE UNCHANGED vars
      BY <2>3 DEF vars, callVars, Status, Started
    <2>4. QED
      BY <2>1, <2>2, <2>3, StepIsShaped
  <1>3. QED
    BY <1>1, <1>2, InductiveInvariant, PTL DEF SafeSpec, Lifecycle!SafeSpec
=============================================================================
