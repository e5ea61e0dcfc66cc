------------------------------- MODULE Calls -------------------------------
(***************************************************************************)
(* One-to-one call signalling on the server: CallsService (calls.service)  *)
(* and the call handlers of RealtimeGateway (realtime.gateway).            *)
(*                                                                         *)
(* The program is one JavaScript event loop: the code between two awaits   *)
(* is one action; a handler with awaits is a task with a stage.            *)
(* `out' holds what the last step emitted, per receiving device.           *)
(***************************************************************************)
EXTENDS FiniteSets

CONSTANTS User, Device, Conv, CallId,
          Task,        \* the onCallInvite handlers, and the call each of them starts
          OwnerOf,     \* the user whose access token a device presents
          MembersOf,   \* the rows of conversation_member, fixed here
          Signals,     \* the WebRTC messages relayed: offer, answer, ice
          None

ASSUME OwnerAssumption == OwnerOf \in [Device -> User]
ASSUME MembersAssumption == MembersOf \in [Conv -> SUBSET User]
ASSUME NoneAssumption == None \notin User \cup Device \cup Conv \cup CallId \cup Task

VARIABLES
    link,     \* a device's socket: "down", "joining" its rooms, or "up" in them
    closing,  \* devices with an old socket whose handleDisconnect is running
    byId,     \* CallsService.byId: the ActiveCall under an id, or None
    answered, \* the ActiveCalls whose state is 'active'; the others ring
    byUser,   \* CallsService.byUser
    timers,   \* CallsService.timers: the call whose handle is kept for an id, or None
    armed,    \* the calls whose ring timer is pending, its handle kept or not
    invite,   \* the onCallInvite tasks
    history,  \* persistCallHistory of each call: its stage, the text of its row
    replaced, \* observation: calls that another start under their id replaced
    rivals,   \* observation: the invites past the busy check when a call started
    out       \* messages emitted by the last step

callVars == <<byId, answered, byUser, timers, armed, history, replaced, rivals>>
vars == <<link, closing, invite, out, callVars>>

Reasons == {"timeout", "cancelled", "rejected", "hangup", "disconnect"}
HistoryTexts == {"declined", "cancelled", "missed", "dropped", "plain", "duration"}
Notices == {"incoming", "ringing", "busy", "accepted", "ended", "push", "row"}
Events == Signals \cup Notices

ASSUME SignalsAssumption == Signals \cap Notices = {}

NoInvite == [stage |-> "unused", dev |-> None, sock |-> "gone",
             conv |-> None, callee |-> None, call |-> None]
Stages == {"unused", "checking", "chosen", "pushing", "done", "busy", "refused"}
InviteTasks ==
    [stage : Stages,
     dev : Device \cup {None}, sock : {"open", "gone"},
     conv : Conv \cup {None}, callee : User \cup {None}, call : CallId \cup {None}]
NoHistory == [stage |-> "none", text |-> "none"]

(* Mutant: reasons written to the row as they are *)
ReasonTextRaw(reason) == reason

ReasonText(reason) ==
    CASE reason = "rejected" -> "declined"
      [] reason = "cancelled" -> "cancelled"
      [] reason = "timeout" -> "missed"
      [] reason = "disconnect" -> "dropped"
      [] reason = "hangup" -> "plain"

(* callHistoryText: an answered call shows its duration, unless the clock  *)
(* has not advanced since it was activated.                                *)
RowTexts(t, reason) ==
    {ReasonText(reason)} \cup (IF t \in answered THEN {"duration"} ELSE {})

-----------------------------------------------------------------------------
Live == {c \in CallId : byId[c] # None}
Ringing(c) == c \in Live /\ byId[c] \notin answered
Started(t) == invite[t].stage \in {"pushing", "done"}

Caller(t) == OwnerOf[invite[t].dev]
Callee(t) == invite[t].callee
Parties(t) == {Caller(t), Callee(t)}
Peer(t, u) == IF u = Caller(t) THEN Callee(t) ELSE Caller(t)

DevicesOf(u) == {d \in Device : OwnerOf[d] = u}
UserRoom(u) == {d \in DevicesOf(u) : link[d] = "up"}
Rooms(t) == UserRoom(Caller(t)) \cup UserRoom(Callee(t))
Msg(devices, event, c) == [to : devices, ev : {event}, call : {c}]

(* Mutant: only a ringing call counts *)
BusyRinging(u) == byUser[u] # None /\ Ringing(byUser[u])

Busy(u) == byUser[u] # None /\ byUser[u] \in Live

-----------------------------------------------------------------------------
Init ==
    /\ link = [d \in Device |-> "down"]
    /\ closing = {}
    /\ byId = [c \in CallId |-> None]
    /\ answered = {}
    /\ byUser = [u \in User |-> None]
    /\ timers = [c \in CallId |-> None]
    /\ armed = {}
    /\ invite = [t \in Task |-> NoInvite]
    /\ history = [t \in Task |-> NoHistory]
    /\ replaced = {}
    /\ rivals = [t \in Task |-> {}]
    /\ out = {}

-----------------------------------------------------------------------------
(* CallsService *)

Observe(t, c) ==
    /\ replaced' = replaced \cup ({byId[c]} \ {None})
    /\ rivals' = [rivals EXCEPT ![t] = {s \in Task \ {t} : invite[s].stage = "chosen"}]


(* The client chooses the id. Whatever call is stored under it is replaced *)
(* unseen: the pointers of its parties stay, and so does its ring timer,   *)
(* whose handle is lost.                                                   *)
StartCall(t, c) ==
    /\ byId' = [byId EXCEPT ![c] = t]
    /\ byUser' = [byUser EXCEPT ![Caller(t)] = c, ![Callee(t)] = c]
    /\ timers' = [timers EXCEPT ![c] = t]
    /\ armed' = armed \cup {t}
    /\ Observe(t, c)
    /\ UNCHANGED answered

(* Mutant: the timer is left armed *)
ActivateTimed(c) ==
    /\ answered' = answered \cup {byId[c]}
    /\ UNCHANGED <<byId, byUser, timers, armed, replaced, rivals>>

Activate(c) ==
    /\ answered' = answered \cup {byId[c]}
    /\ timers' = [timers EXCEPT ![c] = None]
    /\ armed' = armed \ {timers[c]}
    /\ UNCHANGED <<byId, byUser, replaced, rivals>>

(* Mutant: only the caller is freed *)
RemoveCallForCaller(c, fired) ==
    /\ byId' = [byId EXCEPT ![c] = None]
    /\ byUser' = [byUser EXCEPT ![Caller(byId[c])] = IF @ = c THEN None ELSE @]
    /\ timers' = [timers EXCEPT ![c] = None]
    /\ armed' = armed \ (fired \cup {timers[c]})
    /\ UNCHANGED <<answered, replaced, rivals>>

(* Mutant: the parties are freed, whatever call they are busy with *)
RemoveCallUncompared(c, fired) ==
    /\ byId' = [byId EXCEPT ![c] = None]
    /\ byUser' = [u \in User |-> IF u \in Parties(byId[c]) THEN None ELSE byUser[u]]
    /\ timers' = [timers EXCEPT ![c] = None]
    /\ armed' = armed \ (fired \cup {timers[c]})
    /\ UNCHANGED <<answered, replaced, rivals>>

(* end, for the call that is stored under an id                            *)
RemoveCall(c, fired) ==
    /\ byId' = [byId EXCEPT ![c] = None]
    /\ byUser' = [u \in User |->
                    IF u \in Parties(byId[c]) /\ byUser[u] = c THEN None ELSE byUser[u]]
    /\ timers' = [timers EXCEPT ![c] = None]
    /\ armed' = armed \ (fired \cup {timers[c]})
    /\ UNCHANGED <<answered, replaced, rivals>>

(* Mutant: only the callee is told *)
EndCallHalfTold(c, reason) ==
    IF c \notin Live
    THEN out' = {} /\ UNCHANGED callVars
    ELSE /\ RemoveCall(c, {})
         /\ out' = Msg(UserRoom(Callee(byId[c])), "ended", c)
         /\ \E text \in RowTexts(byId[c], reason) :
              history' = [history EXCEPT ![byId[c]] = [stage |-> "saving", text |-> text]]

(* RealtimeGateway.endCall, for a call that may be gone already *)
EndCall(c, reason) ==
    IF c \notin Live
    THEN out' = {} /\ UNCHANGED callVars
    ELSE /\ RemoveCall(c, {})
         /\ out' = Msg(Rooms(byId[c]), "ended", c)
         /\ \E text \in RowTexts(byId[c], reason) :
              history' = [history EXCEPT ![byId[c]] = [stage |-> "saving", text |-> text]]

-----------------------------------------------------------------------------
(* Sockets *)

Connect(d) ==
    /\ link[d] = "down"
    /\ link' = [link EXCEPT ![d] = "joining"]
    /\ out' = {}
    /\ UNCHANGED <<closing, invite, callVars>>

JoinRooms(d) ==
    /\ link[d] = "joining"
    /\ link' = [link EXCEPT ![d] = "up"]
    /\ out' = {}
    /\ UNCHANGED <<closing, invite, callVars>>

(* The transport dies; handleDisconnect follows, possibly long after, when *)
(* the server notices and presence is updated. What a handler still sends  *)
(* to the old socket is lost. At most one old socket per device is open to *)
(* be closed at a time.                                                    *)
Drop(d) ==
    /\ link[d] # "down"
    /\ d \notin closing
    /\ link' = [link EXCEPT ![d] = "down"]
    /\ closing' = closing \cup {d}
    /\ invite' = [t \in Task |->
                   IF invite[t].dev = d THEN [invite[t] EXCEPT !.sock = "gone"] ELSE invite[t]]
    /\ out' = {}
    /\ UNCHANGED callVars

(* handleDisconnect after `await presence.disconnect'. When the lastSeenAt *)
(* update fails, the rest of the handler does not run. It ends whatever    *)
(* call is stored under the id the user is busy with.                      *)
DisconnectReason(c, u) ==
    IF ~Ringing(c) THEN "disconnect"
    ELSE IF u = Caller(byId[c]) THEN "cancelled" ELSE "timeout"

FinishDisconnect(d) ==
    LET u == OwnerOf[d] IN
    /\ d \in closing
    /\ closing' = closing \ {d}
    /\ \/ Busy(u) /\ EndCall(byUser[u], DisconnectReason(byUser[u], u))
       \/ out' = {} /\ UNCHANGED callVars      \* no call, or the update failed
    /\ UNCHANGED <<link, invite>>

-----------------------------------------------------------------------------
(* onCallInvite: the awaits cut it into stages                             *)
(*   unused -> checking -> chosen -> pushing -> done                       *)
(*                      -> busy / refused                                  *)

(* The body's callId is kept if it looks like a uuid, else one is drawn.   *)
(* It may be one that was used before, or that is in use.                  *)
InviteArrives(t, d, c, v) ==
    /\ link[d] # "down"
    /\ invite[t].stage = "unused"
    /\ invite' = [invite EXCEPT ![t] = [stage |-> "checking", dev |-> d, sock |-> "open",
                                        conv |-> v, callee |-> None, call |-> c]]
    /\ out' = {}
    /\ UNCHANGED <<link, closing, callVars>>

Sender(t) == {d \in {invite[t].dev} : invite[t].sock = "open"}   \* client.emit
Others(t) == MembersOf[invite[t].conv] \ {Caller(t)}

(* WsException: not a member, not a 1:1 conversation, or a failed query    *)
InviteRefused(t) ==
    /\ invite[t].stage \in {"checking", "chosen"}
    /\ invite' = [invite EXCEPT ![t].stage = "refused"]
    /\ out' = {}
    /\ UNCHANGED <<link, closing, callVars>>

(* The busy check, after the two membership queries *)
InviteCheck(t) ==
    /\ invite[t].stage = "checking"
    /\ Caller(t) \in MembersOf[invite[t].conv]
    /\ \E callee \in User :
         /\ Others(t) = {callee}
         /\ IF Busy(Caller(t)) \/ Busy(callee)
            THEN /\ invite' = [invite EXCEPT ![t].stage = "busy"]
                 /\ out' = Msg(Sender(t), "busy", invite[t].call)
            ELSE /\ invite' = [invite EXCEPT ![t] =
                                 [invite[t] EXCEPT !.stage = "chosen", !.callee = callee]]
                 /\ out' = {}
    /\ UNCHANGED <<link, closing, callVars>>

(* After `await users.findById`: the call starts, whatever happened since  *)
InviteStart(t) ==
    LET c == invite[t].call IN
    /\ invite[t].stage = "chosen"
    /\ StartCall(t, c)
    /\ invite' = [invite EXCEPT ![t].stage = "pushing"]
    /\ out' = Msg(UserRoom(Callee(t)), "incoming", c) \cup Msg(Sender(t), "ringing", c)
    /\ UNCHANGED <<link, closing, history>>

(* Mutant: nothing is pushed, and no answer given, while the callee is offline *)
InvitePushOnline(t) ==
    /\ invite[t].stage = "pushing"
    /\ UserRoom(Callee(t)) # {}
    /\ invite' = [invite EXCEPT ![t].stage = "done"]
    /\ out' = Msg(UserRoom(Callee(t)), "push", invite[t].call)
    /\ UNCHANGED <<link, closing, callVars>>

(* After the token queries: VoIP, or FCM when no VoIP push was sent. A push *)
(* reaches a device with or without a socket.                               *)
InvitePush(t) ==
    /\ invite[t].stage = "pushing"
    /\ invite' = [invite EXCEPT ![t].stage = "done"]
    /\ \E reached \in SUBSET DevicesOf(Callee(t)) :
         out' = Msg(reached, "push", invite[t].call)
    /\ UNCHANGED <<link, closing, callVars>>

-----------------------------------------------------------------------------
(* The other call handlers. A handler that throws changes nothing.         *)

Throw == out' = {} /\ UNCHANGED callVars

Accept(u, c) ==
    IF c \in Live /\ u = Callee(byId[c])
    THEN /\ Activate(c)
         /\ out' = Msg(UserRoom(Caller(byId[c])), "accepted", c)
         /\ UNCHANGED history
    ELSE Throw

Reject(u, c) == IF c \in Live /\ u \in Parties(byId[c]) THEN EndCall(c, "rejected") ELSE Throw

Cancel(u, c) == IF c \in Live /\ u = Caller(byId[c]) THEN EndCall(c, "cancelled") ELSE Throw

Hangup(u, c) == IF c \in Live /\ u \in Parties(byId[c]) THEN EndCall(c, "hangup") ELSE Throw

(* Mutant: relayed to the peer of any call that has had the id *)
RelayBlindly(u, c, sig) ==
    /\ UNCHANGED callVars
    /\ \E t \in Task : /\ invite[t].call = c /\ Started(t) /\ u \in Parties(t)
                       /\ out' = Msg(UserRoom(Peer(t, u)), sig, c)

Relay(u, c, sig) ==
    IF c \in Live /\ u \in Parties(byId[c])
    THEN out' = Msg(UserRoom(Peer(byId[c], u)), sig, c) /\ UNCHANGED callVars
    ELSE Throw

Handle(d, c) ==
    /\ link[d] # "down"
    /\ \/ Accept(OwnerOf[d], c)
       \/ Reject(OwnerOf[d], c)
       \/ Cancel(OwnerOf[d], c)
       \/ Hangup(OwnerOf[d], c)
       \/ \E sig \in Signals : Relay(OwnerOf[d], c, sig)
    /\ UNCHANGED <<link, closing, invite>>

-----------------------------------------------------------------------------
(* The ring timer of one call: it ends whatever call rings under the id.   *)
(* CallsService removes that call before it calls back, so the callback's  *)
(* endCall finds nothing: no event and no history.                         *)
RingTimeout(t) ==
    LET c == invite[t].call IN
    /\ t \in armed
    /\ IF Ringing(c)
       THEN RemoveCall(c, {t})
       ELSE armed' = armed \ {t} /\ UNCHANGED <<byId, answered, byUser, timers, replaced, rivals>>
    /\ out' = {}
    /\ UNCHANGED <<link, closing, invite, history>>

(* persistCallHistory: the row is inserted, or ignored because the id has  *)
(* one, or the insert fails, which is only logged. The model keeps no rows *)
(* and forgets the text here.                                              *)
SaveHistory(t) ==
    /\ history[t].stage = "saving"
    /\ history' = [history EXCEPT ![t] = [stage |-> "saved", text |-> "none"]]
    /\ out' = {}
    /\ UNCHANGED <<link, closing, invite, byId, answered, byUser, timers, armed, replaced, rivals>>

(* Stored or not, the row is shown to the conversation's room, unless      *)
(* `await users.findById` fails. A socket whose listMine failed is up in   *)
(* its personal room alone, so any part of the members may be reached.     *)
AnnounceHistory(t) ==
    /\ history[t].stage = "saved"
    /\ history' = [history EXCEPT ![t].stage = "done"]
    /\ \E reached \in SUBSET UNION {UserRoom(u) : u \in MembersOf[invite[t].conv]} :
         out' = Msg(reached, "row", invite[t].call)
    /\ UNCHANGED <<link, closing, invite, byId, answered, byUser, timers, armed, replaced, rivals>>

-----------------------------------------------------------------------------
InviteStep(t) ==
    InviteCheck(t) \/ InviteStart(t) \/ InvitePush(t) \/ InviteRefused(t)

Next ==
    \/ \E d \in Device : Connect(d) \/ JoinRooms(d) \/ Drop(d) \/ FinishDisconnect(d)
    \/ \E t \in Task, d \in Device, c \in CallId, v \in Conv : InviteArrives(t, d, c, v)
    \/ \E t \in Task : InviteStep(t)
    \/ \E d \in Device, c \in CallId : Handle(d, c)
    \/ \E t \in Task : RingTimeout(t) \/ SaveHistory(t) \/ AnnounceHistory(t)

SafeSpec == Init /\ [][Next]_vars

(* Node fires due timers and resumes settled promises; nothing is assumed  *)
(* of clients, nor that a socket ever joins its rooms.                     *)
Fairness ==
    \A t \in Task : /\ WF_vars(InviteStep(t))
                    /\ WF_vars(RingTimeout(t))
                    /\ WF_vars(SaveHistory(t) \/ AnnounceHistory(t))

Spec == SafeSpec /\ Fairness

-----------------------------------------------------------------------------
(* Properties *)

TypeOK ==
    /\ link \in [Device -> {"down", "joining", "up"}]
    /\ closing \in SUBSET Device
    /\ byId \in [CallId -> Task \cup {None}]
    /\ answered \in SUBSET Task
    /\ byUser \in [User -> CallId \cup {None}]
    /\ timers \in [CallId -> Task \cup {None}]
    /\ armed \in SUBSET Task
    /\ invite \in [Task -> InviteTasks]
    /\ history \in [Task -> [stage : {"none", "saving", "saved", "done"},
                             text : HistoryTexts \cup {"none"}]]
    /\ replaced \in SUBSET Task
    /\ rivals \in [Task -> SUBSET Task]
    /\ out \in SUBSET [to : Device, ev : Events, call : CallId]

(* The timer kept for an id is that of the call that rings under it, and   *)
(* is pending: no call rings without a timer to stop it, also when the id  *)
(* has been started again, and no answered call has one kept (start,       *)
(* activate and end each maintain three maps by hand).                     *)
RingTimerArmed ==
    \A c \in CallId :
        /\ timers[c] = IF Ringing(c) THEN byId[c] ELSE None
        /\ timers[c] # None => timers[c] \in armed

(* byUser points at a call of the user's own that is live, so nobody stays *)
(* busy after hanging up, even when racing invites overwrote each other's  *)
(* pointers; or at one that another start under its id replaced, whose     *)
(* parties nobody frees.                                                   *)
NoStaleBusy ==
    \A u \in User : byUser[u] # None =>
        \E t \in Task : /\ Started(t) /\ invite[t].call = byUser[u] /\ u \in Parties(t)
                        /\ byId[byUser[u]] = t \/ t \in replaced

(* The user is a party of t, and an invite that had passed the busy check  *)
(* when t started has made another call of the user's.                     *)
Overtaken(t, u) == \E s \in rivals[t] : Started(s) /\ u \in Parties(s)

(* Both parties of a live call are marked busy with it, so that a lost     *)
(* connection ends it and a third party hears call:busy, unless an invite  *)
(* that was already past its busy check when the call started came after.  *)
(* No later invite takes a party's pointer away.                           *)
LiveCallFindable ==
    \A c \in Live : \A u \in Parties(byId[c]) : byUser[u] = c \/ Overtaken(byId[c], u)

(* While the call somebody is busy with is live, nothing makes the user    *)
(* free for another: the end of a call that shares a party leaves the      *)
(* pointer alone (the comparison in CallsService.end).                     *)
BusyUntilOver ==
    [][\A u \in User :
         Busy(u) /\ byId'[byUser[u]] = byId[byUser[u]] =>
            byUser'[u] # None /\ byId'[byUser'[u]] # None]_vars

(* Clients are told of a call's progress only while it is live, and told   *)
(* that it ended exactly by the step that ends it; and only the parties of *)
(* the call that the id then stands for are: no signal of a finished call  *)
(* is relayed, or of somebody else's, and no call:ended is sent twice.     *)
EventsMatchCallState ==
    [][\A m \in out' :
         /\ m.ev \in Signals \cup {"incoming", "ringing", "accepted"} =>
              byId'[m.call] # None /\ OwnerOf[m.to] \in Parties(byId'[m.call])
         /\ m.ev = "ended" =>
              /\ byId[m.call] # None /\ byId'[m.call] = None
              /\ OwnerOf[m.to] \in Parties(byId[m.call])]_vars

(* However an answered call ends, every joined device of both parties is   *)
(* told and a history row is on its way, never one of a missed call: also  *)
(* when a ring timer is left of a call that had the id before. (A start    *)
(* under its id does not end the call; that one goes unheard.)             *)
AnsweredCallEndsLoudly ==
    [][\A c \in CallId :
         c \in Live /\ byId[c] \in answered /\ byId'[c] = None =>
            /\ Msg(Rooms(byId[c]), "ended", c) \subseteq out'
            /\ history'[byId[c]].stage = "saving" /\ history'[byId[c]].text # "missed"]_vars

(* The server keeps the promise of CallLifecycle: a call that an invite    *)
(* starts rings once, is answered at most once, and does not ring forever, *)
(* whatever other calls start under its id.                                *)
Status ==
    [t \in Task |->
        IF ~Started(t) THEN "unknown"
        ELSE IF byId[invite[t].call] # t THEN "over"
        ELSE IF t \in answered THEN "active" ELSE "ringing"]
Lifecycle == INSTANCE CallLifecycle WITH Call <- Task, status <- Status

(* Every invite is eventually rung, called busy, or refused, and every     *)
(* history write settles.                                                  *)
HandlersSettle ==
    \A t \in Task :
        /\ invite[t].stage = "checking" ~> invite[t].stage \in {"busy", "refused", "done"}
        /\ history[t].stage = "saving" ~> history[t].stage = "done"

(* README: "When a call ends, a type: 'call' message is stored so the      *)
(* thread shows voice/video history."  Not so when the ring timer ends it. *)
EndedCallRecorded ==
    \A t \in Task : Status[t] = "over" => t \in replaced \/ history[t].stage # "none"

(* README: "Busy callee gets call:busy": nobody is ever in two live calls. *)
(* Not so: two invites can pass the busy check before either call starts.  *)
ExclusiveCalls ==
    \A c1, c2 \in Live : Parties(byId[c1]) \cap Parties(byId[c2]) # {} => c1 = c2
=============================================================================
