----------------------------- MODULE CallDevice -----------------------------
(***************************************************************************)
(* CallService: the app of one device in calls, against any signalling     *)
(* server and media stack. Its handlers are asynchronous functions that    *)
(* interleave at their awaits: each that waits for something is a routine. *)
(* The server's events do not wait for the handler of the one before; as   *)
(* the gateway sends them to every device of both users, whichever device  *)
(* is in the call, and as ids are chosen by clients, all but the answers   *)
(* to this device's own invites may come at any time, about any call, any  *)
(* number of times. So nothing depends on what the app emits, which is     *)
(* left out, as are ICE, ringtones, audio routing and the controls of a    *)
(* call in progress. CallKit's buttons call the same functions as the      *)
(* app's.                                                                  *)
(***************************************************************************)
EXTENDS Rows

CONSTANT Call      \* call identifiers

ASSUME CallAssumption == None \notin Call

VARIABLES
    phase, session,      \* session: a call and whether this user made it
    asked,               \* the invites sent that have no answer yet
    routine,             \* the handlers that await
    preparing,           \* _preparing: the routine whose _preparePeer was shared
    prep,                \* the _preparePeer of each routine
    stale,               \* the preparations begun before the last teardown
    localOf, pcOf,       \* _local and _pc: the preparations that made them
    mic                  \* the preparations whose stream is open

media == <<preparing, prep, stale, localOf, pcOf, mic>>
deviceVars == <<phase, session, asked, routine, media>>

Phases == {"idle", "outgoing", "incoming", "connecting", "active"}
Running == {"opening", "opened", "peering", "tracking"}
NoRoutine == [stage |-> "unused", then |-> None, peer |-> None]

DeviceInit ==
    /\ phase = "idle" /\ session = None /\ asked = {}
    /\ routine = [t \in Task |-> NoRoutine]
    /\ preparing = None /\ localOf = None /\ pcOf = None /\ mic = {}
    /\ prep = [t \in Task |-> "none"] /\ stale = {}

-----------------------------------------------------------------------------
(* _teardown, which runs without an await: the stream is stopped, and what *)
(* is being prepared becomes stale                                         *)
Teardown ==
    /\ phase' = "idle" /\ session' = None
    /\ preparing' = None /\ localOf' = None /\ pcOf' = None
    /\ mic' = mic \ {localOf}
    /\ stale' = {t \in Task : prep[t] # "none"}
    /\ UNCHANGED prep

(* hangup, and reject, which differ in the event they emit                 *)
HangUp ==
    IF phase = "idle" /\ session = None /\ pcOf = None
    THEN UNCHANGED <<phase, session, media>> ELSE Teardown

UserHangsUp == phase # "idle" /\ HangUp /\ UNCHANGED <<asked, routine>>

(* presentIncoming, for call:incoming, a push of it, or the one saved on   *)
(* the device, however late: shown when idle; else ignored or rejected     *)
Present(c) ==
    /\ phase = "idle"
    /\ phase' = "incoming" /\ session' = [call |-> c, caller |-> FALSE]
    /\ UNCHANGED <<asked, routine, media>>

-----------------------------------------------------------------------------
(* Routines *)

Wait(t, stage) == routine' = [routine EXCEPT ![t].stage = stage]
\* What began a preparation is not used again
Done(t) == routine' = [routine EXCEPT ![t] =
    IF prep[t] = "none" THEN NoRoutine ELSE [NoRoutine EXCEPT !.stage = "done"]]

(* Mutant: every caller prepares a peer of its own                         *)
EnsureOwnPeer(t, then) ==
    IF pcOf # None
    THEN /\ routine' = [routine EXCEPT ![t].stage = "joining", ![t].then = then, ![t].peer = None]
         /\ UNCHANGED media
    ELSE /\ routine' = [routine EXCEPT ![t].stage = "joining", ![t].then = then, ![t].peer = t]
         /\ preparing' = t /\ prep' = [prep EXCEPT ![t] = "opening"]
         /\ UNCHANGED <<stale, localOf, pcOf, mic>>

(* _ensurePeer: `if (_pc != null) return; _preparing ??= _preparePeer()'   *)
EnsurePeer(t, then) ==
    LET peer == IF pcOf # None THEN None ELSE IF preparing # None THEN preparing ELSE t IN
    /\ routine' = [routine EXCEPT ![t].stage = "joining", ![t].then = then, ![t].peer = peer]
    /\ IF peer = t
       THEN /\ preparing' = t /\ prep' = [prep EXCEPT ![t] = "opening"]
            /\ UNCHANGED <<stale, localOf, pcOf, mic>>
       ELSE UNCHANGED media

(* startCall, up to the permission prompt                                  *)
StartCall(t) ==
    /\ routine[t].stage = "unused" /\ phase = "idle"
    /\ Wait(t, "asking")
    /\ UNCHANGED <<phase, session, asked, media>>

(* It looks at nothing again once the prompt is answered. The id is drawn; *)
(* that it is a new one makes no difference here.                          *)
PermitCall(t) ==
    /\ routine[t].stage = "asking" /\ Done(t) /\ UNCHANGED media
    /\ \/ UNCHANGED <<phase, session, asked>>
       \/ \E c \in Call :
            /\ session' = [call |-> c, caller |-> TRUE] /\ phase' = "outgoing"
            /\ asked' = asked \cup {c}

(* accept, up to the permission prompt                                     *)
TapAccept(t) ==
    /\ routine[t].stage = "unused" /\ phase = "incoming" /\ session # None
    /\ Wait(t, "prompted")
    /\ UNCHANGED <<phase, session, asked, media>>

(* Denied, it rejects whatever the session is now; granted, it goes on     *)
PermitAccept(t) ==
    /\ routine[t].stage = "prompted" /\ UNCHANGED asked
    /\ \/ Teardown /\ Done(t)
       \/ /\ phase' = "connecting" /\ Wait(t, "audio")
          /\ UNCHANGED <<session, media>>

(* After the audio session and up to four seconds without a socket         *)
SendAccept(t) ==
    /\ routine[t].stage = "audio"
    /\ EnsurePeer(t, "accept")
    /\ UNCHANGED <<phase, session, asked>>

-----------------------------------------------------------------------------
(* _onEvent. Only call:ringing is compared with the session's call.        *)

OnRinging(c) ==
    /\ c \in asked /\ asked' = asked \ {c}
    /\ session' = IF session = None \/ session.call = c THEN session
                  ELSE [call |-> c, caller |-> TRUE]
    /\ UNCHANGED <<phase, routine, media>>

OnBusy(c) == c \in asked /\ asked' = asked \ {c} /\ Teardown /\ UNCHANGED routine

OnEnded == Teardown /\ UNCHANGED <<asked, routine>>

OnAccepted(t) ==
    /\ routine[t].stage = "unused" /\ session # None /\ session.caller
    /\ Wait(t, "silencing")
    /\ UNCHANGED <<phase, session, asked, media>>

OnOffer(t) ==
    /\ routine[t].stage = "unused" /\ session # None
    /\ EnsurePeer(t, "offer")
    /\ UNCHANGED <<phase, session, asked>>

OnAnswer(t) ==
    /\ routine[t].stage = "unused" /\ session # None /\ pcOf # None
    /\ Wait(t, "answered")
    /\ UNCHANGED <<phase, session, asked, media>>

-----------------------------------------------------------------------------
(* The rest of the handlers, after each await *)

(* Mutant: goes on with a session of its own                               *)
SilencedUnchecked(t) ==
    /\ routine[t].stage = "silencing"
    /\ session' = IF session = None THEN [call |-> None, caller |-> TRUE] ELSE session
    /\ phase' = "connecting" /\ EnsurePeer(t, "accepted")
    /\ UNCHANGED asked

(* call:accepted once the ringtone has stopped; a session that has gone    *)
(* is a null error, and a hangup                                           *)
Silenced(t) ==
    /\ routine[t].stage = "silencing" /\ UNCHANGED asked
    /\ IF session = None THEN Teardown /\ Done(t)
       ELSE phase' = "connecting" /\ EnsurePeer(t, "accepted") /\ UNCHANGED session

(* The shared preparation has ended, or there was a peer                   *)
Joined(t) ==
    LET ended == IF routine[t].peer = None THEN "ready" ELSE prep[routine[t].peer]
        then == routine[t].then IN
    /\ routine[t].stage = "joining" /\ ended \notin Running /\ UNCHANGED asked
    /\ IF ended = "failed" /\ then # "offer" THEN HangUp /\ Done(t)
       ELSE /\ IF ended = "failed" \/ then = "accept" \/ session = None \/ pcOf = None
               THEN Done(t)
               ELSE Wait(t, IF then = "offer" THEN "answering" ELSE "offering")
            /\ UNCHANGED <<phase, session, media>>

(* _makeOffer: an error, as when the session has gone, hangs up            *)
OfferMade(t) ==
    /\ routine[t].stage = "offering" /\ Done(t) /\ UNCHANGED asked
    /\ \/ session # None /\ UNCHANGED <<phase, session, media>>
       \/ HangUp

(* _onOffer: the answer is sent, or an error is nobody's                   *)
AnswerMade(t) ==
    /\ routine[t].stage = "answering" /\ Done(t)
    /\ \/ session # None /\ phase' = "connecting"
       \/ UNCHANGED phase
    /\ UNCHANGED <<session, asked, media>>

AnswerTaken(t) ==
    /\ routine[t].stage = "answered" /\ Done(t)
    /\ \/ session # None /\ phase' = "active"
       \/ UNCHANGED phase
    /\ UNCHANGED <<session, asked, media>>

(* onTrack and onConnectionState of the current peer connection            *)
Connected ==
    /\ pcOf # None /\ session # None
    /\ phase' = "active"
    /\ UNCHANGED <<session, asked, routine, media>>

ConnectionFails == pcOf # None /\ session # None /\ HangUp /\ UNCHANGED <<asked, routine>>

-----------------------------------------------------------------------------
(* _preparePeer: each await is followed by a look at the generation        *)

Prepared(p, stage) == prep' = [prep EXCEPT ![p] = stage]
OtherThanMedia == UNCHANGED <<phase, session, asked, routine>>

(* The renderers, then getUserMedia                                        *)
Open(p) ==
    /\ prep[p] = "opening" /\ OtherThanMedia /\ UNCHANGED <<preparing, stale, localOf, pcOf>>
    /\ \/ Prepared(p, "opened") /\ mic' = mic \cup {p}
       \/ p \in stale /\ Prepared(p, "ready") /\ UNCHANGED mic

(* Mutant: no look at the generation                                       *)
InstallAnyway(p) ==
    /\ prep[p] = "opened" /\ OtherThanMedia
    /\ Prepared(p, "peering") /\ localOf' = p
    /\ UNCHANGED <<preparing, stale, pcOf, mic>>

(* The stream is open, its tracks tuned: it is kept, or disposed of        *)
Install(p) ==
    /\ prep[p] = "opened" /\ OtherThanMedia /\ UNCHANGED <<preparing, stale, pcOf>>
    /\ IF p \in stale THEN Prepared(p, "ready") /\ mic' = mic \ {p} /\ UNCHANGED localOf
       ELSE Prepared(p, "peering") /\ localOf' = p /\ UNCHANGED mic

(* createPeerConnection                                                    *)
Connect(p) ==
    /\ prep[p] = "peering" /\ OtherThanMedia /\ UNCHANGED <<preparing, stale, localOf, mic>>
    /\ IF p \in stale THEN Prepared(p, "ready") /\ UNCHANGED pcOf
       ELSE Prepared(p, "tracking") /\ pcOf' = p

AddTracks(p) ==
    /\ prep[p] = "tracking" /\ Prepared(p, "ready")
    /\ OtherThanMedia /\ UNCHANGED <<preparing, stale, localOf, pcOf, mic>>

PrepareFails(p) ==
    /\ prep[p] \in {"opening", "peering", "tracking"} /\ Prepared(p, "failed")
    /\ OtherThanMedia /\ UNCHANGED <<preparing, stale, localOf, pcOf, mic>>

-----------------------------------------------------------------------------
RoutineStep(t) ==
    \/ StartCall(t) \/ PermitCall(t) \/ TapAccept(t) \/ PermitAccept(t) \/ SendAccept(t)
    \/ OnAccepted(t) \/ OnOffer(t) \/ OnAnswer(t) \/ Silenced(t) \/ Joined(t)
    \/ OfferMade(t) \/ AnswerMade(t) \/ AnswerTaken(t)

PrepareStep(p) == Open(p) \/ Install(p) \/ Connect(p) \/ AddTracks(p) \/ PrepareFails(p)

DeviceNext ==
    \/ \E c \in Call : Present(c) \/ OnRinging(c) \/ OnBusy(c)
    \/ \E t \in Task : RoutineStep(t) \/ PrepareStep(t)
    \/ UserHangsUp \/ OnEnded \/ Connected \/ ConnectionFails

DeviceSpec == DeviceInit /\ [][DeviceNext]_deviceVars

-----------------------------------------------------------------------------
(* Properties *)

Routines == [stage : {"unused", "done", "asking", "prompted", "audio", "silencing", "joining",
                      "offering", "answering", "answered"},
             then : {"accept", "accepted", "offer", None},
             peer : Task \cup {None}]

DeviceTypeOK ==
    /\ phase \in Phases
    /\ session \in [call : Call, caller : BOOLEAN] \cup {None}
    /\ routine \in [Task -> Routines]
    /\ {preparing, localOf, pcOf} \subseteq Task \cup {None}
    /\ prep \in [Task -> Running \cup {"none", "ready", "failed"}]
    /\ stale \subseteq Task /\ mic \subseteq Task /\ asked \subseteq Call

(* No microphone is left on: a stream that is open is the one in use, or   *)
(* is in the hands of a preparation that will keep or dispose of it, in    *)
(* whatever order calls end and begin while media is being opened (lines   *)
(* 430-448). The peer connection in use carries that stream.               *)
MicAccountedFor ==
    /\ \A p \in mic : p = localOf \/ prep[p] = "opened"
    /\ pcOf # None => pcOf = localOf

(* An answered call is prepared once, although accept and the offer that   *)
(* follows ask for its peer at the same time (lines 425-428).              *)
OnePreparation ==
    \A p, q \in Task \ stale :
        prep[p] \in Running \cup {"ready"} /\ prep[q] \in Running \cup {"ready"} => p = q

(* call_service lines 846-849: when a call is over the app is idle again.  *)
(* An accept that waits for a permission goes on when the call has ended:  *)
(* the app is connecting, without a session, and opens the microphone.     *)
NoCallNoMedia ==
    session = None => phase = "idle" /\ localOf = None
=============================================================================
