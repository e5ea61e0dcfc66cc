-------------------------- MODULE CallDeviceProofs --------------------------
(***************************************************************************)
(* For any calls and handlers, and whatever the server sends: the app's    *)
(* variables have their types, media is prepared once for a call, and no   *)
(* stream is left open. What is proved of media rests on the generation:   *)
(* what is not stale is what `preparing' names.                            *)
(***************************************************************************)
EXTENDS CallDevice, TLAPS

(* The types of the parts of the state                                     *)
SessionType ==
    /\ phase \in Phases /\ asked \subseteq Call
    /\ session \in [call : Call, caller : BOOLEAN] \cup {None}
RoutineType == routine \in [Task -> Routines]
MediaType ==
    /\ {preparing, localOf, pcOf} \subseteq Task \cup {None}
    /\ prep \in [Task -> Running \cup {"none", "ready", "failed"}]
    /\ stale \subseteq Task /\ mic \subseteq Task

Types == SessionType /\ RoutineType /\ MediaType

-----------------------------------------------------------------------------
(* What the helpers do to types                                            *)

LEMMA TeardownType ==
    ASSUME SessionType, MediaType, Teardown, asked' \subseteq Call
    PROVE  SessionType' /\ MediaType'
  BY DEF Teardown, SessionType, MediaType, Phases

LEMMA HangUpType ==
    ASSUME SessionType, MediaType, HangUp, UNCHANGED asked
    PROVE  SessionType' /\ MediaType'
  <1>1. CASE Teardown
    BY <1>1, TeardownType DEF SessionType
  <1>2. CASE UNCHANGED <<phase, session, media>>
    BY <1>2 DEF SessionType, MediaType, media
  <1>3. QED
    BY <1>1, <1>2 DEF HangUp

LEMMA WaitType ==
    ASSUME RoutineType, NEW t \in Task,
           \/ Done(t)
           \/ \E stage \in {"asking", "prompted", "audio", "silencing", "answering", "offering",
                             "answered"} : Wait(t, stage)
    PROVE  RoutineType'
  BY DEF RoutineType, Done, Wait, Routines, NoRoutine

LEMMA EnsurePeerType ==
    ASSUME RoutineType, MediaType, NEW t \in Task,
           NEW then \in {"accept", "accepted", "offer"}, EnsurePeer(t, then)
    PROVE  RoutineType' /\ MediaType'
  <1> DEFINE peer == IF pcOf # None THEN None ELSE IF preparing # None THEN preparing ELSE t
  <1>1. peer \in Task \cup {None}
    BY DEF MediaType
  <1>2. /\ routine' = [routine EXCEPT ![t].stage = "joining", ![t].then = then, ![t].peer = peer]
        /\ IF peer = t
           THEN /\ preparing' = t /\ prep' = [prep EXCEPT ![t] = "opening"]
                /\ UNCHANGED <<stale, localOf, pcOf, mic>>
           ELSE UNCHANGED media
    BY DEF EnsurePeer
  <1> HIDE DEF peer
  <1>3. RoutineType'
    <2> DEFINE q == [routine[t] EXCEPT !.stage = "joining", !.then = then, !.peer = peer]
    <2>1. routine[t] \in Routines
      BY DEF RoutineType
    <2>2. q \in Routines
      BY <1>1, <2>1 DEF Routines
    <2>3. routine' = [routine EXCEPT ![t] = q]
      BY <1>2 DEF RoutineType
    <2> HIDE DEF q
    <2>4. QED
      BY <2>2, <2>3 DEF RoutineType
  <1>4. MediaType'
    BY <1>2 DEF MediaType, media, Running
  <1>5. QED
    BY <1>3, <1>4

-----------------------------------------------------------------------------
(* Types of each step *)

LEMMA EventTypes ==
    ASSUME Types, NEW c \in Call, Present(c) \/ OnRinging(c) \/ OnBusy(c)
    PROVE  Types'
  <1>1. CASE Present(c) \/ OnRinging(c)
    <2>1. \A b \in BOOLEAN : [call |-> c, caller |-> b] \in [call : Call, caller : BOOLEAN]
      OBVIOUS
    <2>2. SessionType'
      BY <1>1, <2>1 DEF Present, OnRinging, Types, SessionType, Phases
    <2>3. QED
      BY <1>1, <2>2 DEF Present, OnRinging, Types, RoutineType, MediaType, media
  <1>2. CASE OnBusy(c)
    <2>1. Teardown /\ asked' \subseteq Call /\ routine' = routine
      BY <1>2 DEF OnBusy, Types, SessionType
    <2>2. QED
      BY <2>1, TeardownType DEF Types, RoutineType
  <1>3. QED
    BY <1>1, <1>2

LEMMA AnywhereTypes ==
    ASSUME Types, UserHangsUp \/ Connected \/ ConnectionFails
    PROVE  Types'
  <1>1. CASE UserHangsUp \/ ConnectionFails
    BY <1>1, HangUpType DEF UserHangsUp, ConnectionFails, Types, RoutineType
  <1>2. CASE Connected
    BY <1>2 DEF Connected, Types, SessionType, RoutineType, MediaType, Phases, media
  <1>3. QED
    BY <1>1, <1>2

LEMMA PrepareTypes ==
    ASSUME Types, NEW p \in Task, PrepareStep(p)
    PROVE  Types'
  <1>1. MediaType'
    BY DEF PrepareStep, Open, Install, Connect, AddTracks, PrepareFails, Prepared, Types,
       MediaType, Running
  <1>2. UNCHANGED <<phase, session, asked, routine>>
    BY DEF PrepareStep, Open, Install, Connect, AddTracks, PrepareFails, OtherThanMedia
  <1>3. QED
    BY <1>1, <1>2 DEF Types, SessionType, RoutineType

LEMMA CallingTypes ==
    ASSUME Types, NEW t \in Task, StartCall(t) \/ PermitCall(t)
    PROVE  Types'
  <1>1. RoutineType'
    BY WaitType DEF StartCall, PermitCall, Types
  <1>2. MediaType'
    BY DEF StartCall, PermitCall, Types, MediaType, media
  <1>3. SessionType'
    <2>1. \A c \in Call : [call |-> c, caller |-> TRUE] \in [call : Call, caller : BOOLEAN]
      OBVIOUS
    <2>2. QED
      BY <2>1 DEF StartCall, PermitCall, Types, SessionType, Phases
  <1>4. QED
    BY <1>1, <1>2, <1>3 DEF Types

LEMMA AcceptTypes ==
    ASSUME Types, NEW t \in Task, TapAccept(t) \/ PermitAccept(t) \/ SendAccept(t)
    PROVE  Types'
  <1>1. CASE TapAccept(t)
    BY <1>1, WaitType DEF TapAccept, Types, SessionType, MediaType, media
  <1>2. CASE PermitAccept(t)
    <2>1. RoutineType' /\ asked' = asked
      BY <1>2, WaitType DEF PermitAccept, Types
    <2>2. CASE phase' = "connecting" /\ UNCHANGED <<session, media>>
      BY <2>1, <2>2 DEF Types, SessionType, MediaType, media, Phases
    <2>3. CASE Teardown
      BY <2>1, <2>3, TeardownType DEF Types, SessionType
    <2>4. QED
      BY <1>2, <2>2, <2>3 DEF PermitAccept
  <1>3. CASE SendAccept(t)
    BY <1>3, EnsurePeerType DEF SendAccept, Types, SessionType
  <1>4. QED
    BY <1>1, <1>2, <1>3

LEMMA AnsweringTypes ==
    ASSUME Types, NEW t \in Task, OnAccepted(t) \/ OnOffer(t) \/ OnAnswer(t)
    PROVE  Types'
  <1>1. CASE OnAccepted(t) \/ OnAnswer(t)
    BY <1>1, WaitType DEF OnAccepted, OnAnswer, Types, SessionType, MediaType, media
  <1>2. CASE OnOffer(t)
    BY <1>2, EnsurePeerType DEF OnOffer, Types, SessionType
  <1>3. QED
    BY <1>1, <1>2

LEMMA ResumingTypes ==
    ASSUME Types, NEW t \in Task,
           Silenced(t) \/ Joined(t) \/ OfferMade(t) \/ AnswerMade(t) \/ AnswerTaken(t)
    PROVE  Types'
  <1>1. CASE Silenced(t)
    <2>1. CASE session = None
      BY <1>1, <2>1, TeardownType, WaitType DEF Silenced, Types, SessionType
    <2>2. CASE session # None
      BY <1>1, <2>2, EnsurePeerType DEF Silenced, Types, SessionType, Phases
    <2>3. QED
      BY <2>1, <2>2
  <1>2. CASE Joined(t) \/ OfferMade(t)
    <2>1. RoutineType' /\ asked' = asked
      BY <1>2, WaitType DEF Joined, OfferMade, Types
    <2>2. HangUp \/ UNCHANGED <<phase, session, media>>
      BY <1>2 DEF Joined, OfferMade
    <2>3. QED
      BY <2>1, <2>2, HangUpType DEF Types, SessionType, MediaType, media
  <1>3. CASE AnswerMade(t) \/ AnswerTaken(t)
    BY <1>3, WaitType DEF AnswerMade, AnswerTaken, Types, SessionType, MediaType, media, Phases
  <1>4. QED
    BY <1>1, <1>2, <1>3

LEMMA NextTypes == Types /\ [DeviceNext]_deviceVars => Types'
  <1>1. ASSUME Types, UNCHANGED deviceVars PROVE Types'
    BY <1>1 DEF Types, SessionType, RoutineType, MediaType, deviceVars, media
  <1>2. ASSUME Types, OnEnded PROVE Types'
    BY <1>2, TeardownType DEF OnEnded, Types, SessionType, RoutineType
  <1>3. ASSUME Types, DeviceNext PROVE Types'
    BY <1>2, <1>3, EventTypes, AnywhereTypes, PrepareTypes, CallingTypes, AcceptTypes,
       AnsweringTypes, ResumingTypes DEF DeviceNext, RoutineStep
  <1>4. QED
    BY <1>1, <1>3

LEMMA InitTypes == DeviceInit => Types
  BY DEF DeviceInit, Types, SessionType, RoutineType, MediaType, Phases, Routines, NoRoutine,
     Running

LEMMA TypesInvariant == DeviceSpec => []Types
  BY InitTypes, NextTypes, PTL DEF DeviceSpec

(* Whatever events, pushes and answers to prompts come, and in whatever    *)
(* order, the app's variables have their types: no handler goes on with a  *)
(* session that has gone (call_service _onEvent).                          *)
THEOREM DeviceTypes == DeviceSpec => []DeviceTypeOK
  <1>1. Types => DeviceTypeOK
    BY DEF Types, SessionType, RoutineType, MediaType, DeviceTypeOK
  <1>2. QED
    BY <1>1, TypesInvariant, PTL

-----------------------------------------------------------------------------
(* Media *)

(* The stages of a routine that has not begun a preparation                *)
Before == {"unused", "asking", "prompted", "audio", "silencing"}

Fresh == \A t \in Task : routine[t].stage \in Before => prep[t] = "none"

(* A preparation that is not stale is the one that is shared; the stream   *)
(* in use is its own, from when it is opened until it is torn down.        *)
InUse ==
    /\ \A p \in stale : prep[p] # "none"
    /\ \A p \in Task \ stale : prep[p] # "none" => p = preparing
    /\ preparing # None => preparing \notin stale /\ prep[preparing] # "none"
    /\ localOf # None =>
         localOf = preparing /\ prep[localOf] \in {"peering", "tracking", "ready", "failed"}
    /\ \A p \in Task \ stale : prep[p] \in {"peering", "tracking"} => localOf = p

MInv == Types /\ Fresh /\ InUse /\ MicAccountedFor

LEMMA InitMedia == DeviceInit => MInv
  BY InitTypes DEF DeviceInit, MInv, Fresh, InUse, MicAccountedFor

LEMMA MediaUntouched ==
    ASSUME MInv, Types', Fresh', UNCHANGED media
    PROVE  MInv'
  BY DEF MInv, InUse, MicAccountedFor, media

(* What is prepared when a call ends becomes stale; a stream in use is     *)
(* stopped, one that is being opened stays in its preparation's hands.     *)
LEMMA TeardownMedia ==
    ASSUME MInv, Types', Fresh', Teardown
    PROVE  MInv'
  <1>1. MicAccountedFor'
    BY DEF MInv, MicAccountedFor, Teardown
  <1>2. InUse'
    BY RowsAssumption DEF InUse, Teardown
  <1>3. QED
    BY <1>1, <1>2 DEF MInv

LEMMA HangUpMedia ==
    ASSUME MInv, Types', Fresh', HangUp
    PROVE  MInv'
  <1>1. Teardown \/ UNCHANGED media
    BY DEF HangUp
  <1>2. QED
    BY <1>1, TeardownMedia, MediaUntouched

LEMMA StillFresh ==
    ASSUME MInv, prep' = prep, NEW t \in Task,
           \/ Done(t)
           \/ \E stage \in {"answering", "offering", "answered"} : Wait(t, stage)
           \/ /\ routine[t].stage \in Before
              /\ \E stage \in Before : Wait(t, stage)
    PROVE  Fresh'
  <1>1. routine \in [Task -> Routines]
    BY DEF MInv, Types, RoutineType
  <1>2. CASE Done(t)
    BY <1>1, <1>2 DEF MInv, Fresh, Done, Before, NoRoutine
  <1>3. CASE \/ \E stage \in {"answering", "offering", "answered"} : Wait(t, stage)
             \/ /\ routine[t].stage \in Before
                /\ \E stage \in Before : Wait(t, stage)
    <2>1. PICK stage : /\ Wait(t, stage)
                       /\ stage \in Before => routine[t].stage \in Before
      BY <1>3 DEF Before
    <2>2. \A s \in Task : s # t => routine'[s] = routine[s]
      BY <1>1, <2>1 DEF Wait
    <2>3. routine'[t].stage = stage
      BY <1>1, <2>1 DEF Wait, Routines
    <2>4. QED
      BY <2>1, <2>2, <2>3 DEF MInv, Fresh
  <1>4. QED
    BY <1>2, <1>3

(* A handler that needs the peer begins a preparation only when there is   *)
(* none to share.                                                          *)
LEMMA EnsurePeerMedia ==
    ASSUME MInv, Types', NEW t \in Task, NEW then \in {"accept", "accepted", "offer"},
           routine[t].stage \in Before, EnsurePeer(t, then)
    PROVE  MInv'
  <1> DEFINE peer == IF pcOf # None THEN None ELSE IF preparing # None THEN preparing ELSE t
  <1>1. /\ routine' = [routine EXCEPT ![t].stage = "joining", ![t].then = then, ![t].peer = peer]
        /\ IF peer = t
           THEN /\ preparing' = t /\ prep' = [prep EXCEPT ![t] = "opening"]
                /\ UNCHANGED <<stale, localOf, pcOf, mic>>
           ELSE UNCHANGED media
    BY DEF EnsurePeer
  <1>2. routine \in [Task -> Routines] /\ prep[t] = "none" /\ t \notin stale
    BY DEF MInv, Types, RoutineType, Fresh, InUse
  <1>3. \A s \in Task : /\ s # t => routine'[s] = routine[s]
                        /\ s = t => routine'[s].stage = "joining"
    <2> HIDE DEF peer
    <2>1. QED
      BY <1>1, <1>2 DEF Routines
  <1>4. CASE peer = t
    <2>1. preparing = None /\ pcOf = None /\ localOf = None
      BY <1>2, <1>4, RowsAssumption DEF MInv, InUse
    <2>2. /\ preparing' = t /\ prep' = [prep EXCEPT ![t] = "opening"]
          /\ UNCHANGED <<stale, localOf, pcOf, mic>>
      BY <1>1, <1>4
    <2>3. prep \in [Task -> Running \cup {"none", "ready", "failed"}] /\ stale \subseteq Task
          /\ mic \subseteq Task
      BY DEF MInv, Types, MediaType
    <2>4. Fresh'
      BY <1>3, <2>2, <2>3 DEF MInv, Fresh, Before
    <2>5. InUse'
      <3>1. \A q \in Task : q # t => prep'[q] = prep[q]
        BY <2>2, <2>3
      <3>2. prep'[t] = "opening"
        BY <2>2, <2>3
      <3>3. \A q \in Task \ stale : prep[q] = "none"
        BY <2>1, RowsAssumption DEF MInv, InUse
      <3>4. \A q \in stale : prep'[q] # "none"
        BY <1>2, <2>3, <3>1 DEF MInv, InUse
      <3>5. QED
        BY <1>2, <2>1, <2>2, <2>3, <3>1, <3>2, <3>3, <3>4 DEF InUse
    <2>6. MicAccountedFor'
      BY <1>2, <2>1, <2>2, <2>3 DEF MInv, MicAccountedFor
    <2>7. QED
      BY <2>4, <2>5, <2>6 DEF MInv
  <1>5. CASE peer # t
    <2>1. UNCHANGED media
      BY <1>1, <1>5
    <2>2. Fresh'
      BY <1>3, <2>1 DEF MInv, Fresh, Before, media
    <2>3. QED
      BY <2>1, <2>2, MediaUntouched
  <1>6. QED
    BY <1>4, <1>5

(* _preparePeer: after an await it keeps nothing if it has become stale,   *)
(* and else it is the one whose stream is in use.                          *)
LEMMA PrepareMedia ==
    ASSUME MInv, Types', NEW p \in Task, PrepareStep(p)
    PROVE  MInv'
  <1>1. /\ prep \in [Task -> Running \cup {"none", "ready", "failed"}]
        /\ stale \subseteq Task /\ mic \subseteq Task
        /\ routine' = routine /\ None \notin Task
    BY RowsAssumption DEF MInv, Types, MediaType, PrepareStep, Open, Install, Connect, AddTracks,
       PrepareFails, OtherThanMedia
  <1>2. Fresh'
    BY <1>1 DEF MInv, Fresh, PrepareStep, Open, Install, Connect, AddTracks, PrepareFails, Prepared
  <1>3. InUse'
    <2>1. PICK stage : /\ Prepared(p, stage)
                       /\ stage \in {"opened", "peering", "tracking", "ready", "failed"}
      BY DEF PrepareStep, Open, Install, Connect, AddTracks, PrepareFails
    <2>2. prep'[p] = stage /\ \A q \in Task : q # p => prep'[q] = prep[q]
      BY <1>1, <2>1 DEF Prepared
    <2>3. UNCHANGED <<stale, preparing>> /\ prep[p] # "none"
      BY DEF PrepareStep, Open, Install, Connect, AddTracks, PrepareFails, Running
    <2>4. /\ \A q \in stale' : prep'[q] # "none"
          /\ \A q \in Task \ stale' : prep'[q] # "none" => q = preparing'
          /\ preparing' # None => preparing' \notin stale' /\ prep'[preparing'] # "none"
      BY <1>1, <2>1, <2>2, <2>3 DEF MInv, InUse, Types, MediaType
    <2>5. \A q \in Task \ stale' : prep'[q] \in {"peering", "tracking"} => localOf' = q
      <3>1. CASE Open(p)
        BY <1>1, <2>2, <2>3, <3>1 DEF MInv, InUse, Open, Prepared
      <3>2. CASE Install(p)
        BY <1>1, <2>2, <2>3, <3>2 DEF MInv, InUse, Install, Prepared
      <3>3. CASE Connect(p) \/ AddTracks(p) \/ PrepareFails(p)
        BY <1>1, <2>2, <2>3, <3>3 DEF MInv, InUse, Connect, AddTracks, PrepareFails, Prepared
      <3>4. QED
        BY <3>1, <3>2, <3>3 DEF PrepareStep
    <2>6. localOf' # None =>
            /\ localOf' = preparing'
            /\ prep'[localOf'] \in {"peering", "tracking", "ready", "failed"}
      <3>1. CASE Open(p)
        BY <1>1, <2>2, <2>3, <3>1 DEF MInv, InUse, Types, MediaType, Open, Prepared
      <3>2. CASE Install(p)
        BY <1>1, <2>2, <2>3, <3>2 DEF MInv, InUse, Types, MediaType, Install, Prepared
      <3>3. CASE Connect(p) \/ AddTracks(p) \/ PrepareFails(p)
        BY <1>1, <2>2, <2>3, <3>3 DEF MInv, InUse, Types, MediaType, Connect, AddTracks,
           PrepareFails, Prepared
      <3>4. QED
        BY <3>1, <3>2, <3>3 DEF PrepareStep
    <2>7. QED
      BY <2>4, <2>5, <2>6 DEF InUse
  <1>4. MicAccountedFor'
    BY <1>1 DEF MInv, InUse, MicAccountedFor, PrepareStep, Open, Install, Connect, AddTracks,
       PrepareFails, Prepared
  <1>5. QED
    BY <1>2, <1>3, <1>4 DEF MInv

LEMMA RoutineMedia ==
    ASSUME MInv, Types', NEW t \in Task, RoutineStep(t)
    PROVE  MInv'
  <1>1. CASE StartCall(t) \/ PermitCall(t)
    <2>1. UNCHANGED media /\ prep' = prep
      BY <1>1 DEF StartCall, PermitCall, media
    <2>2. Fresh'
      BY <1>1, <2>1, StillFresh DEF StartCall, PermitCall, Before
    <2>3. QED
      BY <2>1, <2>2, MediaUntouched
  <1>2. CASE TapAccept(t)
    <2>1. UNCHANGED media /\ prep' = prep
      BY <1>2 DEF TapAccept, media
    <2>2. Fresh'
      BY <1>2, <2>1, StillFresh DEF TapAccept, Before
    <2>3. QED
      BY <2>1, <2>2, MediaUntouched
  <1>3. CASE PermitAccept(t)
    <2>1. prep' = prep
      BY <1>3 DEF PermitAccept, Teardown, media
    <2>2. Fresh'
      BY <1>3, <2>1, StillFresh DEF PermitAccept, Before
    <2>3. QED
      BY <1>3, <2>2, TeardownMedia, MediaUntouched DEF PermitAccept
  <1>4. CASE SendAccept(t)
    BY <1>4, EnsurePeerMedia DEF SendAccept, Before
  <1>5. CASE OnAccepted(t) \/ OnAnswer(t)
    <2>1. UNCHANGED media /\ prep' = prep
      BY <1>5 DEF OnAccepted, OnAnswer, media
    <2>2. Fresh'
      BY <1>5, <2>1, StillFresh DEF OnAccepted, OnAnswer, Before
    <2>3. QED
      BY <2>1, <2>2, MediaUntouched
  <1>6. CASE OnOffer(t)
    BY <1>6, EnsurePeerMedia DEF OnOffer, Before
  <1>7. CASE Silenced(t)
    <2>1. CASE session = None
      <3>1. Teardown /\ Done(t) /\ prep' = prep
        BY <1>7, <2>1 DEF Silenced, Teardown
      <3>2. QED
        BY <3>1, StillFresh, TeardownMedia
    <2>2. CASE session # None
      BY <1>7, <2>2, EnsurePeerMedia DEF Silenced, Before
    <2>3. QED
      BY <2>1, <2>2
  <1>8. CASE Joined(t) \/ OfferMade(t)
    <2>1. prep' = prep /\ (HangUp \/ UNCHANGED media)
      BY <1>8 DEF Joined, OfferMade, HangUp, Teardown, media
    <2>2. Fresh'
      BY <1>8, <2>1, StillFresh DEF Joined, OfferMade
    <2>3. QED
      BY <2>1, <2>2, HangUpMedia, MediaUntouched
  <1>9. CASE AnswerMade(t) \/ AnswerTaken(t)
    <2>1. UNCHANGED media /\ prep' = prep /\ Done(t)
      BY <1>9 DEF AnswerMade, AnswerTaken, media
    <2>2. QED
      BY <2>1, StillFresh, MediaUntouched
  <1>10. QED
    BY <1>1, <1>2, <1>3, <1>4, <1>5, <1>6, <1>7, <1>8, <1>9 DEF RoutineStep

LEMMA NextMedia == MInv /\ [DeviceNext]_deviceVars => MInv'
  <1> SUFFICES ASSUME MInv, [DeviceNext]_deviceVars PROVE MInv'
    OBVIOUS
  <1>1. Types'
    BY NextTypes DEF MInv
  <1>2. CASE UNCHANGED <<routine, media>>
    BY <1>1, <1>2, MediaUntouched DEF MInv, Fresh, media
  <1>3. CASE \E c \in Call : Present(c) \/ OnRinging(c)
    BY <1>2, <1>3 DEF Present, OnRinging
  <1>4. CASE \E t \in Task : RoutineStep(t) \/ PrepareStep(t)
    BY <1>1, <1>4, RoutineMedia, PrepareMedia
  <1>5. CASE Connected
    BY <1>2, <1>5 DEF Connected
  <1>6. CASE UserHangsUp \/ ConnectionFails \/ OnEnded \/ \E c \in Call : OnBusy(c)
    <2>1. routine' = routine /\ prep' = prep /\ (HangUp \/ Teardown)
      BY <1>6 DEF UserHangsUp, ConnectionFails, OnEnded, OnBusy, HangUp, Teardown, media
    <2>2. Fresh'
      BY <2>1 DEF MInv, Fresh
    <2>3. QED
      BY <1>1, <2>1, <2>2, HangUpMedia, TeardownMedia
  <1>7. CASE UNCHANGED deviceVars
    BY <1>2, <1>7 DEF deviceVars
  <1>8. QED
    BY <1>3, <1>4, <1>5, <1>6, <1>7 DEF DeviceNext

LEMMA MediaInvariant == DeviceSpec => []MInv
  BY InitMedia, NextMedia, PTL DEF DeviceSpec

(* No stream is left open by calls that end while it is being opened, and  *)
(* the peer connection in use carries the stream in use (call_service      *)
(* _preparePeer, _teardown).                                               *)
THEOREM MicrophonesAccountedFor == DeviceSpec => []MicAccountedFor
  BY MediaInvariant, PTL DEF MInv

(* Handlers of one call that need its peer at the same time share one      *)
(* preparation (call_service _ensurePeer).                                 *)
THEOREM PreparedOnce == DeviceSpec => []OnePreparation
  <1>1. MInv => OnePreparation
    BY DEF MInv, InUse, OnePreparation, Running
  <1>2. QED
    BY <1>1, MediaInvariant, PTL
=============================================================================
