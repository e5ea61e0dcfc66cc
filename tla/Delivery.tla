------------------------------ MODULE Delivery ------------------------------
(***************************************************************************)
(* Presence, rooms and message:send of RealtimeGateway (realtime.gateway), *)
(* with PresenceService and the conversations a client may join.           *)
(*                                                                         *)
(* A socket is one connection: a device that reconnects does so with a new *)
(* socket. handleConnection, handleDisconnect, conversation:join and       *)
(* message:send are tasks whose awaits separate their actions; any of them *)
(* may fail where it awaits a query. Joining a room is immediate, although *)
(* the code awaits it; an await that turns out to need no query (presence. *)
(* disconnect of a socket that is not the user's last) is taken to wait    *)
(* like any other.                                                         *)
(***************************************************************************)
CONSTANTS User, Socket, Conv, Message,
          OwnerOf,     \* the user whose access token a socket presents
          Groups,      \* the member sets that conversations are created with
          None

ASSUME OwnerAssumption == OwnerOf \in [Socket -> User]
ASSUME GroupsAssumption == Groups \subseteq SUBSET User \ {{}}
ASSUME NoneAssumption == None \notin Socket \cup Conv

VARIABLES
    net,       \* a socket's connection, with the stage of handleDisconnect
    shake,     \* the stage of a socket's handleConnection
    found,     \* the conversations its listMine returned
    sockets,   \* PresenceService.sockets
    rooms,     \* conversation rooms: the connected sockets in each
    members,   \* the member rows of each conversation, none before it exists
    shown,     \* the last presence:update broadcast of each user
    task       \* the message:send task of each message

presenceVars == <<net, shake, found, sockets, shown>>
vars == <<net, shake, found, sockets, rooms, members, shown, task>>

Nets == {"new", "open", "closing", "closingLast", "closed", "broken"}
Shakes == {"idle", "presence", "listing", "joining", "joined", "stranded", "failed"}
Stages == {"unused", "checking", "persisting", "mentioning", "fanning",
           "done", "refused", "unpushed"}
NoTask == [stage |-> "unused", sock |-> None, conv |-> None,
           heard |-> {}, pushed |-> {}]

Online(u) == sockets[u] # {}
Sender(m) == OwnerOf[task[m].sock]

Init ==
    /\ net = [s \in Socket |-> "new"]
    /\ shake = [s \in Socket |-> "idle"]
    /\ found = [s \in Socket |-> {}]
    /\ sockets = [u \in User |-> {}]
    /\ rooms = [v \in Conv |-> {}]
    /\ members = [v \in Conv |-> {}]
    /\ shown = [u \in User |-> "offline"]
    /\ task = [m \in Message |-> NoTask]

-----------------------------------------------------------------------------
(* handleConnection. It runs on even if its socket has gone meanwhile.     *)

Connect(s) ==
    /\ net[s] = "new"
    /\ net' = [net EXCEPT ![s] = "open"]
    /\ shake' = [shake EXCEPT ![s] = "presence"]
    /\ sockets' = [sockets EXCEPT ![OwnerOf[s]] = @ \cup {s}]
    /\ UNCHANGED <<found, rooms, members, shown, task>>

(* Mutant: the socket is tracked only after the await *)
TouchedThenTracked(s) ==
    /\ shake[s] = "presence"
    /\ shake' = [shake EXCEPT ![s] = "listing"]
    /\ sockets' = [sockets EXCEPT ![OwnerOf[s]] = @ \cup {s}]
    /\ UNCHANGED <<net, found, rooms, members, shown, task>>

(* `await users.touchLastSeen'; if it fails, the socket stays connected    *)
(* and present, and joins nothing.                                         *)
Touched(s) ==
    /\ shake[s] = "presence"
    /\ \E next \in {"listing", "failed"} : shake' = [shake EXCEPT ![s] = next]
    /\ UNCHANGED <<net, found, sockets, rooms, members, shown, task>>

(* `await conversations.listMine'; if it fails, the socket is left in its  *)
(* personal room alone.                                                    *)
List(s) ==
    /\ shake[s] = "listing"
    /\ \/ /\ shake' = [shake EXCEPT ![s] = "joining"]
          /\ found' = [found EXCEPT ![s] = {v \in Conv : OwnerOf[s] \in members[v]}]
       \/ /\ shake' = [shake EXCEPT ![s] = "stranded"]
          /\ UNCHANGED found
    /\ UNCHANGED <<net, sockets, rooms, members, shown, task>>

(* A socket that is gone joins to no effect.                               *)
Enter(s, convs) ==
    rooms' = [v \in Conv |->
                IF v \in convs /\ net[s] = "open" THEN rooms[v] \cup {s} ELSE rooms[v]]

(* Mutant: presence is never announced *)
JoinSilently(s) ==
    /\ shake[s] = "joining"
    /\ shake' = [shake EXCEPT ![s] = "joined"]
    /\ Enter(s, found[s])
    /\ UNCHANGED <<net, found, sockets, members, shown, task>>

Join(s) ==
    /\ shake[s] = "joining"
    /\ shake' = [shake EXCEPT ![s] = "joined"]
    /\ Enter(s, found[s])
    /\ shown' = [shown EXCEPT ![OwnerOf[s]] = "online"]
    /\ UNCHANGED <<net, found, sockets, members, task>>

-----------------------------------------------------------------------------
(* handleDisconnect. Socket.io has taken the socket out of its rooms when  *)
(* it calls it.                                                            *)

Drop(s) ==
    LET rest == sockets[OwnerOf[s]] \ {s} IN
    /\ net[s] = "open"
    /\ net' = [net EXCEPT ![s] = IF rest = {} THEN "closingLast" ELSE "closing"]
    /\ sockets' = [sockets EXCEPT ![OwnerOf[s]] = rest]
    /\ rooms' = [v \in Conv |-> rooms[v] \ {s}]
    /\ UNCHANGED <<shake, found, members, shown, task>>

(* Mutant: what was true before the await is taken to be true after it *)
FinishDisconnectUnchecked(s) ==
    /\ net[s] \in {"closing", "closingLast"}
    /\ net' = [net EXCEPT ![s] = "closed"]
    /\ shown' = IF net[s] = "closing" THEN shown
                ELSE [shown EXCEPT ![OwnerOf[s]] = "offline"]
    /\ UNCHANGED <<shake, found, sockets, rooms, members, task>>

FinishDisconnect(s) ==
    /\ net[s] \in {"closing", "closingLast"}
    /\ net' = [net EXCEPT ![s] = "closed"]
    /\ shown' = IF Online(OwnerOf[s]) THEN shown
                ELSE [shown EXCEPT ![OwnerOf[s]] = "offline"]
    /\ UNCHANGED <<shake, found, sockets, rooms, members, task>>

(* The lastSeenAt update, made for a user's last socket only, fails.       *)
DisconnectFails(s) ==
    /\ net[s] = "closingLast"
    /\ net' = [net EXCEPT ![s] = "broken"]
    /\ UNCHANGED <<shake, found, sockets, rooms, members, shown, task>>

-----------------------------------------------------------------------------
(* Conversations appear (POST private, POST group) and grow (POST members),*)
(* and a client may then ask to join; one that was added is not told of it.*)

Create(v) ==
    /\ members[v] = {}
    /\ \E group \in Groups : members' = [members EXCEPT ![v] = group]
    /\ UNCHANGED <<presenceVars, rooms, task>>

(* addMembers, by some member; nothing calls removeMember.                 *)
AddMembers(v, new) ==
    /\ members[v] # {}
    /\ members' = [members EXCEPT ![v] = @ \cup new]
    /\ UNCHANGED <<presenceVars, rooms, task>>

(* conversation:join. Its membership check and its join are one step: rows *)
(* of members are never deleted, and a socket lost between them joins to   *)
(* no effect.                                                              *)
JoinRoom(s, v) ==
    /\ s \notin rooms[v]
    /\ OwnerOf[s] \in members[v]
    /\ net[s] = "open"
    /\ rooms' = [rooms EXCEPT ![v] = @ \cup {s}]
    /\ UNCHANGED <<presenceVars, members, task>>

-----------------------------------------------------------------------------
(* message:send                                                            *)
(*   unused -> checking -> persisting -> [mentioning ->] fanning -> done   *)
(*                      -> refused                    -> unpushed          *)

Send(s, v, m) ==
    /\ net[s] = "open"
    /\ task[m].stage = "unused"
    /\ task' = [task EXCEPT ![m].stage = "checking", ![m].sock = s, ![m].conv = v]
    /\ UNCHANGED <<presenceVars, rooms, members>>

(* Mutant: an outsider's message is left unanswered *)
CheckMember(m) ==
    /\ task[m].stage = "checking"
    /\ Sender(m) \in members[task[m].conv]
    /\ task' = [task EXCEPT ![m].stage = "persisting"]
    /\ UNCHANGED <<presenceVars, rooms, members>>

(* isMember, then the sender, the media and the message replied to         *)
Check(m) ==
    /\ task[m].stage = "checking"
    /\ \/ /\ Sender(m) \in members[task[m].conv]
          /\ task' = [task EXCEPT ![m].stage = "persisting"]
       \/ task' = [task EXCEPT ![m].stage = "refused"]
    /\ UNCHANGED <<presenceVars, rooms, members>>

(* Mutant: sockets are counted, not their users *)
HeardSockets(m) == rooms[task[m].conv]

Heard(m) == {OwnerOf[s] : s \in rooms[task[m].conv]}

(* `await messages.persist', whose failure is logged; then the broadcast.  *)
(* The sender is acknowledged either way. With mentions in the text, their *)
(* users are looked up next.                                               *)
Emit(m) ==
    /\ task[m].stage = "persisting"
    /\ \E next \in {"mentioning", "fanning"} :
         task' = [task EXCEPT ![m].stage = next, ![m].heard = Heard(m)]
    /\ UNCHANGED <<presenceVars, rooms, members>>

(* resolveMentions and its mention:new events; its failure ends the task   *)
Mention(m) ==
    /\ task[m].stage = "mentioning"
    /\ \E next \in {"fanning", "unpushed"} : task' = [task EXCEPT ![m].stage = next]
    /\ UNCHANGED <<presenceVars, rooms, members>>

(* deliverPushForOffline after `await getMemberIds'; a failure is logged.  *)
Offline(m) == {u \in members[task[m].conv] \ {Sender(m)} : ~Online(u)}
FanOut(m) ==
    /\ task[m].stage = "fanning"
    /\ \/ task' = [task EXCEPT ![m].stage = "done", ![m].pushed = Offline(m)]
       \/ task' = [task EXCEPT ![m].stage = "unpushed"]
    /\ UNCHANGED <<presenceVars, rooms, members>>

-----------------------------------------------------------------------------
HandleConnection(s) == Touched(s) \/ List(s) \/ Join(s)
HandleDisconnect(s) == FinishDisconnect(s) \/ DisconnectFails(s)
SendStep(m) == Check(m) \/ Emit(m) \/ Mention(m) \/ FanOut(m)

Next ==
    \/ \E s \in Socket : Connect(s) \/ HandleConnection(s) \/ Drop(s) \/ HandleDisconnect(s)
    \/ \E v \in Conv : Create(v) \/ \E new \in SUBSET (User \ members[v]) : AddMembers(v, new)
    \/ \E s \in Socket, v \in Conv : JoinRoom(s, v)
    \/ \E s \in Socket, v \in Conv, m \in Message : Send(s, v, m)
    \/ \E m \in Message : SendStep(m)

SafeSpec == Init /\ [][Next]_vars

(* Settled promises are resumed; nothing is assumed of clients.            *)
Fairness ==
    /\ \A s \in Socket : WF_vars(HandleConnection(s)) /\ WF_vars(HandleDisconnect(s))
    /\ \A m \in Message : WF_vars(SendStep(m))

Spec == SafeSpec /\ Fairness

-----------------------------------------------------------------------------
(* Properties *)

TypeOK ==
    /\ net \in [Socket -> Nets]
    /\ shake \in [Socket -> Shakes]
    /\ found \in [Socket -> SUBSET Conv]
    /\ sockets \in [User -> SUBSET Socket]
    /\ rooms \in [Conv -> SUBSET Socket]
    /\ members \in [Conv -> SUBSET User]
    /\ shown \in [User -> {"online", "offline"}]
    /\ task \in [Message -> [stage : Stages, sock : Socket \cup {None}, conv : Conv \cup {None},
                             heard : SUBSET User, pushed : SUBSET User]]

(* The sockets a push decision looks at are the connected ones, and only   *)
(* these are in rooms, although joins and disconnections of one socket     *)
(* are separate tasks: no socket is left behind as present, or in a room.  *)
PresenceExact ==
    /\ \A u \in User : sockets[u] = {s \in Socket : OwnerOf[s] = u /\ net[s] = "open"}
    /\ \A v \in Conv : \A s \in rooms[v] : net[s] = "open" /\ OwnerOf[s] \in members[v]

(* Whoever has a socket that is connected and in its rooms was last shown  *)
(* online, whatever handlers of older sockets still run: the disconnection *)
(* handler looks again after its await (gateway line 104).                 *)
JoinedShownOnline ==
    \A s \in Socket : net[s] = "open" /\ shake[s] = "joined" => shown[OwnerOf[s]] = "online"

(* Every message is eventually refused, or taken through its push fan-out, *)
(* and every connection handler comes to an end.                           *)
HandlersSettle ==
    /\ \A m \in Message :
         task[m].stage = "checking" ~> task[m].stage \in {"refused", "done", "unpushed"}
    /\ \A s \in Socket :
         shake[s] = "presence" ~> shake[s] \in {"joined", "stranded", "failed"}

(* presence.service: the sockets tracked decide "live socket delivery vs.  *)
(* FCM push for offline recipients". Every member but the sender should    *)
(* get one or the other when nothing failed; one that is connected but not *)
(* in the room gets neither.                                               *)
NobodyMissed ==
    [][\A m \in Message : task[m].stage = "fanning" /\ task'[m].stage = "done" =>
           members[task[m].conv] \ {Sender(m)} \subseteq task[m].heard \cup task'[m].pushed]_vars

(* presence.service: presence is exposed to other clients. A user all of   *)
(* whose sockets are closed, with no handler left to run, should not be    *)
(* shown online; one whose connection handler outlived its socket is.      *)
GoneShownOffline ==
    \A u \in User :
        (\A s \in Socket : OwnerOf[s] = u =>
            /\ net[s] \in {"new", "closed"}
            /\ shake[s] \in {"idle", "joined", "stranded", "failed"})
        => shown[u] = "offline"
=============================================================================
