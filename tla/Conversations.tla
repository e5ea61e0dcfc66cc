---------------------------- MODULE Conversations ----------------------------
(***************************************************************************)
(* Conversations and their members: createPrivate, createGroup and         *)
(* addMembers of ConversationsService, as requests whose awaits separate   *)
(* their actions and may fail. conversation_member has the primary key     *)
(* (conversation, user); a TypeORM save of new members is a SELECT by key, *)
(* then one transaction that inserts those it did not find. Nothing calls  *)
(* removeMember, so members never leave.                                   *)
(*                                                                         *)
(*   unused -> asked -> saving -> peopling -> viewing -> done              *)
(*             asked -> viewing -> done       (a private one is reused)    *)
(*             asked -> selecting -> inserting -> done          (members)  *)
(*             asked -> done | refused;   failed from any of them          *)
(***************************************************************************)
EXTENDS Rows

CONSTANTS User,
          Invited     \* the sets of users that groups and additions name

ASSUME InvitedAssumption ==
    None \notin User \cup {"private", "group"} /\ Invited \subseteq SUBSET User

VARIABLES
    convRows,     \* the type of the conversation row each task made
    memberRows,   \* conversation_member
    request       \* the requests

convVars == <<convRows, memberRows, request>>

Making == {"private", "group"}
Active == {"asked", "saving", "peopling", "viewing", "selecting", "inserting"}
RequestStages == Active \cup {"unused", "done", "refused", "failed"}

\* `by': who adds members (who makes a conversation is one of its people)
\* `rivals': the other requests for a private conversation of the same two
\* that were under way while this one was (an observation)
NoRequest == [stage |-> "unused", kind |-> "private", by |-> None, people |-> {},
              conv |-> None, fresh |-> {}, rivals |-> {}]

MembersOf(c) == {u \in User : <<c, u>> \in memberRows}

ConversationsInit ==
    /\ convRows = [c \in Task |-> None]
    /\ memberRows = {}
    /\ request = [t \in Task |-> NoRequest]

-----------------------------------------------------------------------------
Is(t, kind, stage) == request[t].kind = kind /\ request[t].stage = stage
Turn(t, stage) == request' = [request EXCEPT ![t].stage = stage]
Stop(t, stage) == request' = [request EXCEPT ![t] = [NoRequest EXCEPT !.stage = stage]]

Ask(t, r) ==
    LET rivals == {s \in Task : /\ request[s].stage \in Active
                                /\ r.kind = "private" /\ request[s].kind = "private"
                                /\ request[s].people = r.people} IN
    /\ request[t].stage = "unused"
    /\ request' = [s \in Task |->
                     IF s = t THEN [r EXCEPT !.stage = "asked", !.rivals = rivals]
                     ELSE IF s \in rivals THEN [request[s] EXCEPT !.rivals = @ \cup {t}]
                     ELSE request[s]]
    /\ UNCHANGED <<convRows, memberRows>>

AskPrivate(t, u, other) ==
    Ask(t, [NoRequest EXCEPT !.kind = "private", !.people = {u, other}])

AskGroup(t, u, others) ==
    Ask(t, [NoRequest EXCEPT !.kind = "group", !.people = others \cup {u}])

AskMembers(t, u, c, others) ==
    /\ convRows[c] # None
    /\ Ask(t, [NoRequest EXCEPT !.kind = "members", !.by = u, !.people = others, !.conv = c])

-----------------------------------------------------------------------------
(* The private conversations that both are in. That others are in one too  *)
(* does not count: the query joins the rows of these two only.             *)
Shared(t) == {c \in Task : convRows[c] = "private" /\ request[t].people \subseteq MembersOf(c)}

(* Mutant: a 1:1 is made like a group, without looking for one             *)
MakePrivate(t) ==
    /\ Is(t, "private", "asked")
    /\ IF \E u \in User : request[t].people = {u} THEN Stop(t, "refused") ELSE Turn(t, "saving")
    /\ UNCHANGED <<convRows, memberRows>>

(* createPrivate: nobody chats with themselves; getOne takes any of them   *)
FindPrivate(t) ==
    /\ Is(t, "private", "asked")
    /\ IF \E u \in User : request[t].people = {u} THEN Stop(t, "refused")
       ELSE IF Shared(t) = {} THEN Turn(t, "saving")
       ELSE \E c \in Shared(t) :
              request' = [request EXCEPT ![t].stage = "viewing", ![t].conv = c]
    /\ UNCHANGED <<convRows, memberRows>>

(* createGroup looks for nothing                                           *)
StartGroup(t) ==
    /\ Is(t, "group", "asked")
    /\ Turn(t, "saving")
    /\ UNCHANGED <<convRows, memberRows>>

(* conversations.save: a row that has no members yet                       *)
SaveConversation(t) ==
    /\ request[t].stage = "saving"
    /\ convRows' = [convRows EXCEPT ![t] = request[t].kind]
    /\ request' = [request EXCEPT ![t].stage = "peopling", ![t].conv = t]
    /\ UNCHANGED memberRows

(* members.save of a conversation nobody else knows                        *)
SaveMembers(t) ==
    /\ request[t].stage = "peopling"
    /\ memberRows' = memberRows \cup ({t} \X request[t].people)
    /\ Turn(t, "viewing")
    /\ UNCHANGED convRows

(* getConversationView, awaited before the answer: reads alone             *)
View(t) ==
    /\ request[t].stage = "viewing"
    /\ Turn(t, "done")
    /\ UNCHANGED <<convRows, memberRows>>

(* addMembers: requireMembership, then members.find. They are one step, as *)
(* whoever was a member still is one when the rows are read.               *)
FindMembers(t) ==
    LET fresh == request[t].people \ MembersOf(request[t].conv) IN
    /\ Is(t, "members", "asked")
    /\ IF request[t].by \notin MembersOf(request[t].conv) THEN Stop(t, "refused")
       ELSE request' = [request EXCEPT ![t].fresh = fresh,
                          ![t].stage = IF fresh = {} THEN "done" ELSE "selecting"]
    /\ UNCHANGED <<convRows, memberRows>>

(* The SELECT that save makes of its own                                   *)
SelectMembers(t) ==
    /\ request[t].stage = "selecting"
    /\ request' = [request EXCEPT ![t].stage = "inserting",
                                  ![t].fresh = @ \ MembersOf(request[t].conv)]
    /\ UNCHANGED <<convRows, memberRows>>

(* Mutant: the insert is not awaited, and its failure goes unnoticed       *)
InsertMembersUnawaited(t) ==
    /\ request[t].stage = "inserting"
    /\ memberRows' = IF request[t].fresh \cap MembersOf(request[t].conv) # {} THEN memberRows
                     ELSE memberRows \cup ({request[t].conv} \X request[t].fresh)
    /\ Turn(t, "done")
    /\ UNCHANGED convRows

(* Its INSERTs: a key that another request has inserted undoes them all    *)
InsertMembers(t) ==
    /\ request[t].stage = "inserting"
    /\ IF request[t].fresh \cap MembersOf(request[t].conv) # {}
       THEN Turn(t, "failed") /\ UNCHANGED memberRows
       ELSE /\ memberRows' = memberRows \cup ({request[t].conv} \X request[t].fresh)
            /\ Turn(t, "done")
    /\ UNCHANGED convRows

(* A query fails (or a user named by the request does not exist). What was *)
(* saved before stays: a conversation without members, or one whose view   *)
(* could not be read.                                                      *)
RequestFails(t) ==
    /\ request[t].stage \in Active
    /\ Turn(t, "failed")
    /\ UNCHANGED <<convRows, memberRows>>

RequestStep(t) ==
    \/ FindPrivate(t) \/ StartGroup(t) \/ SaveConversation(t) \/ SaveMembers(t)
    \/ View(t) \/ FindMembers(t) \/ SelectMembers(t) \/ InsertMembers(t) \/ RequestFails(t)

ConversationsNext ==
    \E t \in Task :
        \/ RequestStep(t)
        \/ \E u \in User :
             \/ \E other \in User : AskPrivate(t, u, other)
             \/ \E others \in Invited :
                  AskGroup(t, u, others) \/ \E c \in Task : AskMembers(t, u, c, others)

ConversationsSpec == ConversationsInit /\ [][ConversationsNext]_convVars

-----------------------------------------------------------------------------
(* Properties *)

ConversationsTypeOK ==
    /\ convRows \in [Task -> Making \cup {None}]
    /\ memberRows \subseteq Task \X User
    /\ request \in [Task -> [stage : RequestStages, kind : Making \cup {"members"},
                             by : User \cup {None}, people : SUBSET User,
                             conv : Task \cup {None}, fresh : SUBSET User, rivals : SUBSET Task]]

(* createPrivate looks for the pair's conversation, then awaits twice to   *)
(* make one. Two conversations of exactly the same two people come of      *)
(* requests that were under way together alone, whichever of their saves   *)
(* and views failed. (Whether one that others were added to still is the   *)
(* pair's is left open: lines 20 and 25 do not agree.)                     *)
OnePrivatePerPair ==
    \A c, d \in Task : \A u, v \in User :
        /\ c # d /\ convRows[c] = "private" /\ convRows[d] = "private"
        /\ MembersOf(c) = {u, v} /\ MembersOf(d) = {u, v}
        => d \in request[c].rivals

(* conversations.service line 25 says that the conversation reused has     *)
(* exactly these two members. The query joins the rows of the two alone:   *)
(* one that a third was added to is reused as well, and what the two write *)
(* to each other there the third reads.                                    *)
ReusedHasTwoMembers ==
    [][\A t \in Task :
           request[t].stage = "asked" /\ request'[t].stage = "viewing"
             => MembersOf(request'[t].conv) = request[t].people]_convVars

(* A request that was answered is done: the conversation it names exists   *)
(* and everyone it named is in it, also when another request was adding    *)
(* some of them at the same time.                                          *)
AnsweredMembersIn ==
    \A t \in Task : request[t].stage = "done" =>
        /\ convRows[request[t].conv] # None
        /\ request[t].people \subseteq MembersOf(request[t].conv)
        /\ request[t].by # None => request[t].by \in MembersOf(request[t].conv)
=============================================================================
