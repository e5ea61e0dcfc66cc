------------------------------- MODULE History -------------------------------
(***************************************************************************)
(* The message rows of one conversation: persist, list and unreadCounts of *)
(* MessagesService, markRead of ConversationsService.                      *)
(* A message is dated when its handler starts and inserted some awaits     *)
(* later, so rows appear out of order; ids are chosen by clients. Time is  *)
(* the server's, in milliseconds, from 1: a last_read_at of 0 is NULL.     *)
(***************************************************************************)
EXTENDS Rows, Integers, FiniteSets

CONSTANTS MessageId,   \* numbers, in the order of the ids they stand for
          Reader,      \* the members of the conversation
          Take,        \* the page size, `limit'
          MaxTime      \* bounds the clock

ASSUME HistoryAssumption ==
    /\ MessageId \subseteq Nat
    /\ Take \in Nat \ {0}
    /\ MaxTime \in Nat \ {0}

VARIABLES
    time,        \* the clock
    post,        \* the message of each message:send task, and its persist
    lastReadAt,  \* of each member of the conversation
    mark,        \* the calls of markRead
    walk         \* a client that pages back through list

historyVars == <<time, post, lastReadAt, mark, walk>>

Time == 0..MaxTime
PostStages == {"unused", "dated", "stored", "ignored", "unstored"}
NoPost == [stage |-> "unused", id |-> 0, from |-> None, at |-> 0]
MarkStages == {"unused", "dated", "done", "failed"}
\* `known': the messages dated before the mark; `rivals': the marks of the same
\* member that were under way while this one was (two observations)
NoMark == [stage |-> "unused", of |-> None, at |-> 0, known |-> {}, rivals |-> {}]
NoWalk == [stage |-> "idle", before |-> MaxTime + 1, began |-> {}, seen |-> {}, cuts |-> {}]

\* The rows of the table, named by the tasks that inserted them
MessageRows == {t \in Task : post[t].stage = "stored"}

HistoryInit ==
    /\ time = 1
    /\ post = [t \in Task |-> NoPost]
    /\ lastReadAt = [u \in Reader |-> 0]
    /\ mark = [t \in Task |-> NoMark]
    /\ walk = NoWalk

-----------------------------------------------------------------------------
Tick ==
    /\ time < MaxTime
    /\ time' = time + 1
    /\ UNCHANGED <<post, lastReadAt, mark, walk>>

(* message:send after its membership check: the message is dated           *)
Date(t, u, id) ==
    /\ post[t].stage = "unused"
    /\ post' = [post EXCEPT ![t] = [NoPost EXCEPT !.stage = "dated", !.id = id,
                                                  !.from = u, !.at = time]]
    /\ UNCHANGED <<time, lastReadAt, mark, walk>>

(* persist: INSERT ... ON CONFLICT DO NOTHING, ids being the primary key.  *)
(* It then dates the conversation, whose updatedAt no query looks at.      *)
InsertPost(t) ==
    LET taken == \E s \in MessageRows : post[s].id = post[t].id IN
    /\ post[t].stage = "dated"
    /\ post' = [post EXCEPT ![t].stage = IF taken THEN "ignored" ELSE "stored"]
    /\ UNCHANGED <<time, lastReadAt, mark, walk>>

(* The insert fails: the handler logs it and goes on                       *)
PersistFails(t) ==
    /\ post[t].stage = "dated"
    /\ post' = [post EXCEPT ![t].stage = "unstored"]
    /\ UNCHANGED <<time, lastReadAt, mark, walk>>

(* markRead, from message:read of the socket or from POST read: the date   *)
(* is the argument of the update that is awaited, so it is drawn first     *)
StartMark(t, u) ==
    LET rivals == {s \in Task : mark[s].stage = "dated" /\ mark[s].of = u} IN
    /\ mark[t].stage = "unused"
    /\ mark' = [s \in Task |->
                  IF s = t THEN [stage |-> "dated", of |-> u, at |-> time, rivals |-> rivals,
                                 known |-> {p \in Task : post[p].stage # "unused"}]
                  ELSE IF s \in rivals THEN [mark[s] EXCEPT !.rivals = @ \cup {t}]
                  ELSE mark[s]]
    /\ UNCHANGED <<time, post, lastReadAt, walk>>

MarkTurns(t, stage) ==
    /\ mark[t].stage = "dated"
    /\ mark' = [mark EXCEPT ![t].stage = stage]
    /\ UNCHANGED <<time, post, walk>>

(* Mutant: the update is not limited to the row of the user                *)
MarkReadForAll(t) ==
    /\ MarkTurns(t, "done")
    /\ lastReadAt' = [v \in Reader |-> mark[t].at]

(* The update, which does not look at the date that is there               *)
MarkRead(t) ==
    /\ MarkTurns(t, "done")
    /\ lastReadAt' = [lastReadAt EXCEPT ![mark[t].of] = mark[t].at]

MarkFails(t) ==
    /\ MarkTurns(t, "failed")
    /\ UNCHANGED lastReadAt

(* unreadCounts: the rows that it counts                                   *)
Unread(u) == {t \in MessageRows : post[t].from # u /\ post[t].at > lastReadAt[u]}

-----------------------------------------------------------------------------
(* list: newest first by (createdAt, id), strictly before the cursor; one  *)
(* row more than the page is read to tell whether there are more.          *)

Newer(s, t) == \/ post[s].at > post[t].at
               \/ post[s].at = post[t].at /\ post[s].id > post[t].id

(* Mutant: the cursor's own millisecond is listed again                    *)
OlderOrTied(before) == {t \in MessageRows : post[t].at <= before}

Older(before) == {t \in MessageRows : post[t].at < before}

Fewest(m, n) == IF m < n THEN m ELSE n

(* What the query may answer: LIMIT rows, if there are as many, and none   *)
(* left out that is newer than one of them                                 *)
Pages(before) ==
    {page \in SUBSET Older(before) :
        /\ Cardinality(page) = Fewest(Take, Cardinality(Older(before)))
        /\ \A s \in Older(before) \ page, t \in page : ~ Newer(s, t)}

(* Mutant: the row that was read in excess is not counted                  *)
HasMoreLess(before) == Cardinality(Older(before)) > Take + 1

HasMore(before) == Cardinality(Older(before)) > Take

(* A client that takes the oldest createdAt it has as the next cursor, as  *)
(* ListMessagesQueryDto asks, until it is told that there are no more.     *)
StartWalk ==
    /\ walk.stage = "idle"
    /\ walk' = [walk EXCEPT !.stage = "paging", !.began = MessageRows]
    /\ UNCHANGED <<time, post, lastReadAt, mark>>

(* Mutant: the cursor is the millisecond before the oldest one             *)
FetchPageEarlier ==
    /\ walk.stage = "paging"
    /\ \E page \in Pages(walk.before) :
         IF HasMore(walk.before)
         THEN \E oldest \in page :
                /\ \A t \in page : post[t].at >= post[oldest].at
                /\ walk' = [walk EXCEPT !.before = post[oldest].at - 1, !.seen = @ \cup page,
                                        !.cuts = @ \cup {post[oldest].at}]
         ELSE walk' = [walk EXCEPT !.stage = "ended", !.seen = @ \cup page]
    /\ UNCHANGED <<time, post, lastReadAt, mark>>

FetchPage ==
    /\ walk.stage = "paging"
    /\ \E page \in Pages(walk.before) :
         IF HasMore(walk.before)
         THEN \E oldest \in page :
                /\ \A t \in page : post[t].at >= post[oldest].at
                /\ walk' = [walk EXCEPT !.before = post[oldest].at, !.seen = @ \cup page,
                                        !.cuts = @ \cup {post[oldest].at}]
         ELSE walk' = [walk EXCEPT !.stage = "ended", !.seen = @ \cup page]
    /\ UNCHANGED <<time, post, lastReadAt, mark>>

-----------------------------------------------------------------------------
PostStep(t) ==
    \/ \E u \in Reader, id \in MessageId : Date(t, u, id)
    \/ InsertPost(t) \/ PersistFails(t)

Posting == Tick \/ \E t \in Task : PostStep(t)
Walking == StartWalk \/ FetchPage
Reading == \E t \in Task : (\E u \in Reader : StartMark(t, u)) \/ MarkRead(t) \/ MarkFails(t)

HistoryNext == Posting \/ Walking \/ Reading

HistorySpec == HistoryInit /\ [][HistoryNext]_historyVars

-----------------------------------------------------------------------------
(* Properties *)

HistoryTypeOK ==
    /\ time \in Time
    /\ post \in [Task -> [stage : PostStages, id : MessageId \cup {0},
                          from : Reader \cup {None}, at : Time]]
    /\ lastReadAt \in [Reader -> Time]
    /\ mark \in [Task -> [stage : MarkStages, of : Reader \cup {None}, at : Time,
                          known : SUBSET Task, rivals : SUBSET Task]]
    /\ walk \in [stage : {"idle", "paging", "ended"}, before : 1..(MaxTime + 1),
                 began : SUBSET Task, seen : SUBSET Task, cuts : SUBSET Time]

(* Paging back with the oldest timestamp seen ends with every message that *)
(* was stored when it began, whatever is inserted meanwhile and however    *)
(* late, but for messages of the very millisecond a page was cut in.       *)
WalkCovers ==
    walk.stage = "ended" =>
        \A t \in walk.began \ walk.seen : post[t].at \in walk.cuts

(* Each page takes the walk further back, so that it ends: late inserts of *)
(* older messages cannot hold it in one place.                             *)
WalkMovesBack ==
    [][walk'.seen # walk.seen /\ walk'.stage = "paging"
         => walk'.before < walk.before /\ \A t \in walk'.seen \ walk.seen :
                                             post[t].at < walk.before]_historyVars

(* The page that a client who pages back gets next has no message that it  *)
(* was shown before, although rows of any date appear between its pages.   *)
NothingTwice ==
    walk.stage = "paging" => \A page \in Pages(walk.before) : page \cap walk.seen = {}

(* What was dated when a member marked the conversation read never counts  *)
(* as unread again, unless another mark of the member was under way at the *)
(* same time: the two dates may be written in either order. Once stored,   *)
(* what others dated after every mark of a member counts, but for the same *)
(* millisecond. (A message dated before a mark and inserted after it is    *)
(* never counted.)                                                         *)
UnreadSinceMark ==
    \A u \in Reader, p \in MessageRows :
        /\ \A t \in Task : /\ mark[t].stage = "done" /\ mark[t].of = u
                           /\ mark[t].rivals = {} /\ p \in mark[t].known
                           => p \notin Unread(u)
        /\ post[p].from # u /\ (\A t \in Task : mark[t].of = u =>
                                    p \notin mark[t].known /\ mark[t].at # post[p].at)
             => p \in Unread(u)
=============================================================================
