---------------------------- MODULE DeviceTokens ----------------------------
(***************************************************************************)
(* The device_token rows: register, unregister and removeTokens of         *)
(* DeviceTokensService, with the pushes of FcmPushService that call the    *)
(* last of these. db/0001-init.sql has (user_id, token) unique; the entity *)
(* from which TypeORM synchronizes the schema has no such index and drops  *)
(* it. A database may be either. An iPhone has two tokens: FCM's, and a    *)
(* PushKit token of platform `ios-voip', which FCM does not know.          *)
(*                                                                         *)
(*   register:   asked -> inserting | selecting -> done                    *)
(*               selecting -> updating | reinserting                       *)
(*   unregister: asked -> done;   push: asked -> sending -> pruning -> done*)
(***************************************************************************)
EXTENDS Rows

CONSTANTS Holder,      \* users
          FcmToken, VoipToken

ASSUME TokensAssumption == None \notin Holder /\ FcmToken \cap VoipToken = {}

VARIABLES
    indexed,     \* whether the database has the unique index
    tokenRows,   \* device_token
    dead,        \* the FCM tokens that FCM has given up (external)
    job,         \* the requests, and the pushes
    expected     \* what the calls made so far promise of (user, token)

tokenVars == <<indexed, tokenRows, dead, job, expected>>

Token == FcmToken \cup VoipToken
Platforms == {"phone", "ios-voip", None}
TokenRow == [id : Task, user : Holder, token : Token, platform : Platforms]
Busy == {"asked", "inserting", "selecting", "updating", "reinserting", "sending", "pruning"}

\* `reported': the tokens of a push that FCM refused with one of the codes of
\* DEAD_TOKEN_ERRORS; `rivals': the calls of the other kind for the same user
\* and token that were under way while this one was (two observations)
NoJob == [stage |-> "unused", kind |-> "push", user |-> None, token |-> None,
          platform |-> None, found |-> {}, targets |-> {}, reported |-> {}, rivals |-> {}]

DeviceTokensInit ==
    /\ indexed \in BOOLEAN
    /\ tokenRows = {}
    /\ dead = {}
    /\ job = [t \in Task |-> NoJob]
    /\ expected = [u \in Holder |-> [k \in Token |-> "none"]]

-----------------------------------------------------------------------------
Step(t, from, to) == job[t].stage = from /\ job' = [job EXCEPT ![t].stage = to]
RowsOf(u, k) == {r \in tokenRows : r.user = u /\ r.token = k}

Begin(t, j) ==
    LET rivals == {s \in Task : /\ job[s].stage \in Busy
                                /\ {j.kind, job[s].kind} = {"register", "unregister"}
                                /\ job[s].user = j.user /\ job[s].token = j.token} IN
    /\ job[t].stage = "unused"
    /\ job' = [s \in Task |-> IF s = t THEN [j EXCEPT !.stage = "asked", !.rivals = rivals]
                              ELSE IF s \in rivals THEN [job[s] EXCEPT !.rivals = @ \cup {t}]
                              ELSE job[s]]
    /\ UNCHANGED <<indexed, tokenRows, dead, expected>>

(* POST register, from the app or from login with a token; the latter has  *)
(* no platform.                                                            *)
AskRegister(t, u, k, platform) ==
    /\ (k \in VoipToken) = (platform = "ios-voip")
    /\ Begin(t, [NoJob EXCEPT !.kind = "register", !.user = u, !.token = k, !.platform = platform])

AskUnregister(t, u, k) ==
    Begin(t, [NoJob EXCEPT !.kind = "unregister", !.user = u, !.token = k])

(* What a call leaves behind that no call of the other kind overlapped     *)
Promise(t, outcome) ==
    expected' = [expected EXCEPT ![job[t].user][job[t].token] =
                   IF job[t].rivals = {} THEN outcome ELSE "unsure"]

-----------------------------------------------------------------------------
(* findOne; a row whose platform need not change is all there is to it     *)
FindToken(t) ==
    LET rows == RowsOf(job[t].user, job[t].token) IN
    /\ job[t].kind = "register" /\ job[t].stage = "asked"
    /\ IF rows = {}
       THEN job' = [job EXCEPT ![t].stage = "inserting"] /\ UNCHANGED expected
       ELSE \E r \in rows :
              IF job[t].platform \in {None, r.platform}
              THEN job' = [job EXCEPT ![t].stage = "done"] /\ Promise(t, "some")
              ELSE /\ job' = [job EXCEPT ![t].stage = "selecting", ![t].found = {r}]
                   /\ UNCHANGED expected
    /\ UNCHANGED <<indexed, tokenRows, dead>>

(* Mutant: a platform that is not given is named                           *)
NewRowNamed(t) == [id |-> t, user |-> job[t].user, token |-> job[t].token,
                   platform |-> IF job[t].platform = None THEN "unknown" ELSE job[t].platform]

NewRow(t) == [id |-> t, user |-> job[t].user, token |-> job[t].token,
              platform |-> job[t].platform]

(* With the index, a row that another register has inserted fails this one *)
Taken(t) == indexed /\ RowsOf(job[t].user, job[t].token) # {}

InsertToken(t) ==
    IF Taken(t)
    THEN Step(t, "inserting", "failed") /\ UNCHANGED <<indexed, tokenRows, dead, expected>>
    ELSE /\ Step(t, "inserting", "done")
         /\ tokenRows' = tokenRows \cup {NewRow(t)}
         /\ Promise(t, "some")
         /\ UNCHANGED <<indexed, dead>>

(* save(existing): a SELECT by id, then an UPDATE, or an INSERT of the row *)
(* if it has gone meanwhile                                                *)
Found(t) == \E r \in tokenRows, f \in job[t].found : r.id = f.id

SelectToken(t) ==
    /\ Step(t, "selecting", IF Found(t) THEN "updating" ELSE "reinserting")
    /\ UNCHANGED <<indexed, tokenRows, dead, expected>>

(* It may update no row, if a push has pruned it meanwhile                 *)
UpdateToken(t) ==
    /\ Step(t, "updating", "done")
    /\ tokenRows' = {IF \E f \in job[t].found : r.id = f.id
                     THEN [r EXCEPT !.platform = job[t].platform] ELSE r : r \in tokenRows}
    /\ Promise(t, IF expected[job[t].user][job[t].token] = "unsure" THEN "unsure" ELSE "some")
    /\ UNCHANGED <<indexed, dead>>

ReinsertToken(t) ==
    IF Found(t) \/ Taken(t)
    THEN Step(t, "reinserting", "failed") /\ UNCHANGED <<indexed, tokenRows, dead, expected>>
    ELSE /\ Step(t, "reinserting", "done")
         /\ tokenRows' = tokenRows \cup {[f EXCEPT !.platform = job[t].platform] : f \in job[t].found}
         /\ Promise(t, "some")
         /\ UNCHANGED <<indexed, dead>>

DeleteToken(t) ==
    /\ job[t].kind = "unregister"
    /\ Step(t, "asked", "done")
    /\ tokenRows' = tokenRows \ RowsOf(job[t].user, job[t].token)
    /\ Promise(t, "none")
    /\ UNCHANGED <<indexed, dead>>

-----------------------------------------------------------------------------
(* A push to one user. deliverPushForOffline takes every token there is,   *)
(* calls and reactions leave out platform `ios-voip'.                      *)
StartPush(t, u) ==
    Begin(t, [NoJob EXCEPT !.kind = "push", !.user = u])

Collect(t) ==
    /\ job[t].kind = "push" /\ job[t].stage = "asked"
    /\ \E excluded \in {{}, {"ios-voip"}} :
         job' = [job EXCEPT ![t].stage = "sending",
                   ![t].targets = {r.token : r \in {r \in tokenRows : r.user = job[t].user
                                                          /\ r.platform \notin excluded}}]
    /\ UNCHANGED <<indexed, tokenRows, dead, expected>>

(* Mutant: whatever delivery failed, its token is taken to be dead         *)
AnyFailure(reported, transient) == reported \cup transient

(* The tokens that are pruned: of those whose delivery failed, the ones    *)
(* with a code of DEAD_TOKEN_ERRORS                                        *)
Stale(reported, transient) == reported

(* FCM reports so the tokens that it has given up and those that are none  *)
(* of its own; or every token, when it takes the payload for invalid       *)
(* (external). Other failures have other codes.                            *)
Answer(t) ==
    LET unknown == job[t].targets \cap (dead \cup VoipToken) IN
    /\ job[t].stage = "sending"
    /\ \E reported \in {unknown, job[t].targets}, transient \in SUBSET job[t].targets :
         job' = [job EXCEPT ![t].stage = "pruning", ![t].reported = reported,
                            ![t].targets = Stale(reported, transient)]
    /\ UNCHANGED <<indexed, tokenRows, dead, expected>>

(* removeTokens: the rows of these tokens, of whichever user. What calls   *)
(* promised of a token ends with FCM's report of it.                       *)
Prune(t) ==
    /\ Step(t, "pruning", "done")
    /\ tokenRows' = {r \in tokenRows : r.token \notin job[t].targets}
    /\ expected' = [u \in Holder |-> [k \in Token |->
                      IF k \in job[t].reported /\ expected[u][k] = "some" THEN "unsure"
                      ELSE expected[u][k]]]
    /\ UNCHANGED <<indexed, dead>>

JobFails(t) ==
    /\ job[t].stage \in Busy
    /\ job' = [job EXCEPT ![t] = [NoJob EXCEPT !.stage = "failed"]]
    /\ UNCHANGED <<indexed, tokenRows, dead, expected>>

(* An app is removed, or its token replaced                                *)
Die(k) ==
    /\ dead' = dead \cup {k}
    /\ UNCHANGED <<indexed, tokenRows, job, expected>>

JobStep(t) ==
    \/ FindToken(t) \/ InsertToken(t) \/ SelectToken(t) \/ UpdateToken(t) \/ ReinsertToken(t)
    \/ DeleteToken(t) \/ Collect(t) \/ Answer(t) \/ Prune(t) \/ JobFails(t)

DeviceTokensNext ==
    \/ \E k \in FcmToken : Die(k)
    \/ \E t \in Task :
         \/ JobStep(t)
         \/ \E u \in Holder : \/ StartPush(t, u)
                              \/ \E k \in Token :
                                 \/ AskUnregister(t, u, k)
                                 \/ \E platform \in Platforms : AskRegister(t, u, k, platform)

DeviceTokensSpec == DeviceTokensInit /\ [][DeviceTokensNext]_tokenVars

-----------------------------------------------------------------------------
(* Properties *)

DeviceTokensTypeOK ==
    /\ indexed \in BOOLEAN
    /\ tokenRows \subseteq TokenRow
    /\ dead \subseteq FcmToken
    /\ job \in [Task -> [stage : Busy \cup {"unused", "done", "failed"},
                         kind : {"register", "unregister", "push"},
                         user : Holder \cup {None}, token : Token \cup {None},
                         platform : Platforms, found : SUBSET TokenRow,
                         targets : SUBSET Token, reported : SUBSET Token, rivals : SUBSET Task]]
    /\ expected \in [Holder -> [Token -> {"none", "some", "unsure"}]]

(* A token is stored after its user registered it, and not after its user  *)
(* unregistered it, with the unique index and without, however registers   *)
(* overlap and whatever pushes prune: but for a register and an unregister *)
(* of the same token that overlap, and for tokens that FCM itself reported *)
(* since. A failed delivery of any other kind costs no token.              *)
TokensFollowCalls ==
    \A u \in Holder, k \in Token :
        /\ expected[u][k] = "none" => RowsOf(u, k) = {}
        /\ expected[u][k] = "some" => RowsOf(u, k) # {}

(* fcm-push.service line 7: only the rows of dead tokens are pruned. The   *)
(* VoIP token of an iPhone is sent to FCM with every message pushed to its *)
(* user, and its row is removed although the token is alive. (FCM tokens   *)
(* are left out: what FCM reports of a payload that it takes for invalid   *)
(* is its own.)                                                            *)
OnlyDeadPruned ==
    [][\A t \in Task, r \in tokenRows :
           job[t].stage = "pruning" /\ job'[t].stage = "done" /\ r \notin tokenRows'
             => r.token \in dead \cup FcmToken]_tokenVars
=============================================================================
