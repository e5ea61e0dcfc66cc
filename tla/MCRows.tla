------------------------------- MODULE MCRows -------------------------------
(* Instances for TLC of the modules about single tables. They touch        *)
(* disjoint tables and no operation of one calls another's, so each        *)
(* behaviour runs the operations of one of them; History is run twice,     *)
(* since paging and marking as read do not look at each other's state.     *)
EXTENDS Reactions, Conversations, History, Accounts, DeviceTokens, Uploads, TLC

CONSTANTS u1, u2, u3, ann, Ann, bob, mail, mail2, png, gif, Focuses

VARIABLE focus

ThreeInvited == {{u1}, {u3}, {u1, u2}}

Lowered == (ann :> ann) @@ (Ann :> ann) @@ (bob :> bob) @@ (mail :> mail) @@ (mail2 :> mail2)

(* A GIF named as a PNG, a PNG known by its name alone, and no image       *)
ThreeFiles == {[bytes |-> gif, header |-> png, name |-> png],
               [bytes |-> None, header |-> None, name |-> png],
               [bytes |-> None, header |-> None, name |-> None]}

RowsInit ==
    /\ focus \in Focuses
    /\ ReactionsInit /\ ConversationsInit /\ HistoryInit
    /\ AccountsInit /\ DeviceTokensInit /\ UploadsInit
    /\ focus # "tokens" => ~ indexed

Others(own) ==
    /\ UNCHANGED focus
    /\ own # "reactions" => UNCHANGED reactionVars
    /\ own # "conversations" => UNCHANGED convVars
    /\ own # "history" => UNCHANGED historyVars
    /\ own # "accounts" => UNCHANGED accountVars
    /\ own # "tokens" => UNCHANGED tokenVars
    /\ own # "uploads" => UNCHANGED uploadVars

Dated == {t \in Task : post[t].stage # "unused"}
Posted == Tick \/ \E t \in Task : InsertPost(t) \/ PersistFails(t)

(* Paging does not look at who sent a message                              *)
OneSender == \E t \in Task, u \in Reader, id \in MessageId :
    (\A s \in Dated : post[s].from = u) /\ Date(t, u, id)

(* Marks and messages do not look at each other: whether one counts does   *)
(* not depend on the others                                                *)
OneMessage == \E t \in Task, u \in Reader, id \in MessageId :
    Dated = {} /\ id = 1 /\ Date(t, u, id)

(* Users are alike: the 1:1s are those of u1, and the groups u3's          *)
OneMaker == \E t \in Task, u \in User :
    \/ RequestStep(t)
    \/ u = u1 /\ \E other \in User : AskPrivate(t, u, other)
    \/ u = u3 /\ \E others \in Invited : AskGroup(t, u, others)
    \/ \E others \in Invited, c \in Task : AskMembers(t, u, c, others)

RowsNext ==
    \/ focus = "reactions" /\ ReactionsNext /\ Others("reactions")
    \/ focus = "conversations" /\ OneMaker /\ Others("conversations")
    \/ focus = "paging" /\ (Posted \/ OneSender \/ Walking) /\ Others("history")
    \/ focus = "marking" /\ (Posted \/ OneMessage \/ Reading) /\ Others("history")
    \/ focus = "accounts" /\ AccountsNext /\ Others("accounts")
    \/ focus = "tokens" /\ DeviceTokensNext /\ Others("tokens")
    \/ focus = "uploads" /\ UploadsNext /\ Others("uploads")

RowsSpec ==
    RowsInit /\ [][RowsNext]_<<focus, reactionVars, convVars, historyVars, accountVars,
                               tokenVars, uploadVars>>

(* The variables of all these modules have their types.                    *)
RowsTypeOK ==
    /\ ReactionsTypeOK /\ ConversationsTypeOK /\ HistoryTypeOK
    /\ AccountsTypeOK /\ DeviceTokensTypeOK /\ UploadsTypeOK

(* Readers, uploaders and holders of tokens are the same two               *)
Symmetry == Permutations(Task) \cup Permutations(Reader)
=============================================================================
