------------------------------ MODULE Accounts ------------------------------
(***************************************************************************)
(* register and login of AuthService over the user rows. Every name is in  *)
(* lower case in the rows and may be given in another; `Lower' is the      *)
(* conversion. usernames hold no `@', so no username is another's email.   *)
(* A password is known by the task that registered it. Tokens and hashes   *)
(* are libraries'; what the awaits around them allow is not.               *)
(***************************************************************************)
EXTENDS Rows

CONSTANTS Username, Email,   \* in lower case
          Spelling,          \* what users type
          Lower

ASSUME AccountsAssumption ==
    /\ Username \cap Email = {}
    /\ Lower \in [Spelling -> Username \cup Email]
    /\ None \notin Spelling \cup Username \cup Email

VARIABLES
    accounts,    \* the user rows
    auth         \* the requests

accountVars == <<accounts, auth>>

Account == [id : Task, username : Username, email : Email]
AuthStages == {"unused", "asked", "saving", "comparing", "in", "refused", "failed"}
NoAuth == [stage |-> "unused", username |-> None, email |-> None, login |-> None,
           password |-> None, user |-> None, after |-> {}]

AccountsInit ==
    /\ accounts = {}
    /\ auth = [t \in Task |-> NoAuth]

-----------------------------------------------------------------------------
Phase(t, from, to) == auth[t].stage = from /\ auth' = [auth EXCEPT ![t].stage = to]
Registers(t) == auth[t].login = None

AskAccount(t, username, email) ==
    /\ auth[t].stage = "unused"
    /\ auth' = [auth EXCEPT ![t] = [NoAuth EXCEPT
                  !.stage = "asked", !.username = username, !.email = email]]
    /\ UNCHANGED accounts

\* `after': the accounts whose registration was answered before this login
AskLogin(t, login, password) ==
    /\ auth[t].stage = "unused"
    /\ auth' = [auth EXCEPT ![t] = [NoAuth EXCEPT
                  !.stage = "asked", !.login = login, !.password = password,
                  !.after = {s \in Task : auth[s].stage = "in" /\ Registers(s)}]]
    /\ UNCHANGED accounts

Names(t) == {Lower[auth[t].username], Lower[auth[t].email]}
NamesOf(a) == {a.username, a.email}

(* register: a row with either name is a conflict; then bcrypt.hash takes  *)
(* its time                                                                *)
FindTaken(t) ==
    /\ auth[t].stage = "asked" /\ Registers(t)
    /\ LET taken == \E a \in accounts : NamesOf(a) \cap Names(t) # {} IN
       auth' = [auth EXCEPT ![t].stage = IF taken THEN "refused" ELSE "saving"]
    /\ UNCHANGED accounts

(* Mutant: without the unique indexes                                      *)
SaveAnyAccount(t) ==
    /\ Phase(t, "saving", "in")
    /\ accounts' = accounts \cup {[id |-> t, username |-> Lower[auth[t].username],
                                   email |-> Lower[auth[t].email]]}

(* users.save, under a unique index on each of the names                   *)
SaveAccount(t) ==
    LET taken == \E a \in accounts : NamesOf(a) \cap Names(t) # {} IN
    /\ Phase(t, "saving", IF taken THEN "failed" ELSE "in")
    /\ accounts' = IF taken THEN accounts
                   ELSE accounts \cup {[id |-> t, username |-> Lower[auth[t].username],
                                        email |-> Lower[auth[t].email]]}

(* Mutant: a login is looked for as it was typed                           *)
FindLoginAsTyped(t) ==
    /\ auth[t].stage = "asked" /\ ~Registers(t)
    /\ \/ \E a \in accounts : /\ auth[t].login \in NamesOf(a)
                              /\ auth' = [auth EXCEPT ![t].stage = "comparing", ![t].user = a.id]
       \/ /\ \A a \in accounts : auth[t].login \notin NamesOf(a)
          /\ auth' = [auth EXCEPT ![t].stage = "refused"]
    /\ UNCHANGED accounts

(* login: the user of either name, then the password hash by id            *)
FindLogin(t) ==
    /\ auth[t].stage = "asked" /\ ~Registers(t)
    /\ \/ \E a \in accounts : /\ Lower[auth[t].login] \in NamesOf(a)
                              /\ auth' = [auth EXCEPT ![t].stage = "comparing", ![t].user = a.id]
       \/ /\ \A a \in accounts : Lower[auth[t].login] \notin NamesOf(a)
          /\ auth' = [auth EXCEPT ![t].stage = "refused"]
    /\ UNCHANGED accounts

(* bcrypt.compare, registration of a push token, and the access token      *)
Compare(t) ==
    /\ Phase(t, "comparing", IF auth[t].user = auth[t].password THEN "in" ELSE "refused")
    /\ UNCHANGED accounts

AuthFails(t) ==
    /\ auth[t].stage \in {"asked", "saving", "comparing"}
    /\ auth' = [auth EXCEPT ![t] = [NoAuth EXCEPT !.stage = "failed"]]
    /\ UNCHANGED accounts

AccountsNext ==
    \E t \in Task :
        \/ FindTaken(t) \/ SaveAccount(t) \/ FindLogin(t) \/ Compare(t) \/ AuthFails(t)
        \/ \E n \in Spelling, e \in Spelling :
              Lower[n] \in Username /\ Lower[e] \in Email /\ AskAccount(t, n, e)
        \/ \E n \in Spelling, p \in Task : AskLogin(t, n, p)

AccountsSpec == AccountsInit /\ [][AccountsNext]_accountVars

-----------------------------------------------------------------------------
(* Properties *)

AccountsTypeOK ==
    /\ accounts \subseteq Account
    /\ auth \in [Task -> [stage : AuthStages, username : Spelling \cup {None},
                          email : Spelling \cup {None}, login : Spelling \cup {None},
                          password : Task \cup {None}, user : Task \cup {None},
                          after : SUBSET Task]]

(* One name in any spelling is one account: of two registrations that pass *)
(* the check together only one is answered with a token (auth.service      *)
(* lines 20-35), and each that was answered has its row.                   *)
OneAccountPerName ==
    /\ \A a, b \in accounts : NamesOf(a) \cap NamesOf(b) # {} => a = b
    /\ \A t \in Task : auth[t].stage = "in" /\ Registers(t) => \E a \in accounts : a.id = t

(* Whoever has registered can log in: with either name in any spelling and *)
(* the right password a login is not refused, and nobody else's password   *)
(* will do.                                                                *)
RegisteredCanLogin ==
    \A t, s \in Task :
        ~Registers(t) /\ s # t /\ auth[s].stage = "in" /\ Registers(s)
            /\ Lower[auth[t].login] \in Names(s) =>
          /\ auth[t].stage = "in" => auth[t].password = s
          /\ auth[t].stage = "refused" => auth[t].password # s \/ s \notin auth[t].after
=============================================================================
