--------------------------- MODULE AccountsProofs ---------------------------
(***************************************************************************)
(* For any names, spellings and requests: a name in any spelling is one    *)
(* account, and whoever has registered can log in with it. The second      *)
(* rests on the first: the row that a login finds is the one that was      *)
(* registered, since no other has the name.                                *)
(***************************************************************************)
EXTENDS Accounts, TLAPS

AuthRequests ==
    [stage : AuthStages, username : Spelling \cup {None}, email : Spelling \cup {None},
     login : Spelling \cup {None}, password : Task \cup {None},
     user : Task \cup {None}, after : SUBSET Task]

Answered(s) == auth[s].stage = "in" /\ Registers(s)

(* A request r that registers has names; a row is what a registration that *)
(* was answered made.                                                      *)
Named(r) ==
    /\ r.stage = "saving" => r.login = None
    /\ r.stage = "comparing" => r.login # None
    /\ r.login = None /\ r.stage \in {"asked", "saving", "in"} =>
         /\ r.username \in Spelling /\ Lower[r.username] \in Username
         /\ r.email \in Spelling /\ Lower[r.email] \in Email

RowsRegistered == \A a \in accounts : Answered(a.id) /\ NamesOf(a) = Names(a.id)

(* A login r compares the password of a row that has its name; it is       *)
(* refused the password of no account that was there when it began.        *)
Founded(r) ==
    r.login # None =>
        /\ r.stage \in {"comparing", "in"} =>
             \E a \in accounts : a.id = r.user /\ Lower[r.login] \in NamesOf(a)
        /\ r.stage = "in" => r.user = r.password
        /\ \A s \in r.after : Answered(s)
        /\ r.stage = "refused" =>
             \A s \in r.after : Lower[r.login] \in Names(s) => r.password # s

AInv == /\ AccountsTypeOK /\ OneAccountPerName /\ RowsRegistered
        /\ \A t \in Task : Named(auth[t]) /\ Founded(auth[t])

-----------------------------------------------------------------------------
LEMMA AccountsInitInv == AccountsInit => AInv
  <1> SUFFICES ASSUME AccountsInit PROVE AInv
    OBVIOUS
  <1>1. NoAuth \in AuthRequests /\ NoAuth.stage = "unused" /\ NoAuth.login = None
    BY DEF NoAuth, AuthRequests, AuthStages
  <1>2. accounts = {} /\ auth = [t \in Task |-> NoAuth]
    BY DEF AccountsInit
  <1>3. AccountsTypeOK
    BY <1>1, <1>2 DEF AccountsTypeOK, AuthRequests
  <1>4. OneAccountPerName /\ RowsRegistered
    BY <1>1, <1>2 DEF OneAccountPerName, RowsRegistered
  <1>5. \A t \in Task : Named(auth[t]) /\ Founded(auth[t])
    BY <1>1, <1>2 DEF Named, Founded
  <1>6. QED
    BY <1>3, <1>4, <1>5 DEF AInv

(* A step that adds no row, of a request that has not been answered.       *)
LEMMA AuthKeeps ==
    ASSUME AInv, NEW t \in Task, NEW r \in AuthRequests,
           auth' = [auth EXCEPT ![t] = r], accounts' = accounts,
           ~Answered(t), r.login = None => r.stage # "in", Named(r), Founded(r)
    PROVE  AInv'
  <1>1. AccountsTypeOK'
    BY DEF AInv, AccountsTypeOK, AuthRequests
  <1>2. \A s \in Task : s # t => auth'[s] = auth[s]
    BY DEF AInv, AccountsTypeOK
  <1>3. auth'[t] = r
    BY DEF AInv, AccountsTypeOK
  <1>4. \A s \in Task : Answered(s) => Answered(s)' /\ Names(s)' = Names(s)
    BY <1>2 DEF Answered, Registers, Names
  <1>5. \A s \in Task : Answered(s)' => Answered(s)
    BY <1>2, <1>3 DEF Answered, Registers
  <1>6. OneAccountPerName'
    BY <1>5 DEF AInv, OneAccountPerName, NamesOf, Answered
  <1>7. RowsRegistered'
    BY <1>4 DEF AInv, RowsRegistered, AccountsTypeOK, Account, NamesOf
  <1>8. \A s \in Task : Named(auth'[s]) /\ Founded(auth[s])'
    <2> TAKE s \in Task
    <2>1. auth[s] \in AuthRequests /\ auth'[s] \in AuthRequests
      BY <1>2, <1>3 DEF AInv, AccountsTypeOK, AuthRequests
    <2>2. Named(auth'[s]) /\ Founded(auth'[s])
      BY <1>2, <1>3 DEF AInv
    <2>3. QED
      BY <1>4, <2>1, <2>2 DEF Founded, NamesOf, AuthRequests
  <1>9. QED
    BY <1>1, <1>6, <1>7, <1>8 DEF AInv, Named

LEMMA AskAccountStep ==
    ASSUME AInv, NEW t \in Task, NEW n \in Spelling, NEW e \in Spelling,
           Lower[n] \in Username, Lower[e] \in Email, AskAccount(t, n, e)
    PROVE  AInv'
  <1> DEFINE r == [NoAuth EXCEPT !.stage = "asked", !.username = n, !.email = e]
  <1>1. /\ r \in AuthRequests /\ r.stage = "asked" /\ r.login = None
        /\ r.username = n /\ r.email = e
    BY DEF NoAuth, AuthRequests, AuthStages
  <1>2. /\ auth[t].stage = "unused" /\ accounts' = accounts
        /\ auth' = [auth EXCEPT ![t] = r]
    BY DEF AskAccount
  <1> HIDE DEF r
  <1>3. Named(r) /\ Founded(r) /\ ~Answered(t)
    BY <1>1, <1>2 DEF Named, Founded, Answered
  <1>4. QED
    BY <1>1, <1>2, <1>3, AuthKeeps

LEMMA AskLoginStep ==
    ASSUME AInv, NEW t \in Task, NEW n \in Spelling, NEW p \in Task, AskLogin(t, n, p)
    PROVE  AInv'
  <1> DEFINE before == {s \in Task : auth[s].stage = "in" /\ Registers(s)}
             r == [NoAuth EXCEPT !.stage = "asked", !.login = n, !.password = p,
                                 !.after = before]
  <1>1. /\ r \in AuthRequests /\ r.stage = "asked" /\ r.login = n /\ r.after = before
    BY DEF NoAuth, AuthRequests, AuthStages
  <1>2. /\ auth[t].stage = "unused" /\ accounts' = accounts
        /\ auth' = [auth EXCEPT ![t] = r]
    BY DEF AskLogin
  <1>3. \A s \in before : Answered(s)
    BY DEF Answered
  <1>4. r.login # None
    BY <1>1, AccountsAssumption
  <1> HIDE DEF r, before
  <1>5. Named(r) /\ Founded(r) /\ ~Answered(t)
    BY <1>1, <1>2, <1>3, <1>4 DEF Named, Founded, Answered
  <1>6. QED
    BY <1>1, <1>2, <1>4, <1>5, AuthKeeps

LEMMA FindTakenStep ==
    ASSUME AInv, NEW t \in Task, FindTaken(t)
    PROVE  AInv'
  <1>1. PICK stage \in {"refused", "saving"} :
           /\ auth[t].stage = "asked" /\ Registers(t) /\ accounts' = accounts
           /\ auth' = [auth EXCEPT ![t].stage = stage]
    BY DEF FindTaken
  <1> DEFINE r == [auth[t] EXCEPT !.stage = stage]
  <1>2. /\ r \in AuthRequests /\ r.stage = stage /\ r.login = auth[t].login
        /\ r.username = auth[t].username /\ r.email = auth[t].email
        /\ auth' = [auth EXCEPT ![t] = r]
    BY <1>1 DEF AInv, AccountsTypeOK, AuthRequests, AuthStages
  <1> HIDE DEF r
  <1>3. Named(r) /\ Founded(r) /\ ~Answered(t)
    BY <1>1, <1>2 DEF AInv, Named, Founded, Answered, Registers
  <1>4. QED
    BY <1>1, <1>2, <1>3, AuthKeeps

LEMMA FindLoginStep ==
    ASSUME AInv, NEW t \in Task, FindLogin(t)
    PROVE  AInv'
  <1>1. auth[t].stage = "asked" /\ ~Registers(t) /\ accounts' = accounts /\ ~Answered(t)
    BY DEF FindLogin, Answered
  <1>2. CASE \E a \in accounts : /\ Lower[auth[t].login] \in NamesOf(a)
                                 /\ auth' = [auth EXCEPT ![t].stage = "comparing", ![t].user = a.id]
    <2>1. PICK a \in accounts :
             /\ Lower[auth[t].login] \in NamesOf(a)
             /\ auth' = [auth EXCEPT ![t].stage = "comparing", ![t].user = a.id]
      BY <1>2
    <2> DEFINE r == [auth[t] EXCEPT !.stage = "comparing", !.user = a.id]
    <2>2. /\ r \in AuthRequests /\ r.stage = "comparing" /\ r.login = auth[t].login
          /\ r.user = a.id /\ r.after = auth[t].after
          /\ auth' = [auth EXCEPT ![t] = r]
      BY <1>1, <2>1 DEF AInv, AccountsTypeOK, AuthRequests, AuthStages, Account
    <2> HIDE DEF r
    <2>3. Named(r) /\ Founded(r)
      BY <1>1, <2>1, <2>2 DEF AInv, Named, Founded, Registers
    <2>4. QED
      BY <1>1, <2>2, <2>3, AuthKeeps DEF Registers
  <1>3. CASE /\ \A a \in accounts : Lower[auth[t].login] \notin NamesOf(a)
             /\ auth' = [auth EXCEPT ![t].stage = "refused"]
    <2> DEFINE r == [auth[t] EXCEPT !.stage = "refused"]
    <2>1. /\ r \in AuthRequests /\ r.stage = "refused" /\ r.login = auth[t].login
          /\ r.after = auth[t].after
          /\ auth' = [auth EXCEPT ![t] = r]
      BY <1>3 DEF AInv, AccountsTypeOK, AuthRequests, AuthStages
    <2> HIDE DEF r
    <2>2. \A s \in r.after : Lower[r.login] \notin Names(s)
      <3> TAKE s \in r.after
      <3>1. Answered(s) /\ s \in Task
        BY <1>1, <2>1 DEF AInv, AccountsTypeOK, Founded, Registers
      <3>2. PICK a \in accounts : a.id = s
        BY <3>1 DEF AInv, OneAccountPerName, Answered
      <3>3. NamesOf(a) = Names(s)
        BY <3>2 DEF AInv, RowsRegistered
      <3>4. QED
        BY <1>3, <2>1, <3>3
    <2>3. Named(r) /\ Founded(r)
      BY <1>1, <2>1, <2>2 DEF AInv, Named, Founded, Registers
    <2>4. QED
      BY <1>1, <2>1, <2>3, AuthKeeps DEF Registers
  <1>4. QED
    BY <1>2, <1>3 DEF FindLogin

(* A login and an account that share a name: what the login found is the   *)
(* row of that account, there being one row of each name.                  *)
LEMMA FoundIsRegistered ==
    ASSUME AInv, NEW t \in Task, ~Registers(t), auth[t].stage \in {"comparing", "in"},
           NEW s \in Task, Answered(s), Lower[auth[t].login] \in Names(s)
    PROVE  auth[t].user = s
  <1>1. PICK a \in accounts : a.id = auth[t].user /\ Lower[auth[t].login] \in NamesOf(a)
    BY DEF AInv, Founded, Registers
  <1>2. PICK b \in accounts : b.id = s
    BY DEF AInv, OneAccountPerName, Answered
  <1>3. NamesOf(b) = Names(s)
    BY <1>2 DEF AInv, RowsRegistered
  <1>4. a = b
    BY <1>1, <1>3 DEF AInv, OneAccountPerName
  <1>5. QED
    BY <1>1, <1>2, <1>4

LEMMA CompareStep ==
    ASSUME AInv, NEW t \in Task, Compare(t)
    PROVE  AInv'
  <1> DEFINE stage == IF auth[t].user = auth[t].password THEN "in" ELSE "refused"
             r == [auth[t] EXCEPT !.stage = stage]
  <1>1. /\ auth[t].stage = "comparing" /\ accounts' = accounts
        /\ auth' = [auth EXCEPT ![t].stage = stage]
    BY DEF Compare, Phase
  <1>2. /\ r \in AuthRequests /\ r.stage = stage /\ r.login = auth[t].login
        /\ r.user = auth[t].user /\ r.password = auth[t].password /\ r.after = auth[t].after
        /\ auth' = [auth EXCEPT ![t] = r]
    BY <1>1 DEF AInv, AccountsTypeOK, AuthRequests, AuthStages
  <1>3. ~Registers(t) /\ auth[t].login # None /\ ~Answered(t)
    BY <1>1 DEF AInv, Named, Registers, Answered
  <1>4. \A s \in r.after : Answered(s) /\ s \in Task
    BY <1>2, <1>3 DEF AInv, AccountsTypeOK, Founded
  <1>5. \A s \in r.after : Lower[r.login] \in Names(s) => r.user = s
    BY <1>1, <1>2, <1>3, <1>4, FoundIsRegistered
  <1>6. Named(r) /\ Founded(r)
    <2> HIDE DEF r
    <2>1. Named(r)
      BY <1>2, <1>3 DEF Named
    <2>2. \E a \in accounts : a.id = r.user /\ Lower[r.login] \in NamesOf(a)
      BY <1>1, <1>2, <1>3 DEF AInv, Founded
    <2>3. QED
      BY <1>2, <1>4, <1>5, <2>1, <2>2 DEF Founded
  <1> HIDE DEF r
  <1>7. QED
    BY <1>1, <1>2, <1>3, <1>6, AuthKeeps

LEMMA AuthFailsStep ==
    ASSUME AInv, NEW t \in Task, AuthFails(t)
    PROVE  AInv'
  <1> DEFINE r == [NoAuth EXCEPT !.stage = "failed"]
  <1>1. r \in AuthRequests /\ r.stage = "failed" /\ r.login = None
    BY DEF NoAuth, AuthRequests, AuthStages
  <1>2. /\ auth[t].stage \in {"asked", "saving", "comparing"} /\ accounts' = accounts
        /\ auth' = [auth EXCEPT ![t] = r]
    BY DEF AuthFails
  <1> HIDE DEF r
  <1>3. Named(r) /\ Founded(r) /\ ~Answered(t)
    BY <1>1, <1>2 DEF Named, Founded, Answered
  <1>4. QED
    BY <1>1, <1>2, <1>3, AuthKeeps

(* The unique indexes decide between registrations that passed the check   *)
(* together: who finds a name taken is not answered.                       *)
LEMMA SaveAccountStep ==
    ASSUME AInv, NEW t \in Task, SaveAccount(t)
    PROVE  AInv'
  <1> DEFINE taken == \E a \in accounts : NamesOf(a) \cap Names(t) # {}
             row == [id |-> t, username |-> Lower[auth[t].username],
                     email |-> Lower[auth[t].email]]
  <1>1. auth[t].stage = "saving" /\ Registers(t) /\ ~Answered(t)
    BY DEF SaveAccount, Phase, AInv, Named, Registers, Answered
  <1>2. CASE taken
    <2> DEFINE r == [auth[t] EXCEPT !.stage = "failed"]
    <2>1. accounts' = accounts /\ auth' = [auth EXCEPT ![t].stage = "failed"]
      BY <1>2 DEF SaveAccount, Phase
    <2>2. /\ r \in AuthRequests /\ r.stage = "failed" /\ r.login = None
          /\ auth' = [auth EXCEPT ![t] = r]
      BY <1>1, <2>1 DEF AInv, AccountsTypeOK, AuthRequests, AuthStages, Registers
    <2> HIDE DEF r
    <2>3. Named(r) /\ Founded(r)
      BY <2>2 DEF Named, Founded
    <2>4. QED
      BY <1>1, <2>1, <2>2, <2>3, AuthKeeps
  <1>3. CASE ~taken
    <2>1. accounts' = accounts \cup {row} /\ auth' = [auth EXCEPT ![t].stage = "in"]
      BY <1>3 DEF SaveAccount, Phase
    <2>2. row \in Account /\ row.id = t /\ NamesOf(row) = Names(t)
      BY <1>1 DEF AInv, Named, Account, NamesOf, Names, Registers
    <2> HIDE DEF row
    <2>3. AccountsTypeOK'
      BY <2>1, <2>2 DEF AInv, AccountsTypeOK, AuthStages
    <2>4. /\ auth'[t].stage = "in" /\ auth'[t].login = None
          /\ \A s \in Task : s # t => auth'[s] = auth[s]
          /\ \A s \in Task : auth'[s].login = auth[s].login /\ Names(s)' = Names(s)
      BY <1>1, <2>1 DEF AInv, AccountsTypeOK, Registers, Names
    <2>5. Answered(t)' /\ \A s \in Task : Answered(s) => Answered(s)'
      BY <2>4 DEF Answered, Registers
    <2>6. OneAccountPerName'
      <3>1. \A a, b \in accounts' : NamesOf(a) \cap NamesOf(b) # {} => a = b
        BY <1>3, <2>1, <2>2 DEF AInv, OneAccountPerName
      <3>2. \A s \in Task : Answered(s)' => \E a \in accounts' : a.id = s
        BY <2>1, <2>2, <2>4 DEF AInv, OneAccountPerName, Answered, Registers
      <3>3. QED
        BY <3>1, <3>2 DEF OneAccountPerName, NamesOf, Answered
    <2>7. RowsRegistered'
      <3>1. \A a \in accounts : a.id \in Task /\ Answered(a.id) /\ NamesOf(a) = Names(a.id)
        BY DEF AInv, RowsRegistered, AccountsTypeOK, Account
      <3>2. \A a \in accounts' : a.id \in Task /\ Answered(a.id)' /\ NamesOf(a) = Names(a.id)
        BY <2>1, <2>2, <2>5, <3>1
      <3>3. \A a \in accounts' : Answered(a.id)' /\ NamesOf(a) = Names(a.id)'
        BY <2>4, <3>2
      <3>4. QED
        BY <3>3 DEF RowsRegistered, NamesOf
    <2>8. \A s \in Task : Named(auth'[s]) /\ Founded(auth[s])'
      <3> TAKE s \in Task
      <3>1. CASE s = t
        <4>1. Named(auth'[t])
          BY <1>1, <2>1, <2>4 DEF AInv, AccountsTypeOK, Named, Registers
        <4>2. Founded(auth[t])'
          BY <2>4 DEF Founded
        <4>3. QED
          BY <3>1, <4>1, <4>2
      <3>2. CASE s # t
        <4>1. auth[s] \in AuthRequests /\ auth'[s] = auth[s] /\ Named(auth[s]) /\ Founded(auth[s])
          BY <2>4, <3>2 DEF AInv, AccountsTypeOK, AuthRequests
        <4>2. accounts \subseteq accounts'
          BY <2>1
        <4>3. QED
          BY <2>4, <2>5, <4>1, <4>2 DEF Founded, NamesOf, AuthRequests
      <3>3. QED
        BY <3>1, <3>2
    <2>9. QED
      BY <2>3, <2>6, <2>7, <2>8 DEF AInv, Named
  <1>4. QED
    BY <1>2, <1>3

-----------------------------------------------------------------------------
LEMMA AccountsNextInv == AInv /\ [AccountsNext]_accountVars => AInv'
  <1>1. ASSUME AInv, UNCHANGED accountVars PROVE AInv'
    BY <1>1 DEF AInv, AccountsTypeOK, OneAccountPerName, RowsRegistered, Named, Founded,
       Answered, Registers, Names, NamesOf, accountVars
  <1>2. ASSUME AInv, AccountsNext PROVE AInv'
    BY <1>2, AskAccountStep, AskLoginStep, FindTakenStep, SaveAccountStep, FindLoginStep,
       CompareStep, AuthFailsStep DEF AccountsNext
  <1>3. QED
    BY <1>1, <1>2

LEMMA AccountsInvariant == AccountsSpec => []AInv
  BY AccountsInitInv, AccountsNextInv, PTL DEF AccountsSpec

(* However registrations overlap, a name in any spelling is one account,   *)
(* and each that was answered with a token has its row (auth.service       *)
(* register).                                                              *)
THEOREM OneAccount == AccountsSpec => []OneAccountPerName
  BY AccountsInvariant, PTL DEF AInv

(* With either name in any spelling and the right password a login is not  *)
(* refused, and no other password will do (auth.service login).            *)
THEOREM RegisteredLogsIn == AccountsSpec => []RegisteredCanLogin
  <1>1. ASSUME AInv PROVE RegisteredCanLogin
    <2> SUFFICES ASSUME NEW t \in Task, NEW s \in Task, ~Registers(t), Answered(s),
                        Lower[auth[t].login] \in Names(s)
                 PROVE  /\ auth[t].stage = "in" => auth[t].password = s
                        /\ auth[t].stage = "refused" =>
                             auth[t].password # s \/ s \notin auth[t].after
      BY DEF RegisteredCanLogin, Answered
    <2>1. auth[t].stage = "in" => auth[t].password = s
      BY <1>1, FoundIsRegistered DEF AInv, Founded, Registers
    <2>2. auth[t].stage = "refused" => auth[t].password # s \/ s \notin auth[t].after
      BY <1>1 DEF AInv, Founded, Registers
    <2>3. QED
      BY <2>1, <2>2
  <1>2. QED
    BY <1>1, AccountsInvariant, PTL
=============================================================================
