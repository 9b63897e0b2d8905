--------------------------- MODULE Accounts_proofs ---------------------------
(***************************************************************************)
(* Proofs about module Accounts, for any names, addresses, passwords,      *)
(* reset tokens and threads.  The inductive invariant has three parts: the *)
(* rows of the users, the rows of the reset tokens, and the requests in    *)
(* progress, which tie the first two together.                             *)
(***************************************************************************)
EXTENDS Accounts, FiniteSetTheorems, TLAPS

Contact == [email : Email \cup {NoEmail}, password : Password]

\* The rows of table users, next to what was last set.
RowsInv ==
    /\ DOMAIN account \subseteq Name
    /\ account \in [DOMAIN account -> Account]
    /\ latest \in [DOMAIN account -> Contact]
    /\ \A n \in DOMAIN account : /\ account[n].email = latest[n].email
                                 /\ account[n].password = latest[n].password
    /\ EmailsDistinct

\* The rows of table password_reset_tokens: a mail brings a token that has one.
TokensInv ==
    /\ DOMAIN link \subseteq Link
    /\ link \in [DOMAIN link -> PasswordResetToken]
    /\ mailed \subseteq DOMAIN link

\* A thread has one request; between the two commits of a reset it is that
\* reset, and the token of a reset in progress has its row.
ThreadsInv ==
    /\ running \in [Thread -> SUBSET Request]
    /\ loaded \in [Thread -> SUBSET Account]
    /\ \A p \in Thread : running[p] = {} \/ \E x \in Request : running[p] = {x}
    /\ reset \subseteq Thread
    /\ \A p \in reset : running[p] # {} /\ running[p] \subseteq ResetPasswordRequest
    /\ \A p \in Thread : \A x \in running[p] \cap ResetPasswordRequest : x.link \in DOMAIN link
    /\ requests \in 0..MaxRequests

IInv == RowsInv /\ TokensInv /\ ThreadsInv

----------------------------------------------------------------------------
(* The rows.                                                               *)

\* Each kind of request is a request.
LEMMA Kinds ==
    /\ UserRegister \subseteq Request /\ UpdateEmailRequest \subseteq Request
    /\ UpdatePasswordRequest \subseteq Request /\ ForgotPasswordRequest \subseteq Request
    /\ ResetPasswordRequest \subseteq Request /\ Start \subseteq Request
BY DEF Request

\* A request that is no reset is of another kind.
LEMMA OtherKinds ==
    \A x \in UserRegister \cup UpdateEmailRequest \cup UpdatePasswordRequest
             \cup ForgotPasswordRequest \cup Start : x \notin ResetPasswordRequest
BY DEF UserRegister, UpdateEmailRequest, UpdatePasswordRequest, ForgotPasswordRequest,
       Start, ResetPasswordRequest

\* An INSERT under both unique constraints.
LEMMA WriteKeepsRows ==
    ASSUME RowsInv, NEW n \in Name, NEW row \in Account,
           UniqueUsername(n), UniqueEmail(n, row.email), Write(n, row)
    PROVE  RowsInv'
<1> DEFINE d == [email |-> row.email, password |-> row.password]
<1>1. d \in Contact /\ d.email = row.email /\ d.password = row.password
  BY DEF Account, Contact
<1>2. /\ account' = [i \in DOMAIN account \cup {n} |-> IF i = n THEN row ELSE account[i]]
      /\ latest' = [i \in DOMAIN latest \cup {n} |-> IF i = n THEN d ELSE latest[i]]
  BY DEF Write, Put
<1> HIDE DEF d
<1>3. /\ DOMAIN account' = DOMAIN account \cup {n} /\ DOMAIN latest = DOMAIN account
      /\ account'[n] = row /\ latest'[n] = d
      /\ \A i \in DOMAIN account : i # n /\ account'[i] = account[i] /\ latest'[i] = latest[i]
  BY <1>2 DEF RowsInv, UniqueUsername
<1>4. /\ account' \in [DOMAIN account' -> Account]
      /\ latest' \in [DOMAIN account' -> Contact]
  BY <1>1, <1>2, <1>3 DEF RowsInv
<1>5. EmailsDistinct'
  BY <1>3 DEF RowsInv, EmailsDistinct, UniqueEmail
<1> QED
  BY <1>1, <1>3, <1>4, <1>5 DEF RowsInv

\* An UPDATE of the email, under the unique constraint.
LEMMA UpdateEmailKeepsRows ==
    ASSUME RowsInv, NEW n \in Name, NEW e \in Email, UniqueEmail(n, e), UpdateEmail(n, e)
    PROVE  RowsInv'
<1>1. /\ DOMAIN account' = DOMAIN account /\ DOMAIN latest' = DOMAIN account
      /\ account' \in [DOMAIN account -> Account] /\ latest' \in [DOMAIN account -> Contact]
  <2>1. PICK A : A = DOMAIN account
    OBVIOUS
  <2>2. account \in [A -> Account] /\ latest \in [A -> Contact]
    BY <2>1 DEF RowsInv
  <2>3. account' \in [A -> Account]
    BY <2>2 DEF UpdateEmail, Account
  <2>4. latest' \in [A -> Contact]
    BY <2>2 DEF UpdateEmail, Contact
  <2> QED
    BY <2>1, <2>2, <2>3, <2>4
<1>2. \A i \in DOMAIN account :
         /\ account'[i].email = (IF i = n THEN e ELSE account[i].email)
         /\ latest'[i].email = (IF i = n THEN e ELSE latest[i].email)
         /\ account'[i].password = account[i].password
         /\ latest'[i].password = latest[i].password
  BY DEF RowsInv, UpdateEmail, Account, Contact
<1>3. EmailsDistinct'
  BY <1>1, <1>2 DEF RowsInv, EmailsDistinct, UniqueEmail
<1> QED
  BY <1>1, <1>2, <1>3 DEF RowsInv

\* An UPDATE of the password.
LEMMA UpdatePasswordKeepsRows ==
    ASSUME RowsInv, NEW n \in Name, NEW w \in Password, UpdatePassword(n, w)
    PROVE  RowsInv'
<1>1. /\ DOMAIN account' = DOMAIN account /\ DOMAIN latest' = DOMAIN account
      /\ account' \in [DOMAIN account -> Account] /\ latest' \in [DOMAIN account -> Contact]
  <2>1. PICK A : A = DOMAIN account
    OBVIOUS
  <2>2. account \in [A -> Account] /\ latest \in [A -> Contact]
    BY <2>1 DEF RowsInv
  <2>3. account' \in [A -> Account]
    BY <2>2 DEF UpdatePassword, Account
  <2>4. latest' \in [A -> Contact]
    BY <2>2 DEF UpdatePassword, Contact
  <2> QED
    BY <2>1, <2>2, <2>3, <2>4
<1>2. \A i \in DOMAIN account :
         /\ account'[i].email = account[i].email /\ latest'[i].email = latest[i].email
         /\ account'[i].password = (IF i = n THEN w ELSE account[i].password)
         /\ latest'[i].password = (IF i = n THEN w ELSE latest[i].password)
  BY DEF RowsInv, UpdatePassword, Account, Contact
<1> QED
  BY <1>1, <1>2 DEF RowsInv, EmailsDistinct

----------------------------------------------------------------------------
(* The threads.                                                            *)

\* A request that reads and goes on.
LEMMA BeginKeeps ==
    ASSUME IInv, NEW p \in Thread, NEW x \in Request, Begin(p, x),
           x \in ResetPasswordRequest => x.link \in DOMAIN link
    PROVE  IInv'
<1>1. RowsInv' /\ TokensInv'
  BY DEF IInv, Begin, RowsInv, TokensInv, EmailsDistinct
<1>2. /\ running[p] = {}
      /\ \A q \in Thread : running'[q] = IF q = p THEN {x} ELSE running[q]
      /\ running' \in [Thread -> SUBSET Request]
      /\ reset' = reset /\ link' = link
  BY DEF IInv, ThreadsInv, Begin
<1>3. {account[n] : n \in GetByUsername(x.name)} \subseteq Account
  BY DEF IInv, RowsInv, GetByUsername
<1>4. loaded' \in [Thread -> SUBSET Account]
  BY <1>3 DEF IInv, ThreadsInv, Begin
<1>5. requests' \in 0..MaxRequests
  BY AccountsAssumption DEF IInv, ThreadsInv, Begin
<1>6. p \notin reset
  BY <1>2 DEF IInv, ThreadsInv
<1> QED
  BY <1>1, <1>2, <1>4, <1>5, <1>6 DEF IInv, ThreadsInv

\* The end of a request: nobody's token loses its row.
LEMMA EndKeepsThreads ==
    ASSUME ThreadsInv, NEW p \in Thread, End(p), UNCHANGED requests,
           DOMAIN link \subseteq DOMAIN link'
    PROVE  ThreadsInv'
<1>1. /\ running' \in [Thread -> SUBSET Request] /\ loaded' \in [Thread -> SUBSET Account]
      /\ \A q \in Thread : running'[q] = IF q = p THEN {} ELSE running[q]
      /\ reset' = reset \ {p}
  BY DEF ThreadsInv, End
<1> QED
  BY <1>1 DEF ThreadsInv

\* A step that ends a request and leaves the tokens alone.
LEMMA EndKeepsRest ==
    ASSUME IInv, NEW p \in Thread, End(p), UNCHANGED <<link, mailed, requests>>, RowsInv'
    PROVE  IInv'
<1>1. ThreadsInv'
  BY EndKeepsThreads DEF IInv
<1>2. TokensInv'
  BY DEF IInv, TokensInv
<1> QED
  BY <1>1, <1>2 DEF IInv

\* The same when no row of an account changes.
LEMMA RowsStay == ASSUME RowsInv, UNCHANGED <<account, latest>> PROVE RowsInv'
BY DEF RowsInv, EmailsDistinct

----------------------------------------------------------------------------
(* The actions.                                                            *)

LEMMA RegisterKeeps == ASSUME IInv, NEW p \in Thread, Register(p) PROVE IInv'
<1>1. PICK x \in UserRegister : Begin(p, x)
  BY DEF Register
<1> QED
  BY <1>1, BeginKeeps, Kinds, OtherKinds

LEMMA ChangeEmailKeeps == ASSUME IInv, NEW p \in Thread, ChangeEmail(p) PROVE IInv'
<1>1. PICK x \in UpdateEmailRequest : Begin(p, x)
  BY DEF ChangeEmail
<1> QED
  BY <1>1, BeginKeeps, Kinds, OtherKinds

LEMMA ChangePasswordKeeps == ASSUME IInv, NEW p \in Thread, ChangePassword(p) PROVE IInv'
<1>1. PICK x \in UpdatePasswordRequest : Begin(p, x)
  BY DEF ChangePassword
<1> QED
  BY <1>1, BeginKeeps, Kinds, OtherKinds

LEMMA ForgotPasswordKeeps == ASSUME IInv, NEW p \in Thread, ForgotPassword(p) PROVE IInv'
<1>1. PICK e \in Email : \E n \in GetByEmail(e) :
         Begin(p, [kind |-> "forgot", name |-> n, email |-> e])
  BY DEF ForgotPassword
<1>2. PICK n \in GetByEmail(e) : Begin(p, [kind |-> "forgot", name |-> n, email |-> e])
  BY <1>1
<1>3. n \in Name
  BY DEF IInv, RowsInv, GetByEmail
<1>4. [kind |-> "forgot", name |-> n, email |-> e] \in ForgotPasswordRequest
  BY <1>3 DEF ForgotPasswordRequest
<1> QED
  BY <1>2, <1>4, BeginKeeps, Kinds, OtherKinds

LEMMA ResetPasswordKeeps == ASSUME IInv, NEW p \in Thread, ResetPassword(p) PROVE IInv'
<1>1. PICK t \in mailed, w \in Password :
         Begin(p, [kind |-> "reset", name |-> link[t].user, link |-> t, new |-> w])
  BY DEF ResetPassword
<1>2. t \in DOMAIN link /\ t \in Link /\ link[t].user \in Name
  BY DEF IInv, TokensInv, PasswordResetToken
<1>3. [kind |-> "reset", name |-> link[t].user, link |-> t, new |-> w] \in ResetPasswordRequest
  BY <1>2 DEF ResetPasswordRequest
<1> QED
  BY <1>1, <1>2, <1>3, BeginKeeps, Kinds

LEMMA StartProcessKeeps == ASSUME IInv, NEW p \in Thread, StartProcess(p) PROVE IInv'
<1>1. [kind |-> "start", name |-> Admin] \in Start
  BY DEF Start
<1> QED
  BY <1>1, BeginKeeps, Kinds, OtherKinds DEF StartProcess

LEMMA CreateKeeps ==
    ASSUME IInv, NEW p \in Thread, NEW x \in Request, NEW row \in Account,
           x.name \in Name, Create(p, x, row)
    PROVE  IInv'
<1>1. RowsInv'
  BY WriteKeepsRows, RowsStay DEF IInv, Create
<1> QED
  BY <1>1, EndKeepsRest DEF Create

LEMMA CreateUserKeeps == ASSUME IInv, NEW p \in Thread, CreateUser(p) PROVE IInv'
<1>1. PICK x \in UserRegister :
         Create(p, x, [email |-> x.email, password |-> x.password, admin |-> FALSE])
  BY DEF CreateUser
<1>2. /\ x.name \in Name
      /\ [email |-> x.email, password |-> x.password, admin |-> FALSE] \in Account
  BY DEF UserRegister, Account
<1> QED
  BY <1>1, <1>2, CreateKeeps, Kinds

LEMMA SeedAdminKeeps == ASSUME IInv, NEW p \in Thread, SeedAdmin(p) PROVE IInv'
<1>1. PICK x \in Start :
         Create(p, x, [email |-> NoEmail, password |-> AdminPassword, admin |-> TRUE])
  BY DEF SeedAdmin
<1>2. /\ x.name \in Name
      /\ [email |-> NoEmail, password |-> AdminPassword, admin |-> TRUE] \in Account
  BY AccountsAssumption DEF Start, Account
<1> QED
  BY <1>1, <1>2, CreateKeeps, Kinds

LEMMA CommitEmailKeeps == ASSUME IInv, NEW p \in Thread, CommitEmail(p) PROVE IInv'
<1>1. PICK x \in UpdateEmailRequest :
         \/ UniqueEmail(x.name, x.email) /\ UpdateEmail(x.name, x.email)
         \/ UNCHANGED <<account, latest>>
  BY DEF CommitEmail
<1>2. x.name \in Name /\ x.email \in Email
  BY DEF UpdateEmailRequest
<1>3. RowsInv'
  BY <1>1, <1>2, UpdateEmailKeepsRows, RowsStay DEF IInv
<1> QED
  BY <1>3, EndKeepsRest DEF CommitEmail

LEMMA CommitPasswordKeeps == ASSUME IInv, NEW p \in Thread, CommitPassword(p) PROVE IInv'
<1>1. PICK x \in UpdatePasswordRequest : UpdatePassword(x.name, x.new)
  BY DEF CommitPassword
<1>2. x.name \in Name /\ x.new \in Password
  BY DEF UpdatePasswordRequest
<1>3. RowsInv'
  BY <1>1, <1>2, UpdatePasswordKeepsRows DEF IInv
<1> QED
  BY <1>3, EndKeepsRest DEF CommitPassword

LEMMA PromoteAdminKeeps == ASSUME IInv, NEW p \in Thread, PromoteAdmin(p) PROVE IInv'
<1>1. /\ account' = [account EXCEPT ![Admin].admin = TRUE] /\ latest' = latest
      /\ End(p) /\ UNCHANGED <<link, mailed, requests>>
  BY DEF PromoteAdmin
<1>2. DOMAIN account' = DOMAIN account /\ account' \in [DOMAIN account -> Account]
  BY <1>1 DEF IInv, RowsInv, Account
<1>3. \A i \in DOMAIN account : /\ account'[i].email = account[i].email
                                /\ account'[i].password = account[i].password
  BY <1>1 DEF IInv, RowsInv, Account
<1>4. RowsInv'
  BY <1>1, <1>2, <1>3 DEF IInv, RowsInv, EmailsDistinct
<1> QED
  BY <1>1, <1>4, EndKeepsRest

LEMMA CrashKeeps == ASSUME IInv, NEW p \in Thread, Crash(p) PROVE IInv'
BY RowsStay, EndKeepsRest DEF IInv, Crash

LEMMA CreateTokenKeeps == ASSUME IInv, NEW p \in Thread, CreateToken(p) PROVE IInv'
<1> DEFINE row(n) == [user |-> n, used |-> FALSE, expired |-> FALSE]
<1>1. PICK x \in ForgotPasswordRequest, t \in Link \ DOMAIN link :
         link' = Put(link, t, row(x.name)) /\ mailed' \in {mailed, mailed \cup {t}}
  BY DEF CreateToken
<1>2. row(x.name) \in PasswordResetToken
  BY DEF ForgotPasswordRequest, PasswordResetToken
<1> HIDE DEF row
<1>3. /\ DOMAIN link' = DOMAIN link \cup {t} /\ link'[t] = row(x.name)
      /\ \A s \in DOMAIN link : s # t /\ link'[s] = link[s]
      /\ link' \in [DOMAIN link' -> PasswordResetToken]
  BY <1>1, <1>2 DEF Put, IInv, TokensInv
<1>4. End(p) /\ UNCHANGED <<account, latest, requests>>
  BY DEF CreateToken
<1>5. TokensInv'
  BY <1>1, <1>3, <1>4 DEF IInv, TokensInv
<1> QED
  BY <1>3, <1>4, <1>5, RowsStay, EndKeepsThreads DEF IInv

LEMMA ExpireKeeps == ASSUME IInv, NEW t \in Link, Expire(t) PROVE IInv'
<1>1. /\ DOMAIN link' = DOMAIN link /\ link' \in [DOMAIN link -> PasswordResetToken]
      /\ \A s \in DOMAIN link : link'[s].used = link[s].used
  BY DEF IInv, TokensInv, Expire, PasswordResetToken
<1>2. UNCHANGED <<account, mailed, running, loaded, reset, latest, requests>>
  BY DEF Expire
<1>3. TokensInv' /\ ThreadsInv'
  BY <1>1, <1>2 DEF IInv, TokensInv, ThreadsInv
<1> QED
  BY <1>2, <1>3, RowsStay DEF IInv

LEMMA CommitResetKeeps == ASSUME IInv, NEW p \in Thread, CommitReset(p) PROVE IInv'
<1>1. PICK x \in running[p] \cap ResetPasswordRequest : UpdatePassword(x.name, x.new)
  BY DEF CommitReset
<1>2. x.name \in Name /\ x.new \in Password
  BY DEF ResetPasswordRequest
<1>3. RowsInv'
  BY <1>1, <1>2, UpdatePasswordKeepsRows DEF IInv
<1>4. reset' = reset \cup {p} /\ UNCHANGED <<link, mailed, running, loaded, requests>>
  BY DEF CommitReset
<1>5. running[p] = {x}
  BY <1>1 DEF IInv, ThreadsInv
<1>6. ThreadsInv'
  BY <1>1, <1>4, <1>5 DEF IInv, ThreadsInv
<1>7. TokensInv'
  BY <1>4 DEF IInv, TokensInv
<1> QED
  BY <1>3, <1>6, <1>7 DEF IInv

LEMMA MarkTokenUsedKeeps == ASSUME IInv, NEW p \in Thread, MarkTokenUsed(p) PROVE IInv'
<1>1. PICK x \in running[p] : link' = [link EXCEPT ![x.link].used = TRUE]
  BY DEF MarkTokenUsed
<1>2. x.link \in DOMAIN link
  BY DEF IInv, ThreadsInv, MarkTokenUsed
<1>3. DOMAIN link' = DOMAIN link /\ link' \in [DOMAIN link -> PasswordResetToken]
  BY <1>1, <1>2 DEF IInv, TokensInv, PasswordResetToken
<1>4. End(p) /\ UNCHANGED <<account, mailed, latest, requests>>
  BY DEF MarkTokenUsed
<1>5. TokensInv'
  BY <1>1, <1>2, <1>3, <1>4 DEF IInv, TokensInv
<1> QED
  BY <1>3, <1>4, <1>5, RowsStay, EndKeepsThreads DEF IInv

LEMMA NextKeeps == ASSUME IInv, [Next]_vars PROVE IInv'
<1>1. CASE UNCHANGED vars
  BY <1>1 DEF vars, IInv, RowsInv, TokensInv, ThreadsInv, EmailsDistinct
<1>2. CASE Next
  BY <1>2, RegisterKeeps, CreateUserKeeps, ChangeEmailKeeps, CommitEmailKeeps,
     ChangePasswordKeeps, CommitPasswordKeeps, ForgotPasswordKeeps, CreateTokenKeeps,
     ExpireKeeps, ResetPasswordKeeps, CommitResetKeeps, MarkTokenUsedKeeps,
     StartProcessKeeps, SeedAdminKeeps, PromoteAdminKeeps, CrashKeeps DEF Next
<1> QED
  BY <1>1, <1>2

LEMMA InitIInv == ASSUME Init PROVE IInv
<1>1. /\ DOMAIN account = {} /\ account \in [{} -> Account]
      /\ DOMAIN latest = {} /\ latest \in [{} -> Contact]
      /\ DOMAIN link = {} /\ link \in [{} -> PasswordResetToken]
  BY DEF Init
<1>2. RowsInv /\ TokensInv
  BY <1>1 DEF Init, RowsInv, TokensInv, EmailsDistinct
<1>3. ThreadsInv
  BY AccountsAssumption DEF Init, ThreadsInv
<1> QED
  BY <1>2, <1>3 DEF IInv

LEMMA Invariance == Spec => []IInv
BY InitIInv, NextKeeps, PTL DEF Spec

----------------------------------------------------------------------------
(* The theorems.                                                           *)

\* Every row, token, request and history keeps its type.
THEOREM TypeCorrect == Spec => []TypeOK
<1>1. ASSUME IInv PROVE TypeOK
  <2>1. \A p \in Thread : IsFiniteSet(running[p]) /\ Cardinality(running[p]) <= 1
    <3>1. TAKE p \in Thread
    <3>2. CASE running[p] = {}
      BY <3>2, FS_EmptySet
    <3>3. CASE \E x \in Request : running[p] = {x}
      <4>1. PICK x : running[p] = {x}
        BY <3>3
      <4>2. IsFiniteSet({x}) /\ Cardinality({x}) = 1
        BY FS_Singleton
      <4> QED
        BY <4>1, <4>2
    <3> QED
      BY <1>1, <3>2, <3>3 DEF IInv, ThreadsInv
  <2>2. /\ DOMAIN account \subseteq Name /\ \A n \in DOMAIN account : account[n] \in Account
        /\ DOMAIN latest = DOMAIN account /\ \A n \in DOMAIN latest : latest[n] \in Contact
    BY <1>1 DEF IInv, RowsInv
  <2>3. /\ DOMAIN link \subseteq Link /\ \A t \in DOMAIN link : link[t] \in PasswordResetToken
        /\ mailed \subseteq DOMAIN link
    BY <1>1 DEF IInv, TokensInv
  <2>4. /\ running \in [Thread -> SUBSET Request] /\ loaded \in [Thread -> SUBSET Account]
        /\ reset \subseteq Thread /\ requests \in 0..MaxRequests
    BY <1>1 DEF IInv, ThreadsInv
  <2> QED
    BY <2>1, <2>2, <2>3, <2>4 DEF TypeOK, Contact
<1> QED
  BY <1>1, Invariance, PTL

\* What a request has set is not undone by another that read an older row.
THEOREM ChangesKeptCorrect == Spec => []ChangesKept
<1>1. IInv => ChangesKept
  BY DEF IInv, RowsInv, ChangesKept, GetProfile
<1> QED
  BY <1>1, Invariance, PTL

\* No two accounts get one address.
THEOREM EmailsDistinctCorrect == Spec => []EmailsDistinct
<1>1. IInv => EmailsDistinct
  BY DEF IInv, RowsInv
<1> QED
  BY <1>1, Invariance, PTL

=============================================================================
