------------------------------- MODULE Accounts -------------------------------
(***************************************************************************)
(* The accounts of auth-service: registration, profile, change of email    *)
(* and password, forgotten passwords, and the admin account that every     *)
(* process seeds when it starts (routers/auth.py, auth_service.py,         *)
(* password_reset_service.py, user_dal.py, password_reset_dal.py, main.py).*)
(* Sessions and the second factor are module Sessions.                     *)
(*                                                                         *)
(* A request is a thread of one of several processes.  It first reads the  *)
(* rows it decides upon, then commits, once or twice: its reads are one    *)
(* step and each commit is another, and the requests of all threads        *)
(* interleave.  A process may die, or its database connection break,       *)
(* before any commit.  A request that is refused by what it reads, and one *)
(* that only reads, changes nothing and is not a step.  Usernames stand    *)
(* for themselves in lower case (index ix_users_username_lower).           *)
(***************************************************************************)
EXTENDS Integers, FiniteSets, Functions

CONSTANTS Name,       \* usernames, in lower case
          Admin,      \* ADMIN_USERNAME
          Email,      \* addresses as they are written
          Fold,       \* address -> what it is in lower case
          NoEmail,    \* the NULL of the seeded admin's email column
          Password,
          AdminPassword,
          Link,       \* tokens of password-reset mails
          Thread,     \* threads that serve requests, of all processes
          MaxRequests \* bound: requests and process starts

ASSUME AccountsAssumption ==
    /\ Admin \in Name /\ AdminPassword \in Password
    /\ Fold \in [Email -> Email]
    /\ NoEmail \notin Email
    /\ MaxRequests \in Nat

\* A row of table users, as far as this module goes.
Account == [email : Email \cup {NoEmail}, password : Password, admin : BOOLEAN]

\* A row of table password_reset_tokens.
PasswordResetToken == [user : Name, used : BOOLEAN, expired : BOOLEAN]

\* The bodies of the requests, with the account that the bearer token names.
UserRegister          == [kind : {"register"}, name : Name, email : Email, password : Password]
UpdateEmailRequest    == [kind : {"email"}, name : Name, email : Email, password : Password]
UpdatePasswordRequest == [kind : {"password"}, name : Name, password : Password, new : Password]
ForgotPasswordRequest == [kind : {"forgot"}, name : Name, email : Email]
ResetPasswordRequest  == [kind : {"reset"}, name : Name, link : Link, new : Password]
Start                 == [kind : {"start"}, name : {Admin}]

Request == UNION {UserRegister, UpdateEmailRequest, UpdatePasswordRequest,
                  ForgotPasswordRequest, ResetPasswordRequest, Start}

VARIABLES account,  \* username -> its row, for those that have one
          link,     \* token -> its row of password_reset_tokens, for those that have one
          mailed,   \* tokens that a mail has brought to the user
          running,  \* thread -> the requests it is in the middle of (none or one)
          loaded,   \* thread -> the row of account it decided upon (none or one)
          reset,    \* threads that have committed the password of a reset
          latest,   \* history: username -> email and password that were last set
          requests  \* requests so far, for the bound

vars == <<account, link, mailed, running, loaded, reset, latest, requests>>

----------------------------------------------------------------------------
(* user_dal.py and password_reset_dal.py: what the requests read.          *)

GetByUsername(n) == {k \in DOMAIN account : k = n}

GetByEmail(e) ==
    {k \in DOMAIN account : account[k].email # NoEmail /\ Fold[account[k].email] = Fold[e]}

GetValidToken(t) == {k \in DOMAIN link : k = t /\ ~link[k].used /\ ~link[k].expired}

\* GET /profile, and GET /users/by-username/{username} for the other services.
GetProfile(n)        == [username |-> n, email |-> account[n].email]
GetUserByUsername(n) == [username |-> n, email |-> account[n].email,
                         is_global_admin |-> account[n].admin]

\* Unique constraints on users.username and, as it is written, users.email.
UniqueUsername(n) == n \notin DOMAIN account

\* Mutant: a column email without the constraint.
UniqueEmailNot(n, e) == TRUE

UniqueEmail(n, e) == \A k \in DOMAIN account \ {n} : account[k].email # e

\* The password that the client sends is held against the row that was read.
VerifyPassword(x) == account[x.name].password = x.password

Put(f, k, v) == [i \in DOMAIN f \cup {k} |-> IF i = k THEN v ELSE f[i]]

----------------------------------------------------------------------------
Init ==
    /\ account  = [n \in {} |-> NoEmail]
    /\ link     = [t \in {} |-> NoEmail]
    /\ mailed   = {}
    /\ running  = [p \in Thread |-> {}]
    /\ loaded   = [p \in Thread |-> {}]
    /\ reset    = {}
    /\ latest   = [n \in {} |-> NoEmail]
    /\ requests = 0

\* Thread p takes request x, which passes what it reads.
Begin(p, x) ==
    /\ running[p] = {} /\ requests < MaxRequests
    /\ requests' = requests + 1
    /\ running'  = [running EXCEPT ![p] = {x}]
    /\ loaded'   = [loaded EXCEPT ![p] = {account[n] : n \in GetByUsername(x.name)}]
    /\ UNCHANGED <<account, link, mailed, reset, latest>>

\* The answer, or the end of the thread: the session is closed.
End(p) ==
    /\ running' = [running EXCEPT ![p] = {}]
    /\ loaded'  = [loaded EXCEPT ![p] = {}]
    /\ reset'   = reset \ {p}

\* INSERT or UPDATE of the row of n.
Write(n, row) ==
    /\ account' = Put(account, n, row)
    /\ latest'  = Put(latest, n, [email |-> row.email, password |-> row.password])

\* UPDATE of one column of the row of n, whatever the other columns are by now.
UpdateEmail(n, e)    == /\ account' = [account EXCEPT ![n].email = e]
                        /\ latest'  = [latest EXCEPT ![n].email = e]
UpdatePassword(n, w) == /\ account' = [account EXCEPT ![n].password = w]
                        /\ latest'  = [latest EXCEPT ![n].password = w]

----------------------------------------------------------------------------
(* POST /register.                                                         *)

Register(p) ==
    \E x \in UserRegister :
        /\ GetByUsername(x.name) = {} /\ GetByEmail(x.email) = {}
        /\ Begin(p, x)

\* create, with the IntegrityError that the service answers as a conflict.
Create(p, x, row) ==
    /\ IF UniqueUsername(x.name) /\ UniqueEmail(x.name, row.email)
       THEN Write(x.name, row) ELSE UNCHANGED <<account, latest>>
    /\ End(p) /\ UNCHANGED <<link, mailed, requests>>

CreateUser(p) ==
    \E x \in running[p] \cap UserRegister :
        Create(p, x, [email |-> x.email, password |-> x.password, admin |-> FALSE])

----------------------------------------------------------------------------
(* PATCH /profile/email and PATCH /profile/password.                       *)

ChangeEmail(p) ==
    \E x \in UpdateEmailRequest :
        /\ GetByUsername(x.name) # {} /\ VerifyPassword(x)
        /\ GetByEmail(x.email) = {} \/ x.name \in GetByEmail(x.email)
        /\ Begin(p, x)

\* There is no UPDATE when the row had that address; the IntegrityError of an
\* address that another account has by now is not handled, and answered as 500.
CommitEmail(p) ==
    /\ \E x \in running[p] \cap UpdateEmailRequest, row \in loaded[p] :
          IF row.email # x.email /\ UniqueEmail(x.name, x.email)
          THEN UpdateEmail(x.name, x.email) ELSE UNCHANGED <<account, latest>>
    /\ End(p) /\ UNCHANGED <<link, mailed, requests>>

ChangePassword(p) ==
    \E x \in UpdatePasswordRequest :
        /\ GetByUsername(x.name) # {} /\ VerifyPassword(x)
        /\ Begin(p, x)

\* Mutant: the row is written back as it was read.
CommitPasswordRow(p) ==
    /\ \E x \in running[p] \cap UpdatePasswordRequest, row \in loaded[p] :
          /\ account' = [account EXCEPT ![x.name] = [row EXCEPT !.password = x.new]]
          /\ latest'  = [latest EXCEPT ![x.name].password = x.new]
    /\ End(p) /\ UNCHANGED <<link, mailed, requests>>

CommitPassword(p) ==
    /\ \E x \in running[p] \cap UpdatePasswordRequest : UpdatePassword(x.name, x.new)
    /\ End(p) /\ UNCHANGED <<link, mailed, requests>>

----------------------------------------------------------------------------
(* POST /forgot-password and POST /reset-password.                         *)

ForgotPassword(p) ==
    \E e \in Email : \E n \in GetByEmail(e) :
        Begin(p, [kind |-> "forgot", name |-> n, email |-> e])

\* Mutant: the mail goes out before the commit, which may fail.
CreateTokenLast(p) ==
    /\ \E x \in running[p] \cap ForgotPasswordRequest, t \in Link \ DOMAIN link :
          /\ link' \in {link, Put(link, t, [user |-> x.name, used |-> FALSE, expired |-> FALSE])}
          /\ mailed' = mailed \cup {t}
    /\ End(p) /\ UNCHANGED <<account, latest, requests>>

\* create_token, and the mail, which may fail and is not sent again.
CreateToken(p) ==
    /\ \E x \in running[p] \cap ForgotPasswordRequest, t \in Link \ DOMAIN link :
          /\ link' = Put(link, t, [user |-> x.name, used |-> FALSE, expired |-> FALSE])
          /\ mailed' \in {mailed, mailed \cup {t}}
    /\ End(p) /\ UNCHANGED <<account, latest, requests>>

\* An hour goes by.
Expire(t) ==
    /\ t \in DOMAIN link
    /\ link' = [link EXCEPT ![t].expired = TRUE]
    /\ UNCHANGED <<account, mailed, running, loaded, reset, latest, requests>>

ResetPassword(p) ==
    \E t \in mailed, w \in Password :
        /\ GetValidToken(t) # {}
        /\ Begin(p, [kind |-> "reset", name |-> link[t].user, link |-> t, new |-> w])

CommitReset(p) ==
    /\ p \notin reset /\ reset' = reset \cup {p}
    /\ \E x \in running[p] \cap ResetPasswordRequest : UpdatePassword(x.name, x.new)
    /\ UNCHANGED <<link, mailed, running, loaded, requests>>

MarkTokenUsed(p) ==
    /\ p \in reset
    /\ \E x \in running[p] : link' = [link EXCEPT ![x.link].used = TRUE]
    /\ End(p) /\ UNCHANGED <<account, mailed, latest, requests>>

----------------------------------------------------------------------------
(* lifespan: a process that starts seeds the admin, or promotes the account *)
(* that has its name; an exception is logged and the process starts.        *)

StartProcess(p) ==
    /\ \A n \in GetByUsername(Admin) : ~GetUserByUsername(n).is_global_admin
    /\ Begin(p, [kind |-> "start", name |-> Admin])

SeedAdmin(p) ==
    \E x \in running[p] \cap Start :
        /\ loaded[p] = {}
        /\ Create(p, x, [email |-> NoEmail, password |-> AdminPassword, admin |-> TRUE])

PromoteAdmin(p) ==
    /\ running[p] \cap Start # {} /\ loaded[p] # {}
    /\ account' = [account EXCEPT ![Admin].admin = TRUE]
    /\ End(p) /\ UNCHANGED <<link, mailed, latest, requests>>

\* The process dies or loses its database; nobody is answered.
Crash(p) ==
    /\ running[p] # {}
    /\ End(p) /\ UNCHANGED <<account, link, mailed, latest, requests>>

Next ==
    \/ \E p \in Thread : Register(p)
    \/ \E p \in Thread : CreateUser(p)
    \/ \E p \in Thread : ChangeEmail(p)
    \/ \E p \in Thread : CommitEmail(p)
    \/ \E p \in Thread : ChangePassword(p)
    \/ \E p \in Thread : CommitPassword(p)
    \/ \E p \in Thread : ForgotPassword(p)
    \/ \E p \in Thread : CreateToken(p)
    \/ \E t \in Link : Expire(t)
    \/ \E p \in Thread : ResetPassword(p)
    \/ \E p \in Thread : CommitReset(p)
    \/ \E p \in Thread : MarkTokenUsed(p)
    \/ \E p \in Thread : StartProcess(p)
    \/ \E p \in Thread : SeedAdmin(p)
    \/ \E p \in Thread : PromoteAdmin(p)
    \/ \E p \in Thread : Crash(p)

Spec == Init /\ [][Next]_vars

----------------------------------------------------------------------------
(* Properties.                                                             *)

\* Every variable has its type.
TypeOK ==
    /\ DOMAIN account \subseteq Name /\ \A n \in DOMAIN account : account[n] \in Account
    /\ DOMAIN link \subseteq Link /\ \A t \in DOMAIN link : link[t] \in PasswordResetToken
    /\ mailed \subseteq DOMAIN link
    /\ running \in [Thread -> SUBSET Request] /\ loaded \in [Thread -> SUBSET Account]
    /\ \A p \in Thread : IsFiniteSet(running[p]) /\ Cardinality(running[p]) <= 1
    /\ reset \subseteq Thread
    /\ DOMAIN latest = DOMAIN account
    /\ \A n \in DOMAIN latest : latest[n] \in [email : Email \cup {NoEmail}, password : Password]
    /\ requests \in 0..MaxRequests

\* What a request has set stays until another sets the same: a change of email
\* that overlaps a change of password, a reset or a process start is not undone
\* by the row that the other one read before it.
ChangesKept ==
    \A n \in DOMAIN account : /\ GetProfile(n).email = latest[n].email
                             /\ account[n].password = latest[n].password

\* However registrations and changes of email overlap, between the look-up that
\* refuses an address in use and the commit, no two accounts get one address.
EmailsDistinct ==
    \A n, k \in DOMAIN account :
        n # k /\ account[n].email = account[k].email => account[n].email = NoEmail

=============================================================================
