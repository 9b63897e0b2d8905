------------------------------- MODULE Sessions -------------------------------
(***************************************************************************)
(* Sessions and the second factor in auth-service: login, logout, and the  *)
(* set-up, use and removal of TOTP (routers/auth.py, auth_service.py,      *)
(* two_factor_service.py, core/security.py), and how message-service holds *)
(* a token against the list of revoked ones.                               *)
(*                                                                         *)
(* Everything here has a life time: the access token, the entry that       *)
(* revokes it, the temp_token between password and code, the code itself   *)
(* and the mark that it was used.  The clock counts TOTP periods.  A       *)
(* request is a thread of one of several processes: it reads the row, asks *)
(* Redis, and commits, and the threads interleave between these; Redis or  *)
(* the process may fail at any of them.  A login, and what one request     *)
(* reads of the database, is one step: its outcome is settled by the row.  *)
(* The password is taken to be right (module Accounts).                    *)
(***************************************************************************)
EXTENDS Integers, FiniteSets

CONSTANTS User,
          Secret,       \* TOTP secrets, each generated once
          NoSecret,     \* NULL in totp_secret
          AccessToken,
          TempToken,
          Thread,       \* threads that serve requests, of all processes
          AppEnv,       \* APP_ENV: "dev", "staging" or "prod"
          MessageRedis, \* whether message-service found Redis when it started
          TokenLife,    \* ACCESS_TOKEN_EXPIRE_HOURS
          TempTokenLife,\* _2FA_TEMP_TOKEN_TTL
          ReplayLife,   \* TTL of totp_used, 90 s
          Window,       \* valid_window of verify_totp
          MaxTime,      \* bound: the clock
          MaxRequests   \* bound: logins and other requests

ASSUME SessionsAssumption ==
    /\ NoSecret \notin Secret
    /\ AppEnv \in {"dev", "staging", "prod"}
    /\ MessageRedis \in BOOLEAN
    /\ TokenLife \in Nat \ {0} /\ TempTokenLife \in Nat \ {0}
    /\ ReplayLife \in Nat /\ Window \in Nat
    /\ MaxTime \in Nat /\ MaxRequests \in Nat

Step  == (0 - Window)..(MaxTime + Window)
Times == 0..(MaxTime + TokenLife + TempTokenLife + ReplayLife)

\* The code that an authenticator with the secret shows in a period.
Code == [secret : Secret, step : Step]

\* What a token stands for, and until when; gone is the absence of a key.
Lease == [user : User, exp : Times]

\* The requests, as the endpoints take them; the temp_token answers a login.
SetupRequest       == [kind : {"setup"}, user : User, secret : Secret]
Verify2FARequest   == [kind : {"enable"}, user : User, code : Code]
DisableRequest     == [kind : {"disable"}, user : User, code : Code]
VerifyLoginRequest == [kind : {"login"}, user : User, code : Code, temp : TempToken]
LogoutRequest      == [kind : {"logout"}, user : User, token : AccessToken]

Request == UNION {SetupRequest, Verify2FARequest, DisableRequest, VerifyLoginRequest, LogoutRequest}

Stage == {"idle", "check", "mark", "commit"}

VARIABLES clock,
          second,     \* user -> columns totp_secret and is_2fa_enabled
          generated,  \* secrets that a set-up has generated
          token,      \* access token -> its lease (none or one): the claims of the JWT
          blacklist,  \* Redis: access token -> when the key blacklist:{token} expires
          challenge,  \* Redis: temp_token -> the lease 2fa_temp:{token} (none or one)
          issued,     \* temp_tokens handed out so far
          used,       \* Redis: code -> when the key totp_used:{user}:{code} expires
          running,    \* thread -> the requests it is in the middle of (none or one)
          stage,      \* thread -> what it does next
          accepted,   \* history: user and code taken for a login or a removal
          late,       \* history: threads that began with a code taken before
          repeated,   \* history: codes that such a thread was given once more
          loggedOut,  \* history: access tokens whose logout was answered
          requests    \* requests so far, for the bound

vars == <<clock, second, generated, token, blacklist, challenge, issued, used, running, stage,
          accepted, late, repeated, loggedOut, requests>>

columns == <<second, generated>>
tokens  == <<token, blacklist, loggedOut>>
codes   == <<used, accepted, repeated>>
temps   == <<challenge, issued>>

----------------------------------------------------------------------------
(* Which tokens and codes are good.                                        *)

Unexpired(t) == \E l \in token[t] : clock < l.exp
Blacklisted(t) == clock < blacklist[t]

\* decode_token of auth-service; up tells whether Redis answers.
DecodeToken(t, up) ==
    /\ Unexpired(t)
    /\ IF up THEN ~Blacklisted(t) ELSE AppEnv # "prod"

\* get_current_user of message-service, which asks Redis only if it has a client.
MessageServiceAccepts(t, up) ==
    /\ Unexpired(t)
    /\ MessageRedis => IF up THEN ~Blacklisted(t) ELSE AppEnv # "prod"

\* A request of user u carries a token that is accepted.
GetCurrentUser(u) ==
    \E t \in AccessToken, up \in BOOLEAN :
        /\ \E l \in token[t] : l.user = u
        /\ DecodeToken(t, up)

\* verify_totp, against the secret in the row.
VerifyTotp(u, c) ==
    /\ c.secret = second[u].secret
    /\ c.step \in (clock - Window)..(clock + Window)

PeekTempToken(m) == {l \in challenge[m] : clock < l.exp}

----------------------------------------------------------------------------
\* A user either has no second factor yet, or set it up before.
Init ==
    /\ clock     = 0
    /\ second \in [User -> [secret : Secret, enabled : {TRUE}]
                         \cup [secret : {NoSecret}, enabled : {FALSE}]]
    /\ \A u, v \in User :
          u # v /\ second[u].secret = second[v].secret => second[u].secret = NoSecret
    /\ generated = {second[u].secret : u \in User} \ {NoSecret}
    /\ token     = [t \in AccessToken |-> {}]
    /\ blacklist = [t \in AccessToken |-> 0]
    /\ challenge = [m \in TempToken |-> {}]
    /\ issued    = {}
    /\ used      = [c \in User \X Code |-> 0]
    /\ running   = [p \in Thread |-> {}]
    /\ stage     = [p \in Thread |-> "idle"]
    /\ accepted  = {}
    /\ late      = {}
    /\ repeated  = {}
    /\ loggedOut = {}
    /\ requests  = 0

\* A TOTP period ends.
Tick ==
    /\ clock < MaxTime /\ clock' = clock + 1
    /\ UNCHANGED <<columns, tokens, codes, temps, running, stage, late, requests>>

Count == requests < MaxRequests /\ requests' = requests + 1

\* Thread p takes request x, which passes what it reads, and goes on at stage s.
Begin(p, x, s) ==
    /\ Count
    /\ running[p] = {}
    /\ running' = [running EXCEPT ![p] = {x}]
    /\ stage'   = [stage EXCEPT ![p] = s]
    /\ late'    = IF s = "check" /\ <<x.user, x.code>> \in accepted THEN late \cup {p} ELSE late
    /\ UNCHANGED <<clock, columns, tokens, codes, temps>>

End(p) ==
    /\ running' = [running EXCEPT ![p] = {}]
    /\ stage'   = [stage EXCEPT ![p] = "idle"]
    /\ late'    = late \ {p}
    /\ UNCHANGED <<clock, requests>>

CreateAccessToken(u) ==
    \E t \in AccessToken :
        /\ token[t] = {}
        /\ token' = [token EXCEPT ![t] = {[user |-> u, exp |-> clock + TokenLife]}]
        /\ UNCHANGED <<blacklist, loggedOut>>

----------------------------------------------------------------------------
(* POST /login, in its two outcomes, and POST /logout.                     *)

Login(u) ==
    /\ ~second[u].enabled
    /\ Count /\ CreateAccessToken(u)
    /\ UNCHANGED <<clock, columns, codes, temps, running, stage, late>>

StoreTempToken(u) ==
    /\ second[u].enabled
    /\ Count
    /\ \E m \in TempToken \ issued :
          /\ challenge' = [challenge EXCEPT ![m] =
                              {[user |-> u, exp |-> clock + TempTokenLife]}]
          /\ issued' = issued \cup {m}
    /\ UNCHANGED <<clock, columns, tokens, codes, running, stage, late>>

Logout(p) ==
    \E t \in AccessToken, up \in BOOLEAN :
        /\ DecodeToken(t, up)
        /\ \E l \in token[t] :
              Begin(p, [kind |-> "logout", user |-> l.user, token |-> t], "commit")

\* Mutant: the key lives for as long as a temp_token.
RevokeBriefly(p) ==
    /\ \E x \in running[p] :
          /\ x.kind = "logout"
          /\ blacklist' = [blacklist EXCEPT ![x.token] = clock + TempTokenLife]
          /\ loggedOut' = loggedOut \cup {x.token}
    /\ End(p) /\ UNCHANGED <<columns, token, codes, temps>>

Revoke(p) ==
    /\ \E x \in running[p] :
          /\ x.kind = "logout"
          /\ blacklist' = [blacklist EXCEPT ![x.token] = clock + TokenLife]
          /\ loggedOut' = loggedOut \cup {x.token}
    /\ End(p) /\ UNCHANGED <<columns, token, codes, temps>>

\* Redis fails: the token cannot be revoked, and only a development server
\* answers that the user is logged out.
RevokeFails(p) ==
    /\ \E x \in running[p] :
          /\ x.kind = "logout"
          /\ loggedOut' = IF AppEnv = "dev" THEN loggedOut \cup {x.token} ELSE loggedOut
    /\ End(p) /\ UNCHANGED <<columns, token, blacklist, codes, temps>>

----------------------------------------------------------------------------
(* POST /2fa/setup and POST /2fa/verify-setup.                             *)

Setup(p) ==
    \E u \in User, s \in Secret \ generated :
        /\ GetCurrentUser(u) /\ ~second[u].enabled
        /\ Begin(p, [kind |-> "setup", user |-> u, secret |-> s], "commit")

\* update_2fa_secret; the answer shows the user the secret.
CommitSecret(p) ==
    /\ \E x \in running[p] :
          /\ x.kind = "setup" /\ x.secret \notin generated
          /\ second'    = [second EXCEPT ![x.user].secret = x.secret]
          /\ generated' = generated \cup {x.secret}
    /\ End(p) /\ UNCHANGED <<tokens, codes, temps>>

VerifySetup(p) ==
    \E u \in User :
        /\ GetCurrentUser(u) /\ ~second[u].enabled
        /\ \E c \in Code :
              /\ VerifyTotp(u, c)
              /\ Begin(p, [kind |-> "enable", user |-> u, code |-> c], "commit")

CommitEnable(p) ==
    /\ \E x \in running[p] :
          /\ x.kind = "enable"
          /\ second' = [second EXCEPT ![x.user].enabled = TRUE]
    /\ End(p) /\ UNCHANGED <<generated, tokens, codes, temps>>

----------------------------------------------------------------------------
(* POST /2fa/disable and POST /2fa/verify-login.                           *)

Disable(p) ==
    \E u \in User :
        /\ GetCurrentUser(u) /\ second[u].enabled
        /\ \E c \in Code :
              /\ VerifyTotp(u, c)
              /\ Begin(p, [kind |-> "disable", user |-> u, code |-> c], "check")

VerifyLogin(p) ==
    \E m \in TempToken : \E l \in PeekTempToken(m), c \in Code :
        /\ second[l.user].enabled /\ VerifyTotp(l.user, c)
        /\ Begin(p, [kind |-> "login", user |-> l.user, code |-> c, temp |-> m], "check")

\* check_and_mark_totp_replay: GET, which refuses a code that was used...
CheckReplay(p) ==
    /\ stage[p] = "check"
    /\ \E x \in running[p] :
          IF clock < used[<<x.user, x.code>>]
          THEN End(p)
          ELSE /\ stage' = [stage EXCEPT ![p] = "mark"]
               /\ late'  = IF clock > x.code.step + Window THEN late \ {p} ELSE late
               /\ UNCHANGED <<clock, running, requests>>
    /\ UNCHANGED <<columns, tokens, codes, temps>>

\* Mutant: a mark that lasts for the period of the code and no longer.
MarkPeriod(p) ==
    /\ stage[p] = "mark" /\ stage' = [stage EXCEPT ![p] = "commit"]
    /\ \E x \in running[p] :
          /\ used'     = [used EXCEPT ![<<x.user, x.code>>] = clock + 1]
          /\ accepted' = accepted \cup {<<x.user, x.code>>}
          /\ repeated' = IF p \in late THEN repeated \cup {x.code} ELSE repeated
    /\ UNCHANGED <<clock, columns, tokens, temps, running, late, requests>>

\* ... and SETEX.
Mark(p) ==
    /\ stage[p] = "mark" /\ stage' = [stage EXCEPT ![p] = "commit"]
    /\ \E x \in running[p] :
          /\ used'     = [used EXCEPT ![<<x.user, x.code>>] = clock + ReplayLife]
          /\ accepted' = accepted \cup {<<x.user, x.code>>}
          /\ repeated' = IF p \in late THEN repeated \cup {x.code} ELSE repeated
    /\ UNCHANGED <<clock, columns, tokens, temps, running, late, requests>>

\* Mutant: all columns of the second factor are set to NULL.
CommitDisableNull(p) ==
    /\ stage[p] = "commit"
    /\ \E x \in running[p] :
          /\ x.kind = "disable"
          /\ second' = [second EXCEPT ![x.user] = [secret |-> NoSecret, enabled |-> NoSecret]]
    /\ End(p) /\ UNCHANGED <<generated, tokens, codes, temps>>

CommitDisable(p) ==
    /\ stage[p] = "commit"
    /\ \E x \in running[p] :
          /\ x.kind = "disable"
          /\ second' = [second EXCEPT ![x.user] = [secret |-> NoSecret, enabled |-> FALSE]]
    /\ End(p) /\ UNCHANGED <<generated, tokens, codes, temps>>

\* The temp_token is deleted, if it still is there, and the session begins.
ConsumeTempToken(p) ==
    /\ stage[p] = "commit"
    /\ \E x \in running[p] :
          /\ x.kind = "login"
          /\ challenge' = [challenge EXCEPT ![x.temp] = {}]
          /\ CreateAccessToken(x.user)
    /\ End(p) /\ UNCHANGED <<columns, codes, issued>>

\* The process dies, or Redis or the database fails; nobody is answered.
Fail(p) ==
    /\ running[p] # {}
    /\ End(p) /\ UNCHANGED <<columns, tokens, codes, temps>>

Next ==
    \/ Tick
    \/ \E u \in User : Login(u)
    \/ \E u \in User : StoreTempToken(u)
    \/ \E p \in Thread : Logout(p)
    \/ \E p \in Thread : Revoke(p)
    \/ \E p \in Thread : RevokeFails(p)
    \/ \E p \in Thread : Setup(p)
    \/ \E p \in Thread : CommitSecret(p)
    \/ \E p \in Thread : VerifySetup(p)
    \/ \E p \in Thread : CommitEnable(p)
    \/ \E p \in Thread : Disable(p)
    \/ \E p \in Thread : VerifyLogin(p)
    \/ \E p \in Thread : CheckReplay(p)
    \/ \E p \in Thread : Mark(p)
    \/ \E p \in Thread : CommitDisable(p)
    \/ \E p \in Thread : ConsumeTempToken(p)
    \/ \E p \in Thread : Fail(p)

Spec == Init /\ [][Next]_vars

----------------------------------------------------------------------------
(* Properties.                                                             *)

\* Every variable has its type, and a thread serves one request at a time.
TypeOK ==
    /\ clock \in 0..MaxTime
    /\ second \in [User -> [secret : Secret \cup {NoSecret}, enabled : BOOLEAN]]
    /\ generated \subseteq Secret
    /\ token \in [AccessToken -> SUBSET Lease]
    /\ blacklist \in [AccessToken -> Times]
    /\ challenge \in [TempToken -> SUBSET Lease] /\ issued \subseteq TempToken
    /\ used \in [User \X Code -> Times]
    /\ running \in [Thread -> SUBSET Request] /\ stage \in [Thread -> Stage]
    /\ \A p \in Thread : \A x, y \in running[p] : x = y
    /\ accepted \subseteq User \X Code /\ late \subseteq Thread /\ repeated \subseteq Code
    /\ loggedOut \subseteq AccessToken
    /\ requests \in 0..MaxRequests

\* Once a logout was answered, neither service takes the token again, be Redis
\* up or down: the entry that revokes it outlives the token.
LoggedOutStaysOut ==
    \A t \in loggedOut, up \in BOOLEAN :
        ~DecodeToken(t, up) /\ ~MessageServiceAccepts(t, up)

\* The mark that a code was used lasts until the code is out of its window: a
\* code that was taken is not given to a request that begins later and asks for
\* the mark within the window, also when the one that took it failed.  Two
\* requests at once, and one that asks after the window in which it verified the
\* code, are what check_and_mark_totp_replay does not see.
CodeOnce == repeated = {}

=============================================================================
