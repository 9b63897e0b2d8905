--------------------------- MODULE Sessions_proofs ---------------------------
(***************************************************************************)
(* Proofs about module Sessions, for any users, secrets, tokens, threads   *)
(* and life times.  The type invariant holds always.  The two others hold  *)
(* under conditions on the constants that the theorems name: how the       *)
(* services are deployed, and that the mark of a code outlives its window. *)
(***************************************************************************)
EXTENDS Sessions, TLAPS

----------------------------------------------------------------------------
(* Data.                                                                   *)

Coded == {"enable", "disable", "login"}

\* The fields that each kind of request has.
LEMMA RequestFields ==
    \A x \in Request :
        /\ x.user \in User
        /\ x.kind \in {"setup", "enable", "disable", "login", "logout"}
        /\ x.kind = "setup" => x.secret \in Secret
        /\ x.kind = "logout" => x.token \in AccessToken
        /\ x.kind = "login" => x.temp \in TempToken
        /\ x.kind \in Coded => x.code \in Code
BY DEF Request, SetupRequest, Verify2FARequest, DisableRequest, VerifyLoginRequest,
       LogoutRequest, Coded

LEMMA CodeFields == \A c \in Code : c.secret \in Secret /\ c.secret # NoSecret /\ c.step \in Int
<1>1. Step \subseteq Int
  BY SessionsAssumption DEF Step
<1> QED
  BY <1>1, SessionsAssumption DEF Code

\* A lease that is given out now has a time of its kind.
LEMMA LeaseTimes ==
    \A n \in 0..MaxTime :
        /\ n \in Times /\ n + TokenLife \in Times /\ n + TempTokenLife \in Times
        /\ n + ReplayLife \in Times
BY SessionsAssumption DEF Times

----------------------------------------------------------------------------
(* Types.                                                                  *)

\* A thread that is about to ask Redis about a code has one.
StageOK ==
    \A p \in Thread : \A x \in running[p] :
        stage[p] \in {"check", "mark"} => x.kind \in {"disable", "login"}

TypeInv == TypeOK /\ StageOK

\* Begin and End move one thread.
LEMMA BeginKeepsTypes ==
    ASSUME TypeInv, NEW p \in Thread, NEW x \in Request, NEW s \in Stage, Begin(p, x, s),
           s \in {"check", "mark"} => x.kind \in {"disable", "login"}
    PROVE  TypeInv'
<1>1. /\ running' \in [Thread -> SUBSET Request] /\ stage' \in [Thread -> Stage]
      /\ \A q \in Thread : running'[q] = IF q = p THEN {x} ELSE running[q]
      /\ \A q \in Thread : stage'[q] = IF q = p THEN s ELSE stage[q]
      /\ late' \subseteq Thread
  BY DEF Begin, TypeInv, TypeOK
<1>2. requests' \in 0..MaxRequests
  BY SessionsAssumption DEF Begin, Count, TypeInv, TypeOK
<1>3. UNCHANGED <<clock, columns, tokens, codes, temps>>
  BY DEF Begin
<1>4. StageOK'
  BY <1>1 DEF TypeInv, StageOK
<1>5. TypeOK'
  BY <1>1, <1>2, <1>3 DEF TypeInv, TypeOK, columns, tokens, codes, temps
<1> QED
  BY <1>4, <1>5 DEF TypeInv

LEMMA EndMoves ==
    ASSUME TypeInv, NEW p \in Thread, End(p)
    PROVE  /\ running' \in [Thread -> SUBSET Request] /\ stage' \in [Thread -> Stage]
           /\ \A q \in Thread : running'[q] = IF q = p THEN {} ELSE running[q]
           /\ \A q \in Thread : stage'[q] = IF q = p THEN "idle" ELSE stage[q]
           /\ \A q \in Thread : \A x, y \in running'[q] : x = y
           /\ clock' \in 0..MaxTime /\ requests' \in 0..MaxRequests
           /\ StageOK' /\ late' \subseteq Thread
<1>1. /\ running' \in [Thread -> SUBSET Request] /\ stage' \in [Thread -> Stage]
      /\ \A q \in Thread : running'[q] = IF q = p THEN {} ELSE running[q]
      /\ \A q \in Thread : stage'[q] = IF q = p THEN "idle" ELSE stage[q]
  BY DEF End, TypeInv, TypeOK, Stage
<1>2. UNCHANGED <<clock, requests>> /\ late' = late \ {p}
  BY DEF End
<1> QED
  BY <1>1, <1>2 DEF TypeInv, TypeOK, StageOK

\* What a thread works on is a request.
LEMMA Typed ==
    ASSUME TypeInv, NEW p \in Thread, NEW x \in running[p]
    PROVE  /\ x \in Request /\ x.user \in User /\ running[p] = {x}
           /\ clock \in 0..MaxTime /\ clock \in Nat
BY RequestFields, SessionsAssumption DEF TypeInv, TypeOK

\* What a request has passed when it begins.
Passed(x, s) ==
    /\ x \in Request
    /\ x.kind = "logout" => token[x.token] # {}
    /\ x.kind = "setup" => ~second[x.user].enabled
    /\ x.kind \in Coded => VerifyTotp(x.user, x.code)
    /\ s = "commit" \/ (s = "check" /\ x.kind \in {"disable", "login"})

LEMMA Begins ==
    ASSUME TypeInv, NEW p \in Thread,
           Logout(p) \/ Setup(p) \/ VerifySetup(p) \/ Disable(p) \/ VerifyLogin(p)
    PROVE  \E x, s : Passed(x, s) /\ Begin(p, x, s)
<1>1. CASE Logout(p)
  <2>1. PICK t \in AccessToken : \E l \in token[t] :
           Begin(p, [kind |-> "logout", user |-> l.user, token |-> t], "commit")
    BY <1>1 DEF Logout
  <2>2. PICK l \in token[t] :
           Begin(p, [kind |-> "logout", user |-> l.user, token |-> t], "commit")
    BY <2>1
  <2>3. l.user \in User
    BY DEF TypeInv, TypeOK, Lease
  <2>4. [kind |-> "logout", user |-> l.user, token |-> t] \in Request
    BY <2>3 DEF Request, LogoutRequest
  <2> QED
    BY <2>2, <2>4 DEF Passed, Coded
<1>2. CASE Setup(p)
  <2>1. PICK u \in User, s \in Secret \ generated :
           ~second[u].enabled /\ Begin(p, [kind |-> "setup", user |-> u, secret |-> s], "commit")
    BY <1>2 DEF Setup
  <2>2. [kind |-> "setup", user |-> u, secret |-> s] \in Request
    BY DEF Request, SetupRequest
  <2> QED
    BY <2>1, <2>2 DEF Passed, Coded
<1>3. CASE VerifySetup(p)
  <2>3. PICK u \in User : \E c \in Code :
           VerifyTotp(u, c) /\ Begin(p, [kind |-> "enable", user |-> u, code |-> c], "commit")
    BY <1>3 DEF VerifySetup
  <2>1. PICK c \in Code :
           VerifyTotp(u, c) /\ Begin(p, [kind |-> "enable", user |-> u, code |-> c], "commit")
    BY <2>3
  <2>2. [kind |-> "enable", user |-> u, code |-> c] \in Request
    BY DEF Request, Verify2FARequest
  <2> QED
    BY <2>1, <2>2 DEF Passed, Coded
<1>4. CASE Disable(p)
  <2>3. PICK u \in User : \E c \in Code :
           VerifyTotp(u, c) /\ Begin(p, [kind |-> "disable", user |-> u, code |-> c], "check")
    BY <1>4 DEF Disable
  <2>1. PICK c \in Code :
           VerifyTotp(u, c) /\ Begin(p, [kind |-> "disable", user |-> u, code |-> c], "check")
    BY <2>3
  <2>2. [kind |-> "disable", user |-> u, code |-> c] \in Request
    BY DEF Request, DisableRequest
  <2> QED
    BY <2>1, <2>2 DEF Passed, Coded
<1>5. CASE VerifyLogin(p)
  <2>1. PICK m \in TempToken : \E l \in PeekTempToken(m), c \in Code :
           VerifyTotp(l.user, c) /\ Begin(p, [kind |-> "login", user |-> l.user, code |-> c, temp |-> m], "check")
    BY <1>5 DEF VerifyLogin
  <2>2. PICK l \in PeekTempToken(m), c \in Code :
           VerifyTotp(l.user, c) /\ Begin(p, [kind |-> "login", user |-> l.user, code |-> c, temp |-> m], "check")
    BY <2>1
  <2>3. l.user \in User
    BY DEF TypeInv, TypeOK, Lease, PeekTempToken
  <2>4. [kind |-> "login", user |-> l.user, code |-> c, temp |-> m] \in Request
    BY <2>3 DEF Request, VerifyLoginRequest
  <2> QED
    BY <2>2, <2>4 DEF Passed, Coded
<1> QED
  BY <1>1, <1>2, <1>3, <1>4, <1>5

LEMMA BeginsTyped ==
    ASSUME TypeInv, NEW p \in Thread,
           Logout(p) \/ Setup(p) \/ VerifySetup(p) \/ Disable(p) \/ VerifyLogin(p)
    PROVE  TypeInv'
BY Begins, BeginKeepsTypes DEF Passed, Stage

\* A session that begins takes a token that was not used.
LEMMA CreateAccessTokenTyped ==
    ASSUME TypeInv, NEW u \in User, CreateAccessToken(u)
    PROVE  /\ token' \in [AccessToken -> SUBSET Lease]
           /\ UNCHANGED <<blacklist, loggedOut>>
<1>1. [user |-> u, exp |-> clock + TokenLife] \in Lease
  BY LeaseTimes DEF TypeInv, TypeOK, Lease
<1> QED
  BY <1>1 DEF CreateAccessToken, TypeInv, TypeOK

LEMMA LoginsTyped ==
    ASSUME TypeInv, NEW u \in User, Login(u) \/ StoreTempToken(u)
    PROVE  TypeInv'
<1>1. requests' \in 0..MaxRequests /\ UNCHANGED <<clock, columns, codes, running, stage, late>>
  BY SessionsAssumption DEF Login, StoreTempToken, Count, TypeInv, TypeOK
<1>2. /\ token' \in [AccessToken -> SUBSET Lease] /\ UNCHANGED <<blacklist, loggedOut>>
      /\ challenge' \in [TempToken -> SUBSET Lease] /\ issued' \subseteq TempToken
  <2>1. CASE Login(u)
    BY <2>1, CreateAccessTokenTyped DEF Login, temps, TypeInv, TypeOK
  <2>2. CASE StoreTempToken(u)
    <3>1. [user |-> u, exp |-> clock + TempTokenLife] \in Lease
      BY LeaseTimes DEF TypeInv, TypeOK, Lease
    <3> QED
      BY <2>2, <3>1 DEF StoreTempToken, tokens, TypeInv, TypeOK
  <2> QED
    BY <2>1, <2>2
<1> QED
  BY <1>1, <1>2 DEF TypeInv, TypeOK, StageOK, columns, codes

\* A column of one row is set.
LEMMA SecondSet ==
    ASSUME TypeInv, NEW u \in User
    PROVE  /\ \A s : [second EXCEPT ![u].secret = s] =
                 [second EXCEPT ![u] = [secret |-> s, enabled |-> second[u].enabled]]
           /\ [second EXCEPT ![u].enabled = TRUE] =
                 [second EXCEPT ![u] = [secret |-> second[u].secret, enabled |-> TRUE]]
           /\ second[u].secret \in Secret \cup {NoSecret} /\ second[u].enabled \in BOOLEAN
<1>1. second[u] \in [secret : Secret \cup {NoSecret}, enabled : BOOLEAN]
  BY DEF TypeInv, TypeOK
<1>2. \A s : [second[u] EXCEPT !.secret = s] = [secret |-> s, enabled |-> second[u].enabled]
  BY <1>1
<1>3. \A b : [second[u] EXCEPT !.enabled = b] = [secret |-> second[u].secret, enabled |-> b]
  BY <1>1
<1> QED
  BY <1>1, <1>2, <1>3

\* The ends of requests.
LEMMA EndsTyped ==
    ASSUME TypeInv, NEW p \in Thread,
           \/ Revoke(p) \/ RevokeFails(p) \/ CommitSecret(p) \/ CommitEnable(p)
           \/ CommitDisable(p) \/ ConsumeTempToken(p) \/ Fail(p)
    PROVE  TypeInv'
<1> DEFINE Row == [secret : Secret \cup {NoSecret}, enabled : BOOLEAN]
<1>1. End(p)
  BY DEF Revoke, RevokeFails, CommitSecret, CommitEnable, CommitDisable, ConsumeTempToken, Fail
<1>2. UNCHANGED <<used, accepted, repeated, issued>>
  BY DEF Revoke, RevokeFails, CommitSecret, CommitEnable, CommitDisable, ConsumeTempToken, Fail,
         codes, temps
<1>3. second' \in [User -> Row] /\ generated' \subseteq Secret
  <2>1. CASE CommitSecret(p)
    <3>1. PICK x \in running[p] : /\ x.kind = "setup"
                                  /\ second' = [second EXCEPT ![x.user].secret = x.secret]
                                  /\ generated' = generated \cup {x.secret}
      BY <2>1 DEF CommitSecret
    <3>2. x.secret \in Secret /\ x.user \in User
      BY <2>1, <3>1, Typed, RequestFields DEF CommitSecret
    <3>3. second' = [second EXCEPT ![x.user] =
                        [secret |-> x.secret, enabled |-> second[x.user].enabled]]
      BY <3>1, <3>2, SecondSet
    <3>4. second' \in [User -> Row]
      BY <3>2, <3>3, SecondSet DEF TypeInv, TypeOK
    <3> QED
      BY <3>1, <3>2, <3>4 DEF TypeInv, TypeOK
  <2>2. CASE CommitEnable(p)
    <3>1. PICK x \in running[p] : second' = [second EXCEPT ![x.user].enabled = TRUE]
      BY <2>2 DEF CommitEnable
    <3>2. x.user \in User /\ generated' = generated
      BY <2>2, Typed DEF CommitEnable
    <3>3. second' = [second EXCEPT ![x.user] =
                        [secret |-> second[x.user].secret, enabled |-> TRUE]]
      BY <3>1, <3>2, SecondSet
    <3>4. second' \in [User -> Row]
      BY <3>2, <3>3, SecondSet DEF TypeInv, TypeOK
    <3> QED
      BY <3>1, <3>2, <3>4 DEF TypeInv, TypeOK
  <2>3. CASE CommitDisable(p)
    <3>1. PICK x \in running[p] :
             second' = [second EXCEPT ![x.user] = [secret |-> NoSecret, enabled |-> FALSE]]
      BY <2>3 DEF CommitDisable
    <3> QED
      BY <2>3, <3>1 DEF CommitDisable, TypeInv, TypeOK
  <2>4. CASE UNCHANGED columns
    BY <2>4 DEF columns, TypeInv, TypeOK
  <2> QED
    BY <2>1, <2>2, <2>3, <2>4 DEF Revoke, RevokeFails, ConsumeTempToken, Fail
<1>4. /\ token' \in [AccessToken -> SUBSET Lease] /\ blacklist' \in [AccessToken -> Times]
      /\ loggedOut' \subseteq AccessToken
  <2>1. CASE Revoke(p)
    <3>1. PICK x \in running[p] :
             /\ x.kind = "logout"
             /\ blacklist' = [blacklist EXCEPT ![x.token] = clock + TokenLife]
             /\ loggedOut' = loggedOut \cup {x.token}
      BY <2>1 DEF Revoke
    <3>2. x.token \in AccessToken /\ clock + TokenLife \in Times
      BY <3>1, Typed, RequestFields, LeaseTimes
    <3> QED
      BY <2>1, <3>1, <3>2 DEF Revoke, TypeInv, TypeOK
  <2>2. CASE RevokeFails(p)
    <3>1. PICK x \in running[p] : x.kind = "logout" /\ loggedOut' \in {loggedOut, loggedOut \cup {x.token}}
      BY <2>2 DEF RevokeFails
    <3>2. x.token \in AccessToken
      BY <3>1, Typed, RequestFields
    <3> QED
      BY <2>2, <3>1, <3>2 DEF RevokeFails, TypeInv, TypeOK
  <2>3. CASE ConsumeTempToken(p)
    <3>1. PICK x \in running[p] : CreateAccessToken(x.user)
      BY <2>3 DEF ConsumeTempToken
    <3> QED
      BY <3>1, Typed, CreateAccessTokenTyped DEF TypeInv, TypeOK
  <2>4. CASE UNCHANGED tokens
    BY <2>4 DEF tokens, TypeInv, TypeOK
  <2> QED
    BY <2>1, <2>2, <2>3, <2>4 DEF CommitSecret, CommitEnable, CommitDisable, Fail
<1>5. challenge' \in [TempToken -> SUBSET Lease]
  BY DEF Revoke, RevokeFails, CommitSecret, CommitEnable, CommitDisable, ConsumeTempToken, Fail,
         temps, TypeInv, TypeOK
<1> QED
  BY <1>1, <1>2, <1>3, <1>4, <1>5, EndMoves DEF TypeInv, TypeOK

\* The steps that move time or one thread.
LEMMA OthersTyped ==
    ASSUME TypeInv,
           \/ Tick
           \/ \E p \in Thread : CheckReplay(p) \/ Mark(p)
           \/ UNCHANGED vars
    PROVE  TypeInv'
<1>1. CASE Tick
  <2>1. clock' \in 0..MaxTime
    BY <1>1, SessionsAssumption DEF Tick, TypeInv, TypeOK
  <2> QED
    BY <1>1, <2>1 DEF Tick, TypeInv, TypeOK, StageOK, columns, tokens, codes, temps
<1>2. ASSUME NEW p \in Thread, CheckReplay(p) PROVE TypeInv'
  <2>1. PICK x \in running[p] :
           IF clock < used[<<x.user, x.code>>]
           THEN End(p)
           ELSE /\ stage' = [stage EXCEPT ![p] = "mark"] /\ late' \in {late, late \ {p}}
                /\ UNCHANGED <<clock, running, requests>>
    BY <1>2 DEF CheckReplay
  <2>2. stage[p] = "check" /\ UNCHANGED <<columns, tokens, codes, temps>>
    BY <1>2 DEF CheckReplay
  <2>3. CASE End(p)
    BY <2>2, <2>3, EndMoves DEF TypeInv, TypeOK, columns, tokens, codes, temps
  <2>4. CASE /\ stage' = [stage EXCEPT ![p] = "mark"] /\ late' \in {late, late \ {p}}
             /\ UNCHANGED <<clock, running, requests>>
    BY <2>2, <2>4 DEF TypeInv, TypeOK, StageOK, Stage, columns, tokens, codes, temps
  <2> QED
    BY <2>1, <2>3, <2>4
<1>3. ASSUME NEW p \in Thread, Mark(p) PROVE TypeInv'
  <2>1. PICK x \in running[p] :
          /\ used'     = [used EXCEPT ![<<x.user, x.code>>] = clock + ReplayLife]
          /\ accepted' = accepted \cup {<<x.user, x.code>>}
          /\ repeated' \subseteq repeated \cup {x.code}
    BY <1>3 DEF Mark
  <2>2. stage' = [stage EXCEPT ![p] = "commit"] /\ stage[p] = "mark"
        /\ UNCHANGED <<clock, columns, tokens, temps, running, late, requests>>
    BY <1>3 DEF Mark
  <2>3. x.code \in Code
    BY <2>2, Typed, RequestFields DEF TypeInv, StageOK, Coded
  <2>4. used' \in [User \X Code -> Times] /\ accepted' \subseteq User \X Code /\ repeated' \subseteq Code
    BY <2>1, <2>3, Typed, LeaseTimes DEF TypeInv, TypeOK
  <2>5. StageOK' /\ stage' \in [Thread -> Stage]
    BY <2>2 DEF TypeInv, TypeOK, StageOK, Stage
  <2> QED
    BY <2>2, <2>4, <2>5 DEF TypeInv, TypeOK, columns, tokens, temps
<1>4. CASE UNCHANGED vars
  BY <1>4 DEF vars, columns, tokens, codes, temps, TypeInv, TypeOK, StageOK
<1> QED
  BY <1>1, <1>2, <1>3, <1>4

LEMMA TypeKept == TypeInv /\ [Next]_vars => TypeInv'
BY BeginsTyped, LoginsTyped, EndsTyped, OthersTyped DEF Next

LEMMA InitTyped == Init => TypeInv
<1> SUFFICES ASSUME Init PROVE TypeInv
  OBVIOUS
<1>1. 0 \in Times /\ 0 \in 0..MaxTime /\ 0 \in 0..MaxRequests
  BY SessionsAssumption DEF Times
<1>2. second \in [User -> [secret : Secret \cup {NoSecret}, enabled : BOOLEAN]]
  BY DEF Init
<1>3. generated \subseteq Secret
  BY <1>2 DEF Init
<1>4. TypeOK
  BY <1>1, <1>2, <1>3 DEF Init, TypeOK, Stage
<1>5. StageOK
  BY DEF Init, StageOK
<1> QED
  BY <1>4, <1>5 DEF TypeInv

\* Every variable keeps its type, for any users, secrets and life times.
THEOREM TypeCorrect == Spec => []TypeOK
<1>1. TypeInv => TypeOK
  BY DEF TypeInv
<1> QED
  BY <1>1, InitTyped, TypeKept, PTL DEF Spec

\* What Begin does, thread by thread.
LEMMA BeginMoves ==
    ASSUME TypeInv, NEW p \in Thread, NEW x, NEW s, Begin(p, x, s)
    PROVE  /\ \A q \in Thread : running'[q] = IF q = p THEN {x} ELSE running[q]
           /\ \A q \in Thread : stage'[q] = IF q = p THEN s ELSE stage[q]
           /\ late' = IF s = "check" /\ <<x.user, x.code>> \in accepted THEN late \cup {p} ELSE late
           /\ UNCHANGED <<clock, columns, tokens, codes, temps>>
BY DEF Begin, TypeInv, TypeOK

----------------------------------------------------------------------------
(* A token that was logged out stays out, in production and with Redis     *)
(* found by message-service.  The entry that revokes a token lasts as long *)
(* as any token that exists when it is written.                            *)

Production == AppEnv = "prod" /\ MessageRedis

RevokedInv ==
    /\ \A t \in AccessToken : \A l \in token[t] : l.exp <= clock + TokenLife
    /\ \A p \in Thread : \A x \in running[p] : x.kind = "logout" => token[x.token] # {}
    /\ \A t \in loggedOut : token[t] # {} /\ \A l \in token[t] : l.exp <= blacklist[t]

\* Times are numbers.
LEMMA TokenTimes ==
    ASSUME TypeInv
    PROVE  /\ clock \in Int /\ TokenLife \in Int
           /\ \A t \in AccessToken : blacklist[t] \in Int /\ \A l \in token[t] : l.exp \in Int
BY SessionsAssumption DEF TypeInv, TypeOK, Lease, Times

\* Steps that leave the tokens alone and start no logout of an unknown token.
LEMMA TokensFrame ==
    ASSUME TypeInv, RevokedInv, UNCHANGED tokens, clock' \in {clock, clock + 1},
           \A p \in Thread : \A x \in running'[p] :
               x \in running[p] \/ (x.kind = "logout" => token[x.token] # {})
    PROVE  RevokedInv'
<1>1. \A t \in AccessToken : \A l \in token[t] : l.exp <= clock' + TokenLife
  BY TokenTimes DEF RevokedInv
<1> QED
  BY <1>1 DEF RevokedInv, tokens

\* Steps that begin a session.
LEMMA NewTokenKeepsRevoked ==
    ASSUME TypeInv, RevokedInv, NEW u \in User, CreateAccessToken(u), clock' = clock,
           \A p \in Thread : running'[p] \subseteq running[p]
    PROVE  RevokedInv'
<1>1. PICK t \in AccessToken :
         token[t] = {} /\ token' = [token EXCEPT ![t] = {[user |-> u, exp |-> clock + TokenLife]}]
  BY DEF CreateAccessToken
<1>2. UNCHANGED <<blacklist, loggedOut>>
  BY DEF CreateAccessToken
<1>3. t \notin loggedOut /\ loggedOut \subseteq AccessToken
  BY <1>1 DEF RevokedInv, TypeInv, TypeOK
<1>4. \A v \in AccessToken :
         token'[v] = IF v = t THEN {[user |-> u, exp |-> clock + TokenLife]} ELSE token[v]
  BY <1>1 DEF TypeInv, TypeOK
<1>5. \A v \in AccessToken : token[v] # {} => token'[v] # {}
  BY <1>4
<1>6. \A v \in AccessToken : \A l \in token'[v] : l.exp <= clock + TokenLife
  BY <1>4, TokenTimes DEF RevokedInv
<1>7. \A p \in Thread : \A x \in running'[p] : x.kind = "logout" => token'[x.token] # {}
  BY <1>5, RequestFields DEF RevokedInv, TypeInv, TypeOK
<1> QED
  BY <1>2, <1>3, <1>4, <1>6, <1>7 DEF RevokedInv

LEMMA RevokeKeepsRevoked ==
    ASSUME TypeInv, RevokedInv, NEW p \in Thread, Revoke(p)
    PROVE  RevokedInv'
<1>1. PICK x \in running[p] :
         /\ x.kind = "logout"
         /\ blacklist' = [blacklist EXCEPT ![x.token] = clock + TokenLife]
         /\ loggedOut' = loggedOut \cup {x.token}
  BY DEF Revoke
<1>2. x.token \in AccessToken /\ token[x.token] # {}
  BY <1>1, Typed, RequestFields DEF RevokedInv
<1>3. End(p) /\ UNCHANGED <<token, clock>>
  BY DEF Revoke, End
<1>4. \A q \in Thread : running'[q] \subseteq running[q]
  BY <1>3, EndMoves
<1>5. \A t \in AccessToken : blacklist'[t] = IF t = x.token THEN clock + TokenLife ELSE blacklist[t]
  BY <1>1, <1>2 DEF TypeInv, TypeOK
<1>6. loggedOut \subseteq AccessToken
  BY DEF TypeInv, TypeOK
<1>7. \A t \in loggedOut' : token[t] # {} /\ \A l \in token[t] : l.exp <= blacklist'[t]
  BY <1>1, <1>2, <1>5, <1>6 DEF RevokedInv
<1> QED
  BY <1>3, <1>4, <1>7 DEF RevokedInv

LEMMA RevokedKept ==
    ASSUME Production, TypeInv, RevokedInv, [Next]_vars
    PROVE  RevokedInv'
<1>1. CASE Tick
  BY <1>1, TokensFrame DEF Tick
<1>2. ASSUME NEW u \in User, Login(u) PROVE RevokedInv'
  BY <1>2, NewTokenKeepsRevoked DEF Login
<1>3. ASSUME NEW u \in User, StoreTempToken(u) PROVE RevokedInv'
  BY <1>3, TokensFrame DEF StoreTempToken
<1>4. ASSUME NEW p \in Thread,
             Logout(p) \/ Setup(p) \/ VerifySetup(p) \/ Disable(p) \/ VerifyLogin(p)
      PROVE  RevokedInv'
  <2>1. PICK x, s : Passed(x, s) /\ Begin(p, x, s)
    BY <1>4, Begins
  <2>2. \A q \in Thread : running'[q] = IF q = p THEN {x} ELSE running[q]
    BY <2>1, BeginMoves
  <2>3. UNCHANGED <<clock, tokens>>
    BY <2>1, BeginMoves
  <2>4. x.kind = "logout" => token[x.token] # {}
    BY <2>1 DEF Passed
  <2> QED
    BY <2>2, <2>3, <2>4, TokensFrame
<1>5. ASSUME NEW p \in Thread, Revoke(p) PROVE RevokedInv'
  BY <1>5, RevokeKeepsRevoked
<1>6. ASSUME NEW p \in Thread,
             RevokeFails(p) \/ CommitSecret(p) \/ CommitEnable(p) \/ CommitDisable(p) \/ Fail(p)
      PROVE  RevokedInv'
  <2>1. End(p) /\ UNCHANGED clock
    BY <1>6 DEF RevokeFails, CommitSecret, CommitEnable, CommitDisable, Fail, End
  <2>2. UNCHANGED tokens
    BY <1>6 DEF RevokeFails, CommitSecret, CommitEnable, CommitDisable, Fail, tokens, Production
  <2> QED
    BY <2>1, <2>2, EndMoves, TokensFrame
<1>7. ASSUME NEW p \in Thread, ConsumeTempToken(p) PROVE RevokedInv'
  <2>1. PICK x \in running[p] : CreateAccessToken(x.user)
    BY <1>7 DEF ConsumeTempToken
  <2>2. End(p) /\ UNCHANGED clock
    BY <1>7 DEF ConsumeTempToken, End
  <2> QED
    BY <2>1, <2>2, Typed, EndMoves, NewTokenKeepsRevoked
<1>8. ASSUME NEW p \in Thread, CheckReplay(p) PROVE RevokedInv'
  <2>1. End(p) \/ UNCHANGED running
    BY <1>8 DEF CheckReplay
  <2>2. UNCHANGED <<tokens, clock>>
    BY <1>8 DEF CheckReplay, End
  <2> QED
    BY <2>1, <2>2, EndMoves, TokensFrame
<1>9. ASSUME NEW p \in Thread, Mark(p) PROVE RevokedInv'
  BY <1>9, TokensFrame DEF Mark
<1>10. CASE UNCHANGED vars
  BY <1>10, TokensFrame DEF vars, tokens
<1> QED
  BY <1>1, <1>2, <1>3, <1>4, <1>5, <1>6, <1>7, <1>8, <1>9, <1>10 DEF Next

\* A token whose logout was answered is taken by neither service again, for
\* any life times, in production with Redis found by message-service.
THEOREM LoggedOutCorrect ==
    ASSUME Production
    PROVE  Spec => []LoggedOutStaysOut
<1>1. Init => RevokedInv
  BY DEF Init, RevokedInv
<1>2. TypeInv /\ RevokedInv => LoggedOutStaysOut
  <2> SUFFICES ASSUME TypeInv, RevokedInv, NEW t \in loggedOut
               PROVE  Unexpired(t) => Blacklisted(t)
    BY DEF LoggedOutStaysOut, DecodeToken, MessageServiceAccepts, Production
  <2> QED
    BY TokenTimes DEF Unexpired, Blacklisted, RevokedInv, TypeInv, TypeOK
<1>3. TypeInv /\ RevokedInv /\ [Next]_vars => RevokedInv'
  BY RevokedKept
<1> QED
  BY <1>1, <1>2, <1>3, InitTyped, TypeKept, PTL DEF Spec

----------------------------------------------------------------------------
(* A code that was taken is not given to a request that begins later and   *)
(* asks within its window, when the mark outlives the window.              *)

\* The mark of a code that was taken is there until the window has passed.
MarksInv == \A a \in accepted : used[a] > a[2].step + Window

\* A code that a request holds has come to its window.  A late request holds a
\* code that was taken, and does not get past the check within the window.
HeldInv ==
    \A p \in Thread : \A x \in running[p] :
        /\ stage[p] \in {"check", "mark"} => clock >= x.code.step - Window
        /\ p \in late /\ stage[p] = "check" => <<x.user, x.code>> \in accepted
        /\ p \in late => stage[p] # "mark"

LateInv == \A p \in late : running[p] # {}

OnceInv == MarksInv /\ HeldInv /\ LateInv /\ repeated = {}

LEMMA CodeTimes ==
    ASSUME TypeInv
    PROVE  /\ clock \in Int /\ Window \in Int /\ ReplayLife \in Int
           /\ \A a \in accepted : a[2].step \in Int /\ used[a] \in Int
BY CodeFields, SessionsAssumption DEF TypeInv, TypeOK, Times

\* What a request holds of a code.
LEMMA Held ==
    ASSUME TypeInv, NEW p \in Thread, NEW x \in running[p], stage[p] \in {"check", "mark"}
    PROVE  /\ x.code \in Code /\ x.code.step \in Int /\ x.user \in User
           /\ running[p] = {x} /\ used[<<x.user, x.code>>] \in Int
<1>1. x.kind \in Coded
  BY DEF TypeInv, StageOK, Coded
<1>2. x.code \in Code /\ x.user \in User
  BY <1>1, Typed, RequestFields
<1>3. used[<<x.user, x.code>>] \in Times
  BY <1>2 DEF TypeInv, TypeOK
<1> QED
  BY <1>2, <1>3, Typed, CodeFields, SessionsAssumption DEF Times

\* Steps that leave the codes alone and only end requests.
LEMMA OnceFrame ==
    ASSUME TypeInv, OnceInv, UNCHANGED codes, clock' \in {clock, clock + 1},
           \A p \in Thread : \/ running'[p] = {} /\ p \notin late'
                             \/ /\ running'[p] = running[p] /\ stage'[p] = stage[p]
                                /\ p \in late' <=> p \in late,
           late' \subseteq Thread
    PROVE  OnceInv'
<1>1. HeldInv'
  <2> SUFFICES ASSUME NEW p \in Thread, NEW x \in running'[p]
               PROVE  /\ stage'[p] \in {"check", "mark"} => clock' >= x.code.step - Window
                      /\ p \in late' /\ stage'[p] = "check" => <<x.user, x.code>> \in accepted'
                      /\ p \in late' => stage'[p] # "mark"
    BY DEF HeldInv
  <2>1. x \in running[p] /\ stage'[p] = stage[p] /\ (p \in late' <=> p \in late)
    <3>1. \/ running'[p] = {} /\ p \notin late'
          \/ running'[p] = running[p] /\ stage'[p] = stage[p] /\ (p \in late' <=> p \in late)
      OBVIOUS
    <3>2. running'[p] # {}
      OBVIOUS
    <3> QED
      BY <3>1, <3>2
  <2>2. ASSUME stage'[p] \in {"check", "mark"} PROVE clock' >= x.code.step - Window
    <3>1. x.code.step \in Int /\ clock >= x.code.step - Window
      BY <2>1, <2>2, Held DEF OnceInv, HeldInv
    <3> QED
      BY <3>1, CodeTimes
  <2> QED
    BY <2>1, <2>2 DEF OnceInv, HeldInv, codes
<1>2. LateInv'
  BY DEF OnceInv, LateInv
<1> QED
  BY <1>1, <1>2 DEF OnceInv, MarksInv, codes

LEMMA EndFrame ==
    ASSUME TypeInv, OnceInv, NEW p \in Thread, End(p), UNCHANGED codes
    PROVE  OnceInv'
<1>1. clock' \in {clock, clock + 1} /\ late' = late \ {p} /\ late' \subseteq Thread
  BY DEF End, TypeInv, TypeOK
<1> QED
  BY <1>1, EndMoves, OnceFrame

LEMMA BeginKeepsOnce ==
    ASSUME TypeInv, OnceInv, NEW p \in Thread, NEW x, NEW s, Passed(x, s), Begin(p, x, s)
    PROVE  OnceInv'
<1>1. /\ \A q \in Thread : running'[q] = IF q = p THEN {x} ELSE running[q]
      /\ \A q \in Thread : stage'[q] = IF q = p THEN s ELSE stage[q]
      /\ late' = IF s = "check" /\ <<x.user, x.code>> \in accepted THEN late \cup {p} ELSE late
      /\ UNCHANGED <<clock, used, accepted, repeated>>
  BY BeginMoves DEF codes
<1>2. running[p] = {} /\ p \notin late
  BY DEF Begin, OnceInv, LateInv
<1>3. s = "check" => clock >= x.code.step - Window
  <2> SUFFICES ASSUME s = "check" PROVE clock >= x.code.step - Window
    OBVIOUS
  <2>1. x.code \in Code /\ x.code.step \in (clock - Window)..(clock + Window)
    BY RequestFields DEF Passed, VerifyTotp, Coded
  <2> QED
    BY <2>1, CodeFields, CodeTimes
<1>4. s \in {"commit", "check"}
  BY DEF Passed
<1>5. HeldInv'
  <2> SUFFICES ASSUME NEW q \in Thread, NEW y \in running'[q]
               PROVE  /\ stage'[q] \in {"check", "mark"} => clock' >= y.code.step - Window
                      /\ q \in late' /\ stage'[q] = "check" => <<y.user, y.code>> \in accepted'
                      /\ q \in late' => stage'[q] # "mark"
    BY DEF HeldInv
  <2>1. CASE q = p
    <3>1. y = x /\ stage'[q] = s
      BY <1>1, <2>1
    <3> QED
      BY <1>1, <1>2, <1>3, <1>4, <2>1, <3>1
  <2>2. CASE q # p
    <3>1. y \in running[q] /\ stage'[q] = stage[q] /\ (q \in late' <=> q \in late)
      BY <1>1, <2>2
    <3> QED
      BY <1>1, <3>1 DEF OnceInv, HeldInv
  <2> QED
    BY <2>1, <2>2
<1>6. LateInv'
  <2>1. late' \subseteq late \cup {p} /\ late \subseteq Thread
    BY <1>1 DEF TypeInv, TypeOK
  <2>2. \A q \in late : running[q] # {}
    BY DEF OnceInv, LateInv
  <2> QED
    BY <1>1, <2>1, <2>2 DEF LateInv
<1> QED
  BY <1>1, <1>5, <1>6 DEF OnceInv, MarksInv

\* A late request finds the mark, unless the window has passed.
LEMMA CheckKeepsOnce ==
    ASSUME TypeInv, OnceInv, NEW p \in Thread, CheckReplay(p)
    PROVE  OnceInv'
<1>1. PICK x \in running[p] :
         IF clock < used[<<x.user, x.code>>]
         THEN End(p)
         ELSE /\ stage' = [stage EXCEPT ![p] = "mark"]
              /\ late'  = IF clock > x.code.step + Window THEN late \ {p} ELSE late
              /\ UNCHANGED <<clock, running, requests>>
  BY DEF CheckReplay
<1>2. stage[p] = "check" /\ UNCHANGED <<codes, used, accepted, repeated>>
  BY DEF CheckReplay, codes
<1>3. CASE End(p)
  BY <1>2, <1>3, EndFrame
<1>4. CASE ~(clock < used[<<x.user, x.code>>])
  <2>1. \A q \in Thread : stage'[q] = IF q = p THEN "mark" ELSE stage[q]
    BY <1>1, <1>4 DEF TypeInv, TypeOK
  <2>2. /\ UNCHANGED <<clock, running>> /\ running[p] = {x}
        /\ late' = IF clock > x.code.step + Window THEN late \ {p} ELSE late
    BY <1>1, <1>4, Typed
  <2>3. p \notin late'
    <3> SUFFICES ASSUME p \in late' PROVE FALSE
      OBVIOUS
    <3>1. p \in late /\ ~(clock > x.code.step + Window)
      BY <2>2
    <3>2. <<x.user, x.code>> \in accepted
      BY <1>2, <3>1 DEF OnceInv, HeldInv
    <3>3. used[<<x.user, x.code>>] > x.code.step + Window
      BY <3>2 DEF OnceInv, MarksInv
    <3>4. x.code.step \in Int /\ used[<<x.user, x.code>>] \in Int
      BY <1>2, Held
    <3> QED
      BY <1>4, <3>1, <3>3, <3>4, CodeTimes
  <2>4. HeldInv'
    <3> SUFFICES ASSUME NEW q \in Thread, NEW y \in running'[q]
                 PROVE  /\ stage'[q] \in {"check", "mark"} => clock' >= y.code.step - Window
                        /\ q \in late' /\ stage'[q] = "check" => <<y.user, y.code>> \in accepted'
                        /\ q \in late' => stage'[q] # "mark"
      BY DEF HeldInv
    <3>1. y \in running[q] /\ (q # p => stage'[q] = stage[q] /\ (q \in late' <=> q \in late))
      BY <2>1, <2>2
    <3>2. CASE q = p
      BY <1>2, <2>1, <2>2, <2>3, <3>1, <3>2 DEF OnceInv, HeldInv
    <3>3. CASE q # p
      BY <1>2, <2>2, <3>1, <3>3 DEF OnceInv, HeldInv
    <3> QED
      BY <3>2, <3>3
  <2>5. LateInv'
    BY <2>2 DEF OnceInv, LateInv
  <2> QED
    BY <1>2, <2>4, <2>5 DEF OnceInv, MarksInv
<1> QED
  BY <1>1, <1>3, <1>4

LEMMA MarkKeepsOnce ==
    ASSUME ReplayLife > 2 * Window, TypeInv, OnceInv, NEW p \in Thread, Mark(p)
    PROVE  OnceInv'
<1>1. PICK x \in running[p] :
        /\ used'     = [used EXCEPT ![<<x.user, x.code>>] = clock + ReplayLife]
        /\ accepted' = accepted \cup {<<x.user, x.code>>}
        /\ repeated' = IF p \in late THEN repeated \cup {x.code} ELSE repeated
  BY DEF Mark
<1>2. /\ stage[p] = "mark" /\ UNCHANGED <<clock, running, late>>
      /\ \A q \in Thread : stage'[q] = IF q = p THEN "commit" ELSE stage[q]
  BY DEF Mark, TypeInv, TypeOK
<1>3. /\ x.code \in Code /\ x.code.step \in Int /\ x.user \in User
      /\ clock >= x.code.step - Window /\ p \notin late
  BY <1>2, Held DEF OnceInv, HeldInv
<1>4. /\ \A a \in User \X Code :
            used'[a] = IF a = <<x.user, x.code>> THEN clock + ReplayLife ELSE used[a]
      /\ accepted \subseteq User \X Code
  BY <1>1, <1>3 DEF TypeInv, TypeOK
<1>5. MarksInv'
  <2> SUFFICES ASSUME NEW a \in accepted' PROVE used'[a] > a[2].step + Window
    BY DEF MarksInv
  <2>1. CASE a = <<x.user, x.code>>
    <3>1. used'[a] = clock + ReplayLife /\ a[2].step = x.code.step
      BY <1>3, <1>4, <2>1
    <3> QED
      BY <1>3, <3>1, CodeTimes
  <2>2. CASE a # <<x.user, x.code>>
    <3>1. a \in accepted /\ used'[a] = used[a]
      BY <1>1, <1>4, <2>2
    <3> QED
      BY <3>1 DEF OnceInv, MarksInv
  <2> QED
    BY <2>1, <2>2
<1>6. HeldInv'
  BY <1>1, <1>2 DEF OnceInv, HeldInv
<1>7. LateInv' /\ repeated' = {}
  BY <1>1, <1>2, <1>3 DEF OnceInv, LateInv
<1> QED
  BY <1>5, <1>6, <1>7 DEF OnceInv

LEMMA OnceKept ==
    ASSUME ReplayLife > 2 * Window, TypeInv, OnceInv, [Next]_vars
    PROVE  OnceInv'
<1>1. CASE Tick \/ (\E u \in User : Login(u) \/ StoreTempToken(u)) \/ UNCHANGED vars
  <2>1. UNCHANGED <<running, stage, late, codes>> /\ clock' \in {clock, clock + 1}
    BY <1>1 DEF Tick, Login, StoreTempToken, vars, codes
  <2>2. late' \subseteq Thread
    BY <2>1 DEF TypeInv, TypeOK
  <2> QED
    BY <2>1, <2>2, OnceFrame
<1>2. ASSUME NEW p \in Thread,
             Logout(p) \/ Setup(p) \/ VerifySetup(p) \/ Disable(p) \/ VerifyLogin(p)
      PROVE  OnceInv'
  BY <1>2, Begins, BeginKeepsOnce
<1>3. ASSUME NEW p \in Thread,
             \/ Revoke(p) \/ RevokeFails(p) \/ CommitSecret(p) \/ CommitEnable(p)
             \/ CommitDisable(p) \/ ConsumeTempToken(p) \/ Fail(p)
      PROVE  OnceInv'
  <2>1. End(p) /\ UNCHANGED codes
    BY <1>3 DEF Revoke, RevokeFails, CommitSecret, CommitEnable, CommitDisable, ConsumeTempToken,
       Fail, codes
  <2> QED
    BY <2>1, EndFrame
<1>4. ASSUME NEW p \in Thread, CheckReplay(p) PROVE OnceInv'
  BY <1>4, CheckKeepsOnce
<1>5. ASSUME NEW p \in Thread, Mark(p) PROVE OnceInv'
  BY <1>5, MarkKeepsOnce
<1> QED
  BY <1>1, <1>2, <1>3, <1>4, <1>5 DEF Next

\* No code is given to a request that begins after the code was taken and asks
\* for the mark within the window, for any window and any life time of the mark
\* that is longer than the window.
THEOREM CodeOnceCorrect ==
    ASSUME ReplayLife > 2 * Window
    PROVE  Spec => []CodeOnce
<1>1. Init => OnceInv
  BY DEF Init, OnceInv, MarksInv, HeldInv, LateInv
<1>2. TypeInv /\ OnceInv /\ [Next]_vars => OnceInv'
  BY OnceKept
<1>3. OnceInv => CodeOnce
  BY DEF OnceInv, CodeOnce
<1> QED
  BY <1>1, <1>2, <1>3, InitTyped, TypeKept, PTL DEF Spec
=============================================================================
