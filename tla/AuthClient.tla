------------------------------ MODULE AuthClient ------------------------------
(***************************************************************************)
(* The client by which message-service asks auth-service for the id of a   *)
(* user: retries, and a circuit breaker that all callers in the process    *)
(* share (infrastructure/auth_client.py).  Callers are coroutines of one   *)
(* event loop: they interleave wherever one awaits an answer or sleeps.    *)
(***************************************************************************)
EXTENDS Integers, FiniteSets

CONSTANTS Caller,
          Closed,           \* _circuit_open_since is None
          FailureThreshold,
          RecoveryTimeout,
          MaxRetries,
          CallTime,         \* longest time that a call takes with all its retries
          MaxTime           \* bound: the clock

ASSUME AuthClientAssumption ==
    /\ Closed \notin Nat
    /\ FailureThreshold \in Nat \ {0} /\ RecoveryTimeout \in Nat /\ MaxRetries \in Nat \ {0}
    /\ CallTime \in Nat \ {0} /\ MaxTime \in Nat

Time == 0..MaxTime
Call == [begun : Time, sent : Time, attempt : 1..MaxRetries]

VARIABLES now,
          up,            \* auth-service answers within REQUEST_TIMEOUT
          upSince,       \* when it last came up
          failures,      \* _consecutive_failures; what is beyond the threshold is not counted
          openSince,     \* _circuit_open_since
          call           \* caller -> the calls it is in the middle of (none or one)

authVars == <<now, up, upSince, failures, openSince, call>>

AuthInit ==
    /\ now       = 0
    /\ up        = TRUE
    /\ upSince   = 0
    /\ failures  = 0
    /\ openSince = Closed
    /\ call      = [c \in Caller |-> {}]

\* A call is over after CallTime at the latest.
Tick ==
    /\ now < MaxTime /\ now' = now + 1
    /\ \A c \in Caller : \A x \in call[c] : now < x.begun + CallTime
    /\ UNCHANGED <<up, upSince, failures, openSince, call>>

GoDown ==
    /\ up /\ up' = FALSE
    /\ UNCHANGED <<now, upSince, failures, openSince, call>>

ComeUp ==
    /\ ~up /\ up' = TRUE /\ upSince' = now
    /\ UNCHANGED <<now, failures, openSince, call>>

\* From RecoveryTimeout on every caller passes, until one of them is answered.
IsCircuitOpen == openSince # Closed /\ now - openSince < RecoveryTimeout

RecordSuccess == failures' = 0 /\ openSince' = Closed

\* Mutant: the time at which the circuit closes again is kept instead.
RecordFailureUntil ==
    LET n == IF failures < FailureThreshold THEN failures + 1 ELSE failures
    IN  /\ failures'  = n
        /\ openSince' = IF n >= FailureThreshold THEN now + RecoveryTimeout ELSE openSince

RecordFailure ==
    LET n == IF failures < FailureThreshold THEN failures + 1 ELSE failures
    IN  /\ failures'  = n
        /\ openSince' = IF n >= FailureThreshold THEN now ELSE openSince

GetUserByUsername(c) ==
    /\ call[c] = {} /\ ~IsCircuitOpen
    /\ call' = [call EXCEPT ![c] = {[begun |-> now, sent |-> now, attempt |-> 1]}]
    /\ UNCHANGED <<now, up, upSince, failures, openSince>>

\* Mutant: only a user who exists counts as an answer.
AnsweredFound(c) ==
    /\ up /\ call[c] # {}
    /\ RecordSuccess \/ RecordFailure
    /\ call' = [call EXCEPT ![c] = {}]
    /\ UNCHANGED <<now, up, upSince>>

\* The user, or 404: there is no such user.
Answered(c) ==
    /\ up /\ call[c] # {}
    /\ RecordSuccess
    /\ call' = [call EXCEPT ![c] = {}]
    /\ UNCHANGED <<now, up, upSince>>

\* A 5xx or a timeout, of a request that was under way while the service was
\* down: the next attempt, or the end of the call.
Failed(c) ==
    /\ \E x \in call[c] :
          /\ ~up \/ upSince >= x.sent
          /\ IF x.attempt < MaxRetries
             THEN /\ call' = [call EXCEPT ![c] =
                                 {[begun |-> x.begun, sent |-> now, attempt |-> x.attempt + 1]}]
                  /\ UNCHANGED <<failures, openSince>>
             ELSE /\ RecordFailure
                  /\ call' = [call EXCEPT ![c] = {}]
    /\ UNCHANGED <<now, up, upSince>>

\* An error of another kind, such as a connection that breaks off, is not caught:
\* the call ends without being counted.
Broken(c) ==
    /\ \E x \in call[c] : ~up \/ upSince >= x.sent
    /\ call' = [call EXCEPT ![c] = {}]
    /\ UNCHANGED <<now, up, upSince, failures, openSince>>

AuthTypeOK ==
    /\ now \in Time /\ up \in BOOLEAN /\ upSince \in 0..now
    /\ failures \in 0..FailureThreshold
    /\ openSince \in (0..now) \cup {Closed}
    /\ call \in [Caller -> SUBSET Call]
    /\ \A c \in Caller : \A x, y \in call[c] : x = y

\* Callers are not refused for long once auth-service is back: whatever calls
\* fail late, the circuit is not open when the service has been up for the
\* longest call and RECOVERY_TIMEOUT.
UpIsServed == up /\ now >= upSince + CallTime + RecoveryTimeout => ~IsCircuitOpen

=============================================================================
