------------------------ MODULE MessageOutbound_proofs ------------------------
(***************************************************************************)
(* Proofs about module MessageOutbound, for any callers, requests, pages   *)
(* and times.                                                              *)
(***************************************************************************)
EXTENDS MessageOutbound, FiniteSetTheorems, WellFoundedInduction, TLAPS

\* A call is over after CallTime, so a circuit that a late failure has opened was
\* opened at most that long after auth-service came up.
CircuitInv ==
    /\ now \in Nat /\ upSince \in Nat /\ upSince <= now
    /\ up \in BOOLEAN
    /\ openSince \in Nat \cup {Closed}
    /\ openSince # Closed => openSince <= now
    /\ up /\ openSince # Closed => openSince <= upSince + CallTime
    /\ call \in [Caller -> SUBSET [begun : Nat, sent : Nat, attempt : Nat]]
    /\ \A c \in Caller : \A x \in call[c] :
          x.begun <= x.sent /\ x.sent <= now /\ now <= x.begun + CallTime

\* The address of a request that goes on was checked, whatever the name resolves
\* to later.
AddressInv ==
    /\ stage \in [Request -> {"idle", "resolve", "fetch", "connected", "store", "answer"}]
    /\ address \in [Request -> SUBSET Address]
    /\ \A r \in Request : stage[r] \in {"fetch", "connected"} =>
          address[r] # {} /\ address[r] \cap Blocked = {}

----------------------------------------------------------------------------
(* The circuit.                                                            *)

LEMMA CallKeeps ==
    ASSUME CircuitInv, NEW c \in Caller, NEW S, call' = [call EXCEPT ![c] = S],
           S \subseteq [begun : Nat, sent : Nat, attempt : Nat],
           \A x \in S : x.begun <= x.sent /\ x.sent <= now /\ now <= x.begun + CallTime
    PROVE  /\ call' \in [Caller -> SUBSET [begun : Nat, sent : Nat, attempt : Nat]]
           /\ \A d \in Caller : \A x \in call'[d] :
                 x.begun <= x.sent /\ x.sent <= now /\ now <= x.begun + CallTime
BY DEF CircuitInv

\* A failure that counts is one of a call that was under way before the service
\* came up, and that is not over yet.
LEMMA FailedKeeps ==
    ASSUME CircuitInv, NEW c \in Caller, Failed(c)
    PROVE  CircuitInv'
<1>1. PICK x \in call[c] :
         /\ ~up \/ upSince >= x.sent
         /\ \/ /\ call' = [call EXCEPT ![c] = {[begun |-> x.begun, sent |-> now, attempt |-> x.attempt + 1]}]
               /\ UNCHANGED <<failures, openSince>>
            \/ RecordFailure /\ call' = [call EXCEPT ![c] = {}]
  BY DEF Failed
<1>2. UNCHANGED <<now, up, upSince>>
  BY DEF Failed
<1>3. /\ x.begun \in Nat /\ x.sent \in Nat /\ x.attempt \in Nat
      /\ x \in [begun : Nat, sent : Nat, attempt : Nat]
      /\ x.begun <= x.sent /\ x.sent <= now /\ now <= x.begun + CallTime
  BY DEF CircuitInv
<1>4. up => now <= upSince + CallTime
  BY <1>1, <1>3, AuthClientAssumption DEF CircuitInv
<1>5. /\ openSince' \in {openSince, now}
      /\ \E S \in {{}, {[begun |-> x.begun, sent |-> now, attempt |-> x.attempt + 1]}} :
            call' = [call EXCEPT ![c] = S]
  BY <1>1 DEF RecordFailure
<1>6. /\ call' \in [Caller -> SUBSET [begun : Nat, sent : Nat, attempt : Nat]]
      /\ \A d \in Caller : \A y \in call'[d] :
            y.begun <= y.sent /\ y.sent <= now /\ now <= y.begun + CallTime
  <2> DEFINE y == [begun |-> x.begun, sent |-> now, attempt |-> x.attempt + 1]
  <2>0. now \in Nat
    BY DEF CircuitInv
  <2>1. /\ y \in [begun : Nat, sent : Nat, attempt : Nat]
        /\ y.begun = x.begun /\ y.sent = now
    BY <1>3, <2>0
  <2>2. y.begun <= y.sent /\ y.sent <= now /\ now <= y.begun + CallTime
    BY <1>3, <2>1, AuthClientAssumption DEF CircuitInv
  <2> HIDE DEF y
  <2>3. PICK S \in {{}, {y}} : call' = [call EXCEPT ![c] = S]
    BY <1>5 DEF y
  <2> QED
    BY <2>1, <2>2, <2>3, CallKeeps
<1> QED
  BY <1>2, <1>4, <1>5, <1>6, AuthClientAssumption DEF CircuitInv

LEMMA CircuitKept ==
    ASSUME CircuitInv, [Next]_vars
    PROVE  CircuitInv'
<1> USE AuthClientAssumption
<1>1. CASE Tick
  <2>1. \A c \in Caller : \A x \in call[c] :
           /\ x.begun \in Nat /\ x.sent \in Nat
           /\ x.begun <= x.sent /\ x.sent <= now /\ now < x.begun + CallTime
    BY <1>1 DEF Tick, CircuitInv
  <2>2. \A c \in Caller : \A x \in call[c] : x.sent <= now + 1 /\ now + 1 <= x.begun + CallTime
    BY <2>1 DEF CircuitInv
  <2>3. now' = now + 1 /\ UNCHANGED <<up, upSince, failures, openSince, call>>
    BY <1>1 DEF Tick
  <2> QED
    BY <2>1, <2>2, <2>3 DEF CircuitInv
<1>2. CASE GoDown
  BY <1>2 DEF GoDown, CircuitInv
<1>3. CASE ComeUp
  BY <1>3 DEF ComeUp, CircuitInv
<1>4. ASSUME NEW c \in Caller, GetUserByUsername(c) PROVE CircuitInv'
  <2> DEFINE x == [begun |-> now, sent |-> now, attempt |-> 1]
  <2>1. /\ {x} \subseteq [begun : Nat, sent : Nat, attempt : Nat]
        /\ x.begun = now /\ x.sent = now
    BY DEF CircuitInv
  <2>2. call' = [call EXCEPT ![c] = {x}] /\ UNCHANGED <<now, up, upSince, failures, openSince>>
    BY <1>4 DEF GetUserByUsername
  <2> HIDE DEF x
  <2>3. \A y \in {x} : y.begun <= y.sent /\ y.sent <= now /\ now <= y.begun + CallTime
    BY <2>1 DEF CircuitInv
  <2>4. /\ call' \in [Caller -> SUBSET [begun : Nat, sent : Nat, attempt : Nat]]
        /\ \A d \in Caller : \A y \in call'[d] :
              y.begun <= y.sent /\ y.sent <= now /\ now <= y.begun + CallTime
    BY <2>1, <2>2, <2>3, CallKeeps
  <2> QED
    BY <2>2, <2>4 DEF CircuitInv
<1>5. ASSUME NEW c \in Caller, Answered(c) \/ Broken(c) PROVE CircuitInv'
  <2>1. call' = [call EXCEPT ![c] = {}] /\ UNCHANGED <<now, up, upSince>>
        /\ openSince' \in {openSince, Closed}
    BY <1>5 DEF Answered, Broken, RecordSuccess
  <2>2. /\ call' \in [Caller -> SUBSET [begun : Nat, sent : Nat, attempt : Nat]]
        /\ \A d \in Caller : \A y \in call'[d] :
              y.begun <= y.sent /\ y.sent <= now /\ now <= y.begun + CallTime
    BY <2>1, CallKeeps
  <2> QED
    BY <2>1, <2>2 DEF CircuitInv
<1>6. CASE UNCHANGED authVars
  BY <1>6 DEF authVars, CircuitInv
<1> QED
  BY <1>1, <1>2, <1>3, <1>4, <1>5, <1>6, FailedKeeps DEF Next, vars

\* Callers are not refused for long once auth-service is back (_is_circuit_open
\* and _record_failure, auth_client.py:43-72), for any thresholds and times.
THEOREM UpIsServedCorrect == Spec => []UpIsServed
<1>1. Init => CircuitInv
  BY AuthClientAssumption DEF Init, AuthInit, CircuitInv
<1>2. CircuitInv => UpIsServed
  BY AuthClientAssumption DEF CircuitInv, UpIsServed, IsCircuitOpen
<1> QED
  BY <1>1, <1>2, CircuitKept, PTL DEF Spec

----------------------------------------------------------------------------
(* The address.                                                            *)

LEMMA AddressKept ==
    ASSUME AddressInv, [Next]_vars
    PROVE  AddressInv'
<1>1. ASSUME NEW r \in Request, NEW u \in Url, GetLinkPreview(r, u) \/ GetCachedPreview(r, u)
      PROVE  AddressInv'
  BY <1>1 DEF GetLinkPreview, GetCachedPreview, Goto, AddressInv
<1>2. ASSUME NEW r \in Request, ResolveSafeIp(r) PROVE AddressInv'
  <2>1. CASE stage' = [stage EXCEPT ![r] = "store"] /\ UNCHANGED address
    BY <2>1 DEF AddressInv
  <2>2. CASE /\ stage' = [stage EXCEPT ![r] = "fetch"]
             /\ \E A \in SUBSET Address : A \cap Blocked = {} /\ \E a \in A :
                   address' = [address EXCEPT ![r] = {a}]
    BY <2>2 DEF AddressInv
  <2> QED
    BY <1>2, <2>1, <2>2 DEF ResolveSafeIp, Goto
<1>3. ASSUME NEW r \in Request, BuildConnectionUrl(r) PROVE AddressInv'
  BY <1>3 DEF BuildConnectionUrl, Goto, AddressInv
<1>4. ASSUME NEW r \in Request, FetchHtml(r) \/ CachePreview(r) PROVE AddressInv'
  BY <1>4 DEF FetchHtml, CachePreview, Goto, AddressInv
<1>5. ASSUME NEW r \in Request, Answer(r) PROVE AddressInv'
  BY <1>5 DEF Answer, Goto, AddressInv
<1>6. CASE UNCHANGED <<stage, address>>
  BY <1>6 DEF AddressInv
<1> QED
  BY <1>1, <1>2, <1>3, <1>4, <1>5, <1>6 DEF Next, vars, previewVars, Expire

\* A page is fetched from an address that was checked (_resolve_safe_ip and
\* _build_connection_url), whatever the name resolves to meanwhile.
THEOREM PinnedAddressCorrect == Spec => []PinnedAddress
<1>1. Init => AddressInv
  BY DEF Init, PreviewInit, AddressInv
<1>2. AddressInv => PinnedAddress
  BY DEF AddressInv, PinnedAddress
<1> QED
  BY <1>1, <1>2, AddressKept, PTL DEF Spec

----------------------------------------------------------------------------
(* Induction over the naturals, for a set of them.                         *)

LEMMA LeastNat ==
    ASSUME NEW I, I \subseteq Nat, I # {}
    PROVE  \E x \in I : \A y \in I : x <= y
<1> DEFINE less == {ss \in Nat \X Nat : ss[1] < ss[2]}
<1>1. less = OpToRel(<, Nat)
  BY DEF OpToRel
<1>2. IsWellFoundedOn(less, Nat)
  BY <1>1, NatLessThanWellFounded
<1>3. \A x, y \in Nat : <<x, y>> \in less <=> x < y
  OBVIOUS
<1> HIDE DEF less
<1>4. PICK x \in I : \A y \in I : ~(<<y, x>> \in less)
  BY <1>2, WFMin, Zenon
<1>5. \A y \in I : ~(y < x)
  BY <1>3, <1>4, Zenon
<1>6. \A y \in I : x \in Nat /\ y \in Nat
  OBVIOUS
<1> QED
  BY <1>5, <1>6

LEMMA NatSetInduction ==
    ASSUME NEW Good, 0 \in Good, \A n \in Nat : n \in Good => n + 1 \in Good
    PROVE  Nat \subseteq Good
<1> SUFFICES ASSUME Nat \ Good # {} PROVE FALSE
  OBVIOUS
<1>1. PICK x \in Nat \ Good : \A y \in Nat \ Good : x <= y
  BY LeastNat
<1>2. x - 1 \in Nat /\ ~(x <= x - 1) /\ (x - 1) + 1 = x
  BY <1>1
<1> QED
  BY <1>1, <1>2

LEMMA MaxIn ==
    ASSUME NEW n \in Nat, NEW U \in SUBSET (1..n), U # {}
    PROVE  Max(U) \in U /\ \A y \in U : y <= Max(U)
<1> DEFINE I == {b \in Nat : \A y \in U : y <= b}
<1>1. n \in I
  OBVIOUS
<1>2. PICK b \in I : \A y \in I : b <= y
  BY <1>1, LeastNat
<1>3. b \in Nat /\ \A y \in U : y \in Nat /\ y >= 1 /\ y <= b
  BY <1>2
<1>4. b \in U
  <2> SUFFICES ASSUME b \notin U PROVE FALSE
    OBVIOUS
  <2>1. \A y \in U : y \in Nat /\ y # b /\ y <= b /\ 1 <= y
    BY <1>3
  <2>2. \A y \in U : y <= b - 1 /\ b - 1 \in Nat
    BY <1>3, <2>1
  <2>3. b - 1 \in I
    BY <2>2
  <2>4. b <= b - 1
    BY <1>2, <2>3
  <2> QED
    BY <1>3, <2>4
<1>5. Max(U) \in U /\ \A y \in U : Max(U) >= y
  <2>1. \E x \in U : \A y \in U : x >= y
    BY <1>3, <1>4
  <2> QED
    BY <2>1 DEF Max
<1> QED
  BY <1>3, <1>5

----------------------------------------------------------------------------
(* The parser, one event of a page after the other.                        *)

Parser == [title : Text \cup {Blank}, description : Text \cup {Blank},
           inTitle : BOOLEAN, done : BOOLEAN]

ParseNext(f, q, U) ==
    IF U = {} THEN NewParser ELSE HandleEvent(f[U \ {Max(U)}], q[Max(U)])

Parses(f, q, D) == f = [U \in D |-> ParseNext(f, q, U)]

LEMMA ParsesExist ==
    ASSUME NEW n \in Nat, NEW q
    PROVE  \E f : Parses(f, q, SUBSET (1..n))
<1> DEFINE Small(k) == {U \in SUBSET (1..n) : Cardinality(U) <= k}
           Good == {k \in Nat : \E f : Parses(f, q, Small(k))}
<1>1. IsFiniteSet(1..n) /\ Cardinality(1..n) = n
  BY FS_Interval
<1>2. \A U \in SUBSET (1..n) : IsFiniteSet(U) /\ Cardinality(U) \in Nat /\ Cardinality(U) <= n
  BY <1>1, FS_Subset, FS_CardinalityType
<1>3. \A U \in SUBSET (1..n) : U # {} => Max(U) \in U
  BY MaxIn
<1>4. 0 \in Good
  <2> DEFINE f == [U \in Small(0) |-> NewParser]
  <2>1. \A U \in Small(0) : U = {}
    BY <1>2, FS_EmptySet
  <2>2. Parses(f, q, Small(0))
    BY <2>1 DEF Parses, ParseNext
  <2> QED
    BY <2>2
<1>5. ASSUME NEW k \in Nat, k \in Good
      PROVE  k + 1 \in Good
  <2>1. PICK f : Parses(f, q, Small(k))
    BY <1>5
  <2> DEFINE g == [U \in Small(k + 1) |-> ParseNext(f, q, U)]
  <2>2. \A U \in Small(k) : U \in Small(k + 1) /\ g[U] = f[U]
    <3>1. \A U \in Small(k) : U \in Small(k + 1)
      BY <1>2
    <3>2. \A U \in Small(k) : f[U] = ParseNext(f, q, U)
      BY <2>1 DEF Parses
    <3> QED
      BY <3>1, <3>2
  <2>3. \A U \in Small(k + 1) : U # {} => U \ {Max(U)} \in Small(k)
    <3> SUFFICES ASSUME NEW U \in Small(k + 1), U # {}
                 PROVE  U \ {Max(U)} \in Small(k)
      OBVIOUS
    <3>1. Max(U) \in U /\ IsFiniteSet(U) /\ Cardinality(U) \in Nat /\ Cardinality(U) <= k + 1
      BY <1>2, <1>3
    <3>2. Cardinality(U \ {Max(U)}) = Cardinality(U) - 1
      BY <3>1, FS_RemoveElement
    <3>3. Cardinality(U) - 1 <= k
      BY <3>1
    <3> QED
      BY <3>2, <3>3
  <2> HIDE DEF Small
  <2>4. \A U \in Small(k + 1) : ParseNext(f, q, U) = ParseNext(g, q, U)
    BY <2>2, <2>3 DEF ParseNext
  <2>5. g = [U \in Small(k + 1) |-> ParseNext(g, q, U)]
    BY <2>4
  <2>6. Parses(g, q, Small(k + 1))
    BY <2>5 DEF Parses
  <2> QED
    BY <2>6
<1>6. Small(n) = SUBSET (1..n)
  BY <1>2
<1> HIDE DEF Small
<1>7. n \in Good
  <2> HIDE DEF Good
  <2> QED
    BY <1>4, <1>5, NatSetInduction
<1> QED
  BY <1>6, <1>7

LEMMA HandleEventTyped ==
    ASSUME NEW s \in Parser, NEW e \in Event
    PROVE  HandleEvent(s, e) \in Parser
<1>1. CASE e \in [kind : {"title", "end title", "body"}]
  BY <1>1 DEF HandleEvent, HandleData, StartTag, Parser
<1>2. CASE e \in [kind : {"data"} \cup MetaTag, text : Text \cup {Blank}]
  <2>1. e.kind \in {"data", "og:title", "og:description", "description"} /\ e.text \in Text \cup {Blank}
    BY <1>2 DEF MetaTag
  <2> QED
    BY <2>1 DEF HandleEvent, HandleData, StartTag, Parser
<1> QED
  BY <1>1, <1>2 DEF Event

\* The parser after each event of page q, n of them.
Story(h, q, n) == h[0] = NewParser /\ \A i \in 1..n : h[i] = HandleEvent(h[i - 1], q[i])

LEMMA ParseIsStory ==
    ASSUME NEW n \in Nat, NEW q, DOMAIN q = 1..n
    PROVE  \E h : Story(h, q, n) /\ FoldLeft(HandleEvent, NewParser, q) = h[n]
<1> DEFINE f == CHOOSE g : Parses(g, q, SUBSET (1..n))
           h == [i \in 0..n |-> f[1..i]]
<1>1. FoldLeft(HandleEvent, NewParser, q) = f[1..n]
  BY DEF FoldLeft, MapThenFoldSet, Parses, ParseNext
<1>2. Parses(f, q, SUBSET (1..n))
  BY ParsesExist
<1> HIDE DEF f
<1>3. \A U \in SUBSET (1..n) : f[U] = ParseNext(f, q, U)
  BY <1>2 DEF Parses
<1>4. h[0] = NewParser
  <2>1. f[1..0] = ParseNext(f, q, 1..0) /\ 1..0 = {}
    BY <1>3
  <2>2. f[1..0] = NewParser
    BY <2>1 DEF ParseNext
  <2> QED
    BY <2>2
<1>5. ASSUME NEW i \in 1..n PROVE h[i] = HandleEvent(h[i - 1], q[i])
  <2>1. 1..i \in SUBSET (1..n) /\ 1..i # {} /\ i \in 1..i
    OBVIOUS
  <2>2. Max(1..i) \in 1..i /\ \A y \in 1..i : y <= Max(1..i)
    BY <2>1, MaxIn
  <2>3. Max(1..i) = i
    BY <2>1, <2>2
  <2>4. (1..i) \ {i} = 1 .. i - 1
    OBVIOUS
  <2>5. f[1..i] = HandleEvent(f[1 .. i - 1], q[i])
    BY <1>3, <2>1, <2>3, <2>4 DEF ParseNext
  <2>6. h[i] = f[1..i] /\ h[i - 1] = f[1 .. i - 1]
    OBVIOUS
  <2> QED
    BY <2>5, <2>6
<1>6. h[n] = f[1..n]
  OBVIOUS
<1> HIDE DEF h
<1> QED
  BY <1>1, <1>4, <1>5, <1>6 DEF Story

\* What the parser makes of a page is a preview, or no preview.
LEMMA ParseTyped ==
    ASSUME NEW q \in Seq(Event)
    PROVE  Parse(q) \in Preview \cup {Miss}
<1>1. PICK n \in Nat : DOMAIN q = 1..n /\ \A i \in 1..n : q[i] \in Event
  BY Len(q) \in Nat
<1>2. PICK h : Story(h, q, n) /\ FoldLeft(HandleEvent, NewParser, q) = h[n]
  BY <1>1, ParseIsStory
<1> DEFINE Good == {k \in Nat : k <= n => h[k] \in Parser}
<1>3. 0 \in Good
  <2>1. NewParser \in Parser
    BY DEF NewParser, Parser
  <2> QED
    BY <1>2, <2>1 DEF Story
<1>4. ASSUME NEW k \in Nat, k \in Good PROVE k + 1 \in Good
  <2> SUFFICES ASSUME k + 1 <= n PROVE h[k + 1] \in Parser
    OBVIOUS
  <2>1. k + 1 \in 1..n /\ (k + 1) - 1 = k /\ h[k] \in Parser
    BY <1>4
  <2>2. h[k + 1] = HandleEvent(h[k], q[k + 1]) /\ q[k + 1] \in Event
    BY <1>1, <1>2, <2>1 DEF Story
  <2> QED
    BY <2>1, <2>2, HandleEventTyped
<1>5. h[n] \in Parser
  <2>1. Nat \subseteq Good
    <3> HIDE DEF Good
    <3> QED
      BY <1>3, <1>4, NatSetInduction
  <2> QED
    BY <2>1
<1>6. PICK s \in Parser : s = FoldLeft(HandleEvent, NewParser, q)
  BY <1>2, <1>5
<1>7. Parse(q) = IF s.title = Blank /\ s.description = Blank THEN Miss
                 ELSE [title |-> s.title, description |-> s.description]
  BY <1>6 DEF Parse
<1> QED
  BY <1>7 DEF Preview, Parser

----------------------------------------------------------------------------
(* Types.                                                                  *)

\* Each caller has at most one call, in time and within its attempts.
CallsInv ==
    /\ now \in Time
    /\ failures \in 0..FailureThreshold
    /\ call \in [Caller -> SUBSET Call]
    /\ \A c \in Caller : \A x, y \in call[c] : x = y

LEMMA OneCall ==
    ASSUME CallsInv, NEW c \in Caller, NEW S, call' = [call EXCEPT ![c] = S],
           S \subseteq Call, \A x, y \in S : x = y
    PROVE  /\ call' \in [Caller -> SUBSET Call]
           /\ \A d \in Caller : \A x, y \in call'[d] : x = y
BY DEF CallsInv

LEMMA FailureCounted ==
    ASSUME CallsInv, RecordFailure
    PROVE  failures' \in 0..FailureThreshold
BY AuthClientAssumption DEF CallsInv, RecordFailure

LEMMA CallsKept ==
    ASSUME CallsInv, [Next]_vars
    PROVE  CallsInv'
<1> USE AuthClientAssumption
<1>1. CASE Tick
  <2>1. now' \in Time /\ UNCHANGED <<failures, call>>
    BY <1>1 DEF Tick, CallsInv, Time
  <2> QED
    BY <2>1 DEF CallsInv
<1>2. CASE GoDown \/ ComeUp
  BY <1>2 DEF GoDown, ComeUp, CallsInv
<1>3. ASSUME NEW c \in Caller, GetUserByUsername(c) PROVE CallsInv'
  <2> DEFINE x == [begun |-> now, sent |-> now, attempt |-> 1]
  <2>1. x \in Call /\ call' = [call EXCEPT ![c] = {x}] /\ UNCHANGED <<now, failures>>
    BY <1>3 DEF GetUserByUsername, CallsInv, Call
  <2> HIDE DEF x
  <2>2. /\ call' \in [Caller -> SUBSET Call]
        /\ \A d \in Caller : \A y, z \in call'[d] : y = z
    BY <2>1, OneCall
  <2> QED
    BY <2>1, <2>2 DEF CallsInv
<1>4. ASSUME NEW c \in Caller, Answered(c) \/ Broken(c) PROVE CallsInv'
  <2>1. call' = [call EXCEPT ![c] = {}] /\ UNCHANGED now /\ failures' \in {failures, 0}
    BY <1>4 DEF Answered, Broken, RecordSuccess
  <2>2. /\ call' \in [Caller -> SUBSET Call]
        /\ \A d \in Caller : \A y, z \in call'[d] : y = z
    BY <2>1, OneCall
  <2> QED
    BY <2>1, <2>2 DEF CallsInv
<1>5. ASSUME NEW c \in Caller, Failed(c) PROVE CallsInv'
  <2>1. PICK x \in call[c] :
           \/ /\ x.attempt < MaxRetries
              /\ call' = [call EXCEPT ![c] =
                             {[begun |-> x.begun, sent |-> now, attempt |-> x.attempt + 1]}]
              /\ UNCHANGED failures
           \/ RecordFailure /\ call' = [call EXCEPT ![c] = {}]
    BY <1>5 DEF Failed
  <2>2. UNCHANGED now
    BY <1>5 DEF Failed
  <2>3. failures' \in 0..FailureThreshold
    BY <2>1, FailureCounted DEF CallsInv
  <2>4. x.begun \in Time /\ x.attempt \in 1..MaxRetries
    BY DEF CallsInv, Call
  <2> DEFINE y == [begun |-> x.begun, sent |-> now, attempt |-> x.attempt + 1]
  <2>5. x.attempt < MaxRetries => y \in Call
    BY <2>4 DEF CallsInv, Call
  <2> HIDE DEF y
  <2>6. PICK S \in {{}, {y}} : call' = [call EXCEPT ![c] = S] /\ S \subseteq Call
    BY <2>1, <2>5 DEF y
  <2>7. /\ call' \in [Caller -> SUBSET Call]
        /\ \A d \in Caller : \A v, w \in call'[d] : v = w
    BY <2>6, OneCall
  <2> QED
    BY <2>2, <2>3, <2>7 DEF CallsInv
<1>6. CASE UNCHANGED authVars
  BY <1>6 DEF authVars, CallsInv
<1> QED
  BY <1>1, <1>2, <1>3, <1>4, <1>5, <1>6 DEF Next, vars

LEMMA PreviewTypeKept ==
    ASSUME PreviewTypeOK, [Next]_vars
    PROVE  PreviewTypeOK'
<1> DEFINE Stages == {"idle", "resolve", "fetch", "connected", "store", "answer"}
           Found == Preview \cup {Miss}
           One(r) == Cardinality(wanted[r]) = IF stage[r] = "idle" THEN 0 ELSE 1
<1>1. /\ cache \in [Url -> SUBSET Found] /\ stage \in [Request -> Stages]
      /\ wanted \in [Request -> SUBSET Url] /\ address \in [Request -> SUBSET Address]
      /\ result \in [Request -> SUBSET Found] /\ page \in [Request -> SUBSET Page]
      /\ \A r \in Request : One(r)
  BY DEF PreviewTypeOK
<1>2. \A q \in Page : Parse(q) \in Found
  BY PageAssumption, ParseTyped
<1>3. \A u : Cardinality({u}) = 1
  BY FS_Singleton
<1>4. Cardinality({}) = 0
  BY FS_EmptySet
<1> HIDE DEF Found
\* A request that has begun asks for the same url until it is answered.
<1>5. ASSUME NEW r \in Request, NEW s \in Stages \ {"idle"}, stage[r] # "idle",
             Goto(r, s), UNCHANGED wanted
      PROVE  stage' \in [Request -> Stages] /\ \A d \in Request : One(d)'
  BY <1>1, <1>5 DEF Goto
<1>6. ASSUME NEW r \in Request, NEW u \in Url, GetLinkPreview(r, u) \/ GetCachedPreview(r, u)
      PROVE  PreviewTypeOK'
  <2>1. PICK s \in {"resolve", "answer"} : stage' = [stage EXCEPT ![r] = s]
    BY <1>6 DEF GetLinkPreview, GetCachedPreview, Goto
  <2>2. wanted' = [wanted EXCEPT ![r] = {u}] /\ UNCHANGED <<cache, address, page>>
    BY <1>6 DEF GetLinkPreview, GetCachedPreview
  <2>3. result' \in [Request -> SUBSET Found]
    BY <1>1, <1>6 DEF GetLinkPreview, GetCachedPreview
  <2>4. stage' \in [Request -> Stages] /\ wanted' \in [Request -> SUBSET Url]
    BY <1>1, <2>1, <2>2
  <2>5. \A d \in Request : One(d)'
    BY <1>1, <1>3, <2>1, <2>2
  <2> QED
    BY <1>1, <2>2, <2>3, <2>4, <2>5 DEF PreviewTypeOK, Found
<1>7. ASSUME NEW r \in Request, ResolveSafeIp(r) PROVE PreviewTypeOK'
  <2>1. stage[r] = "resolve" /\ UNCHANGED <<cache, wanted, page>>
    BY <1>7 DEF ResolveSafeIp
  <2>2. \/ Goto(r, "store") /\ result' = [result EXCEPT ![r] = {Miss}] /\ UNCHANGED address
        \/ /\ Goto(r, "fetch") /\ UNCHANGED result
           /\ \E a \in Address : address' = [address EXCEPT ![r] = {a}]
    BY <1>7 DEF ResolveSafeIp
  <2>3. stage' \in [Request -> Stages] /\ \A d \in Request : One(d)'
    BY <1>5, <2>1, <2>2
  <2>4. Miss \in Found
    BY DEF Found
  <2>5. address' \in [Request -> SUBSET Address] /\ result' \in [Request -> SUBSET Found]
    BY <1>1, <2>2, <2>4
  <2> QED
    BY <1>1, <2>1, <2>3, <2>5 DEF PreviewTypeOK, Found
<1>8. ASSUME NEW r \in Request, BuildConnectionUrl(r) PROVE PreviewTypeOK'
  <2>1. stage' \in [Request -> Stages] /\ \A d \in Request : One(d)'
    BY <1>5, <1>8 DEF BuildConnectionUrl
  <2> QED
    BY <1>1, <1>8, <2>1 DEF BuildConnectionUrl, PreviewTypeOK, Found
<1>9. ASSUME NEW r \in Request, FetchHtml(r) PROVE PreviewTypeOK'
  <2>1. stage' \in [Request -> Stages] /\ \A d \in Request : One(d)'
    BY <1>5, <1>9 DEF FetchHtml
  <2>2. \/ \E q \in Page : /\ page'   = [page EXCEPT ![r] = {q}]
                           /\ result' = [result EXCEPT ![r] = {Parse(q)}]
        \/ result' = [result EXCEPT ![r] = {Miss}] /\ UNCHANGED page
    BY <1>9 DEF FetchHtml
  <2>3. Miss \in Found
    BY DEF Found
  <2>4. page' \in [Request -> SUBSET Page] /\ result' \in [Request -> SUBSET Found]
    BY <1>1, <1>2, <2>2, <2>3
  <2> QED
    BY <1>1, <1>9, <2>1, <2>4 DEF FetchHtml, PreviewTypeOK, Found
<1>10. ASSUME NEW r \in Request, CachePreview(r) PROVE PreviewTypeOK'
  <2>1. stage' \in [Request -> Stages] /\ \A d \in Request : One(d)'
    BY <1>5, <1>10 DEF CachePreview
  <2>2. cache' \in [Url -> SUBSET Found] /\ page' \in [Request -> SUBSET Page]
    BY <1>1, <1>10 DEF CachePreview
  <2> QED
    BY <1>1, <1>10, <2>1, <2>2 DEF CachePreview, PreviewTypeOK, Found
<1>11. ASSUME NEW r \in Request, Answer(r) PROVE PreviewTypeOK'
  <2>1. /\ stage' = [stage EXCEPT ![r] = "idle"]
        /\ wanted' = [wanted EXCEPT ![r] = {}] /\ address' = [address EXCEPT ![r] = {}]
        /\ result' = [result EXCEPT ![r] = {}] /\ UNCHANGED <<cache, page>>
    BY <1>11 DEF Answer, Goto
  <2>2. \A d \in Request : One(d)'
    BY <1>1, <1>4, <2>1
  <2>3. /\ stage' \in [Request -> Stages] /\ wanted' \in [Request -> SUBSET Url]
        /\ address' \in [Request -> SUBSET Address] /\ result' \in [Request -> SUBSET Found]
    BY <1>1, <2>1
  <2> QED
    BY <1>1, <2>1, <2>2, <2>3 DEF PreviewTypeOK, Found
<1>12. ASSUME NEW u \in Url, Expire(u) PROVE PreviewTypeOK'
  <2>1. cache' \in [Url -> SUBSET Found]
    BY <1>1, <1>12 DEF Expire
  <2> QED
    BY <1>1, <1>12, <2>1 DEF Expire, PreviewTypeOK, Found
<1>13. CASE UNCHANGED previewVars
  BY <1>1, <1>13 DEF previewVars, PreviewTypeOK
<1> QED
  BY <1>6, <1>7, <1>8, <1>9, <1>10, <1>11, <1>12, <1>13 DEF Next, vars

\* Every variable keeps its type, whatever pages are served: the parser returns a
\* preview or none (MetadataParser and fetch_preview, url_preview_service.py).
THEOREM TypeCorrect == Spec => []TypeOK
<1>1. Init => CircuitInv /\ CallsInv /\ PreviewTypeOK
  <2> SUFFICES ASSUME Init PROVE CircuitInv /\ CallsInv /\ PreviewTypeOK
    OBVIOUS
  <2>1. CircuitInv
    BY AuthClientAssumption DEF Init, AuthInit, CircuitInv
  <2>2. CallsInv
    BY AuthClientAssumption DEF Init, AuthInit, CallsInv, Time
  <2>3. Cardinality({}) = 0
    BY FS_EmptySet
  <2>4. PreviewTypeOK
    BY <2>3 DEF Init, PreviewInit, PreviewTypeOK
  <2> QED
    BY <2>1, <2>2, <2>4
<1>2. CircuitInv /\ CallsInv /\ PreviewTypeOK => TypeOK
  BY AuthClientAssumption DEF CircuitInv, CallsInv, TypeOK, AuthTypeOK
<1>3. CircuitInv /\ CallsInv /\ PreviewTypeOK /\ [Next]_vars => (CircuitInv /\ CallsInv /\ PreviewTypeOK)'
  BY CircuitKept, CallsKept, PreviewTypeKept
<1> QED
  BY <1>1, <1>2, <1>3, PTL DEF Spec

----------------------------------------------------------------------------
(* What the parser finds.                                                  *)

\* What html.parser reports of a page that closes its titles and says something
\* wherever it says anything: a title begins, has its text if it has one, and ends.
WellFormed(q) ==
    \A i \in DOMAIN q :
        /\ q[i].kind \in {"data"} \cup MetaTag => q[i].text # Blank
        /\ q[i].kind = "title" /\ i + 1 \in DOMAIN q =>
              /\ q[i + 1].kind \in {"data", "end title"}
              /\ q[i + 1].kind = "data" /\ i + 2 \in DOMAIN q => q[i + 2].kind = "end title"

\* Event i is the last of I, or the first of J, up to event k.
LastUpTo(I, k, i) == i \in I /\ i <= k /\ \A j \in I : j <= k => j <= i

FirstUpTo(J, k, i) == i \in J /\ i <= k /\ \A j \in J : j <= k => i <= j

NoneUpTo(I, k) == \A j \in I : ~(j <= k)

\* What has been found up to event k: the last of I, or else the first of J.
Found(q, I, J, k, text) ==
    \/ \E i \in I : LastUpTo(I, k, i) /\ text = q[i].text
    \/ NoneUpTo(I, k) /\ \E j \in J : FirstUpTo(J, k, j) /\ text = q[j].text
    \/ NoneUpTo(I, k) /\ NoneUpTo(J, k) /\ text = Blank

\* After event k of a page, n long: whether it is in a title that is in the head.
Opened(q, i) == q[i].kind = "title" /\ \A j \in 1..i : q[j].kind # "body"

InTitle(q, k) ==
    \/ k >= 1 /\ Opened(q, k)
    \/ k >= 2 /\ q[k].kind = "data" /\ Opened(q, k - 1)

Passed(q, k) == \E j \in 1..k : q[j].kind = "body"

Reads(s, q, k) ==
    /\ (s.done <=> Passed(q, k)) /\ (s.inTitle <=> InTitle(q, k))
    /\ Found(q, Tags(q, "og:title"), Titles(q), k, s.title)
    /\ Found(q, Tags(q, "og:description"), Tags(q, "description"), k, s.description)

\* An event of neither kind changes nothing that was found; one of I replaces it; one
\* of J counts when nothing was found.
LEMMA FoundStays ==
    ASSUME NEW q, NEW I \in SUBSET Nat, NEW J \in SUBSET Nat, NEW k \in Nat, NEW text, Found(q, I, J, k, text),
           k + 1 \notin I, k + 1 \notin J
    PROVE  Found(q, I, J, k + 1, text)
<1>1. \A j \in I \cup J : j <= k + 1 <=> j <= k
  OBVIOUS
<1>2. \A i : /\ LastUpTo(I, k, i) => LastUpTo(I, k + 1, i)
             /\ FirstUpTo(J, k, i) => FirstUpTo(J, k + 1, i)
  BY <1>1 DEF LastUpTo, FirstUpTo
<1>3. /\ NoneUpTo(I, k) => NoneUpTo(I, k + 1)
      /\ NoneUpTo(J, k) => NoneUpTo(J, k + 1)
  BY <1>1 DEF NoneUpTo
<1> QED
  BY <1>2, <1>3 DEF Found

LEMMA FoundLast ==
    ASSUME NEW q, NEW I \in SUBSET Nat, NEW J, NEW k \in Nat, k \in I
    PROVE  Found(q, I, J, k, q[k].text)
BY DEF Found, LastUpTo

LEMMA FoundFirst ==
    ASSUME NEW q, NEW I \in SUBSET Nat, NEW J \in SUBSET Nat, NEW k \in Nat, NEW text, Found(q, I, J, k, text),
           k + 1 \in J, k + 1 \notin I, \A i \in I \cup J : q[i].text # Blank
    PROVE  Found(q, I, J, k + 1, IF text = Blank THEN q[k + 1].text ELSE text)
<1>1. \A j \in I : j <= k + 1 <=> j <= k
  OBVIOUS
<1>2. CASE NoneUpTo(I, k) /\ NoneUpTo(J, k) /\ text = Blank
  <2>1. FirstUpTo(J, k + 1, k + 1)
    <3>1. \A j \in J : j \in Nat /\ ~(j <= k)
      BY <1>2 DEF NoneUpTo
    <3> QED
      BY <3>1 DEF FirstUpTo
  <2>2. NoneUpTo(I, k + 1)
    BY <1>1, <1>2 DEF NoneUpTo
  <2> QED
    BY <1>2, <2>1, <2>2 DEF Found
<1>3. CASE \E i \in I : LastUpTo(I, k, i) /\ text = q[i].text
  <2>1. PICK i \in I : LastUpTo(I, k, i) /\ text = q[i].text
    BY <1>3
  <2>2. LastUpTo(I, k + 1, i)
    BY <1>1, <2>1 DEF LastUpTo
  <2> QED
    BY <2>1, <2>2 DEF Found
<1>4. CASE NoneUpTo(I, k) /\ \E j \in J : FirstUpTo(J, k, j) /\ text = q[j].text
  <2>1. PICK i \in J : FirstUpTo(J, k, i) /\ text = q[i].text
    BY <1>4
  <2>2. FirstUpTo(J, k + 1, i)
    <3> SUFFICES ASSUME NEW j \in J, j <= k + 1 PROVE i <= j /\ i <= k + 1
      BY <2>1 DEF FirstUpTo
    <3> QED
      BY <2>1 DEF FirstUpTo
  <2>3. NoneUpTo(I, k + 1)
    BY <1>1, <1>4 DEF NoneUpTo
  <2> QED
    BY <2>1, <2>2, <2>3 DEF Found
<1> QED
  BY <1>2, <1>3, <1>4 DEF Found

\* Up to the end of the page, it is what the page says.
LEMMA FoundIs ==
    ASSUME NEW q, NEW n \in Nat, NEW I \in SUBSET (1..n), NEW J \in SUBSET (1..n), NEW text,
           Found(q, I, J, n, text)
    PROVE  text = LastOr(q, I, J)
<1>1. \A j \in I \cup J : j \in Nat /\ j <= n
  OBVIOUS
<1>2. CASE NoneUpTo(I, n) /\ NoneUpTo(J, n) /\ text = Blank
  <2>1. I = {} /\ J = {}
    BY <1>2 DEF NoneUpTo
  <2> QED
    BY <1>2, <2>1 DEF LastOr
<1>3. CASE \E i \in I : LastUpTo(I, n, i) /\ text = q[i].text
  <2>1. PICK i \in I : LastUpTo(I, n, i) /\ text = q[i].text
    BY <1>3
  <2>2. Max(I) \in I /\ \A y \in I : y <= Max(I)
    BY MaxIn
  <2>3. i \in Nat /\ Max(I) \in Nat /\ \A j \in I : j <= i
    BY <1>1, <2>1, <2>2 DEF LastUpTo
  <2>4. Max(I) = i
    BY <2>1, <2>2, <2>3
  <2> QED
    BY <2>1, <2>4 DEF LastOr
<1>4. CASE NoneUpTo(I, n) /\ \E j \in J : FirstUpTo(J, n, j) /\ text = q[j].text
  <2>1. PICK i \in J : FirstUpTo(J, n, i) /\ text = q[i].text
    BY <1>4
  <2>2. I = {}
    BY <1>4 DEF NoneUpTo
  <2>3. \A j \in J : i <= j
    BY <1>1, <2>1 DEF FirstUpTo
  <2>4. Min(J) \in J /\ \A j \in J : Min(J) <= j
    BY <2>3 DEF Min
  <2>5. i \in Nat /\ Min(J) \in Nat
    BY <1>1, <2>1, <2>4
  <2>6. Min(J) = i
    BY <2>1, <2>3, <2>4, <2>5
  <2> QED
    BY <2>1, <2>2, <2>6 DEF LastOr
<1> QED
  BY <1>2, <1>3, <1>4 DEF Found

\* In the head, event k ends up among the tags or titles if it is of that kind.
LEMMA EventIn ==
    ASSUME NEW q, NEW n \in Nat, DOMAIN q = 1..n, NEW k \in Nat, k + 1 <= n
    PROVE  /\ \A t : t # "body" => (k + 1 \in Tags(q, t) <=> q[k + 1].kind = t /\ ~Passed(q, k))
           /\ k + 1 \in Titles(q) <=> q[k + 1].kind = "data" /\ k >= 1 /\ Opened(q, k)
<1>1. k + 1 \in 1..n /\ 1 .. k + 1 = 1..k \cup {k + 1} /\ (k + 1) - 1 = k
  OBVIOUS
<1>2. k + 1 \in InHead(q) <=> q[k + 1].kind # "body" /\ ~Passed(q, k)
  BY <1>1 DEF InHead, Passed
<1>3. \A t : t # "body" => (k + 1 \in Tags(q, t) <=> q[k + 1].kind = t /\ ~Passed(q, k))
  BY <1>2 DEF Tags
<1>4. k + 1 \in Titles(q) <=> q[k + 1].kind = "data" /\ ~Passed(q, k) /\ k >= 1 /\ q[k].kind = "title"
  BY <1>1, <1>3 DEF Titles
<1>5. Opened(q, k) <=> q[k].kind = "title" /\ ~Passed(q, k)
  BY DEF Opened, Passed
<1> QED
  BY <1>3, <1>4, <1>5

LEMMA InTitleNext ==
    ASSUME NEW q, NEW n \in Nat, DOMAIN q = 1..n, NEW k \in Nat, k + 1 <= n, WellFormed(q)
    PROVE  /\ q[k + 1].kind = "title" => (InTitle(q, k + 1) <=> ~Passed(q, k))
           /\ q[k + 1].kind = "end title" => ~InTitle(q, k + 1)
           /\ q[k + 1].kind \notin {"title", "end title"} => (InTitle(q, k + 1) <=> InTitle(q, k))
           /\ q[k + 1].kind = "data" /\ InTitle(q, k) => k >= 1 /\ Opened(q, k)
           /\ Passed(q, k) => ~InTitle(q, k)
<1>1. k + 1 \in 1..n /\ 1 .. k + 1 = 1..k \cup {k + 1} /\ (k + 1) - 1 = k
  OBVIOUS
<1>2. InTitle(q, k + 1) <=> \/ Opened(q, k + 1)
                            \/ k >= 1 /\ q[k + 1].kind = "data" /\ Opened(q, k)
  BY <1>1 DEF InTitle
<1>3. Opened(q, k + 1) <=> q[k + 1].kind = "title" /\ ~Passed(q, k)
  BY <1>1 DEF Opened, Passed
<1>4. k >= 1 /\ Opened(q, k) => ~Passed(q, k) /\ q[k + 1].kind \in {"data", "end title"}
  <2> SUFFICES ASSUME k >= 1, Opened(q, k)
               PROVE  ~Passed(q, k) /\ q[k + 1].kind \in {"data", "end title"}
    OBVIOUS
  <2>1. q[k].kind = "title" /\ ~Passed(q, k) /\ k \in 1..n
    BY DEF Opened, Passed
  <2> QED
    BY <1>1, <2>1 DEF WellFormed
<1>5. k >= 2 /\ q[k].kind = "data" /\ Opened(q, k - 1)
      => q[k + 1].kind = "end title" /\ ~Passed(q, k)
  <2> SUFFICES ASSUME k >= 2, q[k].kind = "data", Opened(q, k - 1)
               PROVE  q[k + 1].kind = "end title" /\ ~Passed(q, k)
    OBVIOUS
  <2>1. /\ k - 1 \in 1..n /\ (k - 1) + 1 = k /\ (k - 1) + 2 = k + 1 /\ k \in 1..n
        /\ 1..k = 1 .. k - 1 \cup {k}
    OBVIOUS
  <2>2. q[k - 1].kind = "title" /\ \A j \in 1 .. k - 1 : q[j].kind # "body"
    BY DEF Opened
  <2>3. ~Passed(q, k)
    BY <2>1, <2>2 DEF Passed
  <2>4. q[k + 1].kind = "end title"
    BY <1>1, <2>1, <2>2 DEF WellFormed
  <2> QED
    BY <2>3, <2>4
<1>6. InTitle(q, k) <=> \/ k >= 1 /\ Opened(q, k)
                        \/ k >= 2 /\ q[k].kind = "data" /\ Opened(q, k - 1)
  BY DEF InTitle
<1> QED
  BY <1>2, <1>3, <1>4, <1>5, <1>6

\* The parser reads on.
LEMMA ReadsNext ==
    ASSUME NEW q, NEW n \in Nat, DOMAIN q = 1..n, \A i \in 1..n : q[i] \in Event, WellFormed(q),
           NEW k \in Nat, k + 1 <= n, NEW s \in Parser, Reads(s, q, k)
    PROVE  Reads(HandleEvent(s, q[k + 1]), q, k + 1)
<1>1. PICK e, t, I, J, D, P :
         /\ e = q[k + 1] /\ t = HandleEvent(s, e)
         /\ I = Tags(q, "og:title") /\ J = Titles(q)
         /\ D = Tags(q, "og:description") /\ P = Tags(q, "description")
  OBVIOUS
<1>2. /\ s.title \in Text \cup {Blank} /\ s.description \in Text \cup {Blank}
      /\ s.inTitle \in BOOLEAN /\ s.done \in BOOLEAN
      /\ s = [title |-> s.title, description |-> s.description, inTitle |-> s.inTitle, done |-> s.done]
  BY DEF Parser
<1>3. /\ I \in SUBSET (1..n) /\ J \in SUBSET (1..n) /\ D \in SUBSET (1..n) /\ P \in SUBSET (1..n)
      /\ I \in SUBSET Nat /\ J \in SUBSET Nat /\ D \in SUBSET Nat /\ P \in SUBSET Nat
  <2>1. InHead(q) \subseteq 1..n /\ 1..n \subseteq Nat
    BY DEF InHead
  <2> QED
    BY <1>1, <2>1 DEF Tags, Titles
<1>4. \A i \in I \cup J \cup D \cup P : q[i].text # Blank
  <2>1. \A i \in I \cup J \cup D \cup P : i \in 1..n /\ q[i].kind \in {"data"} \cup MetaTag
    BY <1>1, <1>3 DEF Tags, Titles, MetaTag
  <2> QED
    BY <2>1 DEF WellFormed
<1>5. /\ k + 1 \in I <=> e.kind = "og:title" /\ ~Passed(q, k)
      /\ k + 1 \in D <=> e.kind = "og:description" /\ ~Passed(q, k)
      /\ k + 1 \in P <=> e.kind = "description" /\ ~Passed(q, k)
      /\ k + 1 \in J <=> e.kind = "data" /\ k >= 1 /\ Opened(q, k)
  BY <1>1, EventIn
<1>6. /\ e.kind = "title" => (InTitle(q, k + 1) <=> ~Passed(q, k))
      /\ e.kind = "end title" => ~InTitle(q, k + 1)
      /\ e.kind \notin {"title", "end title"} => (InTitle(q, k + 1) <=> InTitle(q, k))
      /\ e.kind = "data" /\ InTitle(q, k) => k >= 1 /\ Opened(q, k)
      /\ Passed(q, k) => ~InTitle(q, k)
  BY <1>1, InTitleNext
<1>7. k >= 1 /\ Opened(q, k) => InTitle(q, k)
  BY DEF InTitle
<1>8. Passed(q, k + 1) <=> Passed(q, k) \/ e.kind = "body"
  <2>1. 1 .. k + 1 = 1..k \cup {k + 1}
    OBVIOUS
  <2> QED
    BY <1>1, <2>1 DEF Passed
<1>9. /\ (s.done <=> Passed(q, k)) /\ (s.inTitle <=> InTitle(q, k))
      /\ Found(q, I, J, k, s.title) /\ Found(q, D, P, k, s.description)
  BY <1>1 DEF Reads
<1>10. e.kind \in {"title", "end title", "body", "data", "og:title", "og:description", "description"}
  <2>1. e \in Event
    BY <1>1
  <2> QED
    BY <2>1 DEF Event, MetaTag
<1> SUFFICES /\ (t.done <=> Passed(q, k + 1)) /\ (t.inTitle <=> InTitle(q, k + 1))
             /\ Found(q, I, J, k + 1, t.title) /\ Found(q, D, P, k + 1, t.description)
  BY <1>1 DEF Reads
<1>11. (t.done <=> Passed(q, k + 1)) /\ (t.inTitle <=> InTitle(q, k + 1))
  <2>1. /\ t.done <=> s.done \/ e.kind = "body"
        /\ e.kind = "title" => (t.inTitle <=> s.inTitle \/ ~s.done)
        /\ e.kind = "end title" => ~t.inTitle
        /\ e.kind \notin {"title", "end title"} => (t.inTitle <=> s.inTitle)
    BY <1>1, <1>2, <1>10 DEF HandleEvent, HandleData, StartTag
  <2> QED
    BY <1>2, <1>6, <1>8, <1>9, <1>10, <2>1
<1>12. Found(q, I, J, k + 1, t.title)
  <2>1. CASE e.kind = "og:title" /\ ~s.done
    <3>1. t.title = e.text /\ k + 1 \in I
      BY <1>1, <1>2, <1>5, <1>9, <2>1 DEF HandleEvent, StartTag
    <3> QED
      BY <1>1, <1>3, <3>1, FoundLast
  <2>2. CASE e.kind = "data" /\ s.inTitle
    <3>1. t.title = (IF s.title = Blank THEN e.text ELSE s.title) /\ k + 1 \in J /\ k + 1 \notin I
      BY <1>1, <1>2, <1>5, <1>6, <1>9, <2>2 DEF HandleEvent, HandleData
    <3> QED
      BY <1>1, <1>3, <1>4, <1>9, <3>1, FoundFirst
  <2>3. CASE ~(e.kind = "og:title" /\ ~s.done) /\ ~(e.kind = "data" /\ s.inTitle)
    <3>1. k + 1 \notin I /\ k + 1 \notin J
      BY <1>5, <1>7, <1>9, <2>3
    <3>2. t.title = s.title
      BY <1>1, <1>2, <1>10, <2>3 DEF HandleEvent, HandleData, StartTag
    <3> QED
      BY <1>3, <1>9, <3>1, <3>2, FoundStays
  <2> QED
    BY <2>1, <2>2, <2>3
<1>13. Found(q, D, P, k + 1, t.description)
  <2>1. CASE e.kind = "og:description" /\ ~s.done
    <3>1. t.description = e.text /\ k + 1 \in D
      BY <1>1, <1>2, <1>5, <1>9, <2>1 DEF HandleEvent, StartTag
    <3> QED
      BY <1>1, <1>3, <3>1, FoundLast
  <2>2. CASE e.kind = "description" /\ ~s.done
    <3>1. /\ t.description = (IF s.description = Blank THEN e.text ELSE s.description)
          /\ k + 1 \in P /\ k + 1 \notin D
      BY <1>1, <1>2, <1>5, <1>9, <2>2 DEF HandleEvent, StartTag
    <3> QED
      BY <1>1, <1>3, <1>4, <1>9, <3>1, FoundFirst
  <2>3. CASE ~(e.kind \in {"og:description", "description"} /\ ~s.done)
    <3>1. k + 1 \notin D /\ k + 1 \notin P
      BY <1>5, <1>9, <2>3
    <3>2. t.description = s.description
      BY <1>1, <1>2, <1>10, <2>3 DEF HandleEvent, HandleData, StartTag
    <3> QED
      BY <1>3, <1>9, <3>1, <3>2, FoundStays
  <2> QED
    BY <2>1, <2>2, <2>3
<1> QED
  BY <1>11, <1>12, <1>13

LEMMA ParseFinds ==
    ASSUME NEW q \in Seq(Event), WellFormed(q)
    PROVE  Parse(q) = Deserved(q)
<1>1. PICK n \in Nat : DOMAIN q = 1..n /\ \A i \in 1..n : q[i] \in Event
  BY Len(q) \in Nat
<1>2. PICK h : Story(h, q, n) /\ FoldLeft(HandleEvent, NewParser, q) = h[n]
  BY <1>1, ParseIsStory
<1> DEFINE Good == {k \in Nat : k <= n => h[k] \in Parser /\ Reads(h[k], q, k)}
<1>3. 0 \in Good
  <2>1. NewParser \in Parser
    BY DEF NewParser, Parser
  <2>2. /\ InHead(q) \subseteq 1..n
        /\ \A k : Tags(q, k) \subseteq InHead(q)
        /\ Titles(q) \subseteq InHead(q)
    BY <1>1 DEF InHead, Tags, Titles
  <2>3. \A j \in InHead(q) : ~(j <= 0)
    BY <2>2
  <2>4. ~Passed(q, 0) /\ ~InTitle(q, 0)
    BY DEF Passed, InTitle
  <2>5. \A I \in SUBSET InHead(q) : NoneUpTo(I, 0)
    BY <2>3 DEF NoneUpTo
  <2>6. Reads(NewParser, q, 0)
    BY <2>2, <2>4, <2>5 DEF Reads, Found, NewParser
  <2> QED
    BY <1>2, <2>1, <2>6 DEF Story
<1>4. ASSUME NEW k \in Nat, k \in Good PROVE k + 1 \in Good
  <2> SUFFICES ASSUME k + 1 <= n PROVE h[k + 1] \in Parser /\ Reads(h[k + 1], q, k + 1)
    OBVIOUS
  <2>1. k + 1 \in 1..n /\ (k + 1) - 1 = k /\ h[k] \in Parser /\ Reads(h[k], q, k)
    BY <1>4
  <2>2. h[k + 1] = HandleEvent(h[k], q[k + 1]) /\ q[k + 1] \in Event
    BY <1>1, <1>2, <2>1 DEF Story
  <2>3. h[k + 1] \in Parser
    BY <2>1, <2>2, HandleEventTyped
  <2>4. Reads(HandleEvent(h[k], q[k + 1]), q, k + 1)
    BY <1>1, <2>1, ReadsNext
  <2> QED
    BY <2>2, <2>3, <2>4
<1>5. h[n] \in Parser /\ Reads(h[n], q, n)
  <2>1. Nat \subseteq Good
    <3> HIDE DEF Good
    <3> QED
      BY <1>3, <1>4, NatSetInduction
  <2> QED
    BY <2>1
<1>6. PICK s \in Parser : s = FoldLeft(HandleEvent, NewParser, q) /\ Reads(s, q, n)
  BY <1>2, <1>5
<1>7. \A k : Tags(q, k) \in SUBSET (1..n) /\ Titles(q) \in SUBSET (1..n)
  BY <1>1 DEF InHead, Tags, Titles
<1>8. /\ s.title = LastOr(q, Tags(q, "og:title"), Titles(q))
      /\ s.description = LastOr(q, Tags(q, "og:description"), Tags(q, "description"))
  <2>1. /\ Found(q, Tags(q, "og:title"), Titles(q), n, s.title)
        /\ Found(q, Tags(q, "og:description"), Tags(q, "description"), n, s.description)
    BY <1>6 DEF Reads
  <2> QED
    BY <1>7, <2>1, FoundIs
<1>9. Parse(q) = IF s.title = Blank /\ s.description = Blank THEN Miss
                 ELSE [title |-> s.title, description |-> s.description]
  BY <1>6 DEF Parse
<1> QED
  BY <1>8, <1>9 DEF Deserved

\* A request that has a page at hand is about to store what it parsed.
ParsedInv ==
    /\ stage \in [Request -> {"idle", "resolve", "fetch", "connected", "store", "answer"}]
    /\ result \in [Request -> SUBSET (Preview \cup {Miss})] /\ page \in [Request -> SUBSET Page]
    /\ \A r \in Request :
          /\ page[r] # {} => stage[r] = "store"
          /\ \A q \in page[r] : result[r] = {Parse(q)}

LEMMA ParsedKept ==
    ASSUME PreviewTypeOK', ParsedInv, [Next]_vars
    PROVE  ParsedInv'
<1>1. /\ stage' \in [Request -> {"idle", "resolve", "fetch", "connected", "store", "answer"}]
      /\ result' \in [Request -> SUBSET (Preview \cup {Miss})] /\ page' \in [Request -> SUBSET Page]
  BY DEF PreviewTypeOK
<1> SUFFICES \A r \in Request : /\ page'[r] # {} => stage'[r] = "store"
                                /\ \A q \in page'[r] : result'[r] = {Parse(q)}
  BY <1>1 DEF ParsedInv
<1>2. CASE UNCHANGED <<stage, result, page>>
  BY <1>2 DEF ParsedInv
\* The page is not at hand before the fetch, and is dropped with the store.
<1>3. ASSUME NEW r \in Request, NEW s, Goto(r, s), page'[r] = {},
             \A d \in Request : d # r => result'[d] = result[d] /\ page'[d] = page[d]
      PROVE  \A d \in Request : /\ page'[d] # {} => stage'[d] = "store"
                                /\ \A q \in page'[d] : result'[d] = {Parse(q)}
  <2>1. \A d \in Request : d # r => stage'[d] = stage[d]
    BY <1>3 DEF Goto, ParsedInv
  <2> QED
    BY <1>3, <2>1 DEF ParsedInv
<1>4. ASSUME NEW r \in Request,
             \/ \E u \in Url : GetLinkPreview(r, u) \/ GetCachedPreview(r, u)
             \/ ResolveSafeIp(r) \/ BuildConnectionUrl(r) \/ CachePreview(r) \/ Answer(r)
      PROVE  \A d \in Request : /\ page'[d] # {} => stage'[d] = "store"
                                /\ \A q \in page'[d] : result'[d] = {Parse(q)}
  <2>1. \E s : Goto(r, s)
    BY <1>4 DEF GetLinkPreview, GetCachedPreview, ResolveSafeIp, BuildConnectionUrl, CachePreview, Answer
  <2>2. page'[r] = {}
    <3>1. CASE CachePreview(r)
      BY <3>1 DEF CachePreview, ParsedInv
    <3>2. CASE ~CachePreview(r)
      <4>1. UNCHANGED page /\ stage[r] # "store"
        BY <1>4, <3>2 DEF GetLinkPreview, GetCachedPreview, ResolveSafeIp, BuildConnectionUrl, Answer
      <4> QED
        BY <4>1 DEF ParsedInv
    <3> QED
      BY <3>1, <3>2
  <2>3. \A d \in Request : d # r => result'[d] = result[d] /\ page'[d] = page[d]
    <3>1. UNCHANGED result \/ \E x : result' = [result EXCEPT ![r] = x]
      BY <1>4 DEF GetLinkPreview, GetCachedPreview, ResolveSafeIp, BuildConnectionUrl, CachePreview, Answer
    <3>2. UNCHANGED page \/ \E x : page' = [page EXCEPT ![r] = x]
      BY <1>4 DEF GetLinkPreview, GetCachedPreview, ResolveSafeIp, BuildConnectionUrl, CachePreview, Answer
    <3> QED
      BY <3>1, <3>2 DEF ParsedInv
  <2> QED
    BY <1>3, <2>1, <2>2, <2>3
<1>5. ASSUME NEW r \in Request, FetchHtml(r)
      PROVE  \A d \in Request : /\ page'[d] # {} => stage'[d] = "store"
                                /\ \A q \in page'[d] : result'[d] = {Parse(q)}
  <2>1. stage[r] = "connected" /\ stage' = [stage EXCEPT ![r] = "store"]
    BY <1>5 DEF FetchHtml, Goto
  <2>2. CASE UNCHANGED page /\ result' = [result EXCEPT ![r] = {Miss}]
    <3>1. page'[r] = {} /\ \A d \in Request : d # r => result'[d] = result[d] /\ page'[d] = page[d]
      BY <2>1, <2>2 DEF ParsedInv
    <3> QED
      BY <1>3, <2>1, <3>1 DEF Goto
  <2>3. ASSUME NEW q \in Page, page' = [page EXCEPT ![r] = {q}],
               result' = [result EXCEPT ![r] = {Parse(q)}]
        PROVE  \A d \in Request : /\ page'[d] # {} => stage'[d] = "store"
                                  /\ \A p \in page'[d] : result'[d] = {Parse(p)}
    <3>1. page'[r] = {q} /\ result'[r] = {Parse(q)} /\ stage'[r] = "store"
      BY <2>1, <2>3 DEF ParsedInv
    <3>2. \A d \in Request : d # r => page'[d] = page[d] /\ result'[d] = result[d] /\ stage'[d] = stage[d]
      BY <2>1, <2>3 DEF ParsedInv
    <3> QED
      BY <3>1, <3>2 DEF ParsedInv
  <2> QED
    BY <1>5, <2>2, <2>3 DEF FetchHtml
<1> QED
  BY <1>2, <1>4, <1>5 DEF Next, vars, previewVars, Expire

\* Whatever a well-formed page says and wherever in its head, the parser, which sees
\* one tag at a time, finds it, for any number of requests and pages of any length.
THEOREM ParserFindsMetadataCorrect ==
    ASSUME \A q \in Page : WellFormed(q)
    PROVE  Spec => []ParserFindsMetadata
<1>1. ParsedInv => ParserFindsMetadata
  BY PageAssumption, ParseFinds DEF ParsedInv, ParserFindsMetadata
<1>2. Init => PreviewTypeOK /\ ParsedInv
  <2> SUFFICES ASSUME Init PROVE PreviewTypeOK /\ ParsedInv
    OBVIOUS
  <2>1. PreviewTypeOK
    BY FS_EmptySet DEF Init, PreviewInit, PreviewTypeOK
  <2>2. ParsedInv
    BY DEF Init, PreviewInit, ParsedInv
  <2> QED
    BY <2>1, <2>2
<1>3. PreviewTypeOK /\ ParsedInv /\ [Next]_vars => (PreviewTypeOK /\ ParsedInv)'
  BY PreviewTypeKept, ParsedKept
<1> QED
  BY <1>1, <1>2, <1>3, PTL DEF Spec

=============================================================================
