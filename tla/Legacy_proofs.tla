---------------------------- MODULE Legacy_proofs ----------------------------
(***************************************************************************)
(* Proofs about the two modules of the legacy backend, LegacyRooms and     *)
(* LegacyMessages.                                                         *)
(*                                                                         *)
(* Rooms, for any users, rooms and finitely many sockets.  RoomsTypeInv:   *)
(* the types, where each handler is (Placed), and that the manager tells   *)
(* one story (Sound): its sockets are where their handlers say (Located),  *)
(* names stand in a join order once for each connection (Counted), and     *)
(* each user's sockets are those of the rooms and of the lobby (Reached).  *)
(* On top of it KicksInv, that no user has more kicks to take than         *)
(* connections to end, and CareInv, that somebody looks after each room    *)
(* with a connection.                                                      *)
(*                                                                         *)
(* Messages, for any sockets, messages, faults and retries: the type       *)
(* invariant, that a room message which was broadcast is kept, and that    *)
(* pages have what a connection sent in order and once (PagesInv).         *)
(***************************************************************************)
EXTENDS LegacyRooms, LegacyMessages, FiniteSetTheorems, SequenceTheorems,
        WellFoundedInduction, TLAPS


----------------------------------------------------------------------------
(* Induction over the naturals, for a set of them.                         *)

LEMMA LeastNat ==
    ASSUME NEW I, I \subseteq Nat, I # {}
    PROVE  \E x \in I : \A y \in I : x <= y
<1> DEFINE less == {ss \in Nat \X Nat : ss[1] < ss[2]}
<1>1. less = OpToRel(<, Nat)
  BY DEF OpToRel
<1>2. IsWellFoundedOn(less, Nat)
  BY <1>1, NatLessThanWellFounded
<1>3. \A x, y \in Nat : <<x, y>> \in less <=> x < y
  OBVIOUS
<1> HIDE DEF less
<1>4. PICK x \in I : \A y \in I : ~(<<y, x>> \in less)
  BY <1>2, WFMin, Zenon
<1>5. \A y \in I : ~(y < x)
  BY <1>3, <1>4, Zenon
<1>6. \A y \in I : x \in Nat /\ y \in Nat
  OBVIOUS
<1> QED
  BY <1>5, <1>6

LEMMA NatSetInduction ==
    ASSUME NEW Good, 0 \in Good, \A n \in Nat : n \in Good => n + 1 \in Good
    PROVE  Nat \subseteq Good
<1> SUFFICES ASSUME Nat \ Good # {} PROVE FALSE
  OBVIOUS
<1>1. PICK x \in Nat \ Good : \A y \in Nat \ Good : x <= y
  BY LeastNat
<1>2. x - 1 \in Nat /\ ~(x <= x - 1) /\ (x - 1) + 1 = x
  BY <1>1
<1> QED
  BY <1>1, <1>2

----------------------------------------------------------------------------
(* How often a name stands in a join order.                                *)

Places(q, u) == {i \in DOMAIN q : q[i] = u}

LEMMA PlacesFinite ==
    ASSUME NEW S, NEW q \in Seq(S), NEW u
    PROVE  IsFiniteSet(Places(q, u)) /\ Cardinality(Places(q, u)) \in Nat
<1>1. DOMAIN q = 1..Len(q) /\ Len(q) \in Nat
  BY LenProperties
<1>2. IsFiniteSet(1..Len(q))
  BY <1>1, FS_Interval
<1>3. Places(q, u) \in SUBSET (1..Len(q))
  BY <1>1 DEF Places
<1> QED
  BY <1>2, <1>3, FS_Subset, FS_CardinalityType

LEMMA AppendPlaces ==
    ASSUME NEW S, NEW q \in Seq(S), NEW e \in S, NEW u
    PROVE  /\ Append(q, e) \in Seq(S)
           /\ Cardinality(Places(Append(q, e), u)) =
                 Cardinality(Places(q, u)) + (IF e = u THEN 1 ELSE 0)
<1> DEFINE n == Len(q)
<1>1. DOMAIN q = 1..n /\ n \in Nat
  BY LenProperties
<1>2. /\ Append(q, e) \in Seq(S) /\ DOMAIN Append(q, e) = 1..(n + 1)
      /\ Append(q, e)[n + 1] = e /\ \A i \in 1..n : Append(q, e)[i] = q[i]
  <2>1. Append(q, e) \in Seq(S) /\ Len(Append(q, e)) = n + 1
    BY AppendProperties
  <2>2. DOMAIN Append(q, e) = 1..(n + 1)
    BY <2>1, LenProperties
  <2>3. Append(q, e)[n + 1] = e /\ \A i \in 1..n : Append(q, e)[i] = q[i]
    BY AppendProperties
  <2> QED
    BY <2>1, <2>2, <2>3
<1>3. 1..(n + 1) = (1..n) \cup {n + 1} /\ (n + 1) \notin 1..n
  BY <1>1
<1>4. CASE e = u
  <2>1. Places(Append(q, e), u) = Places(q, u) \cup {n + 1}
    BY <1>1, <1>2, <1>3, <1>4 DEF Places
  <2>2. (n + 1) \notin Places(q, u)
    BY <1>1, <1>3 DEF Places
  <2> QED
    BY <1>2, <1>4, <2>1, <2>2, PlacesFinite, FS_AddElement
<1>5. CASE e # u
  <2>1. Places(Append(q, e), u) = Places(q, u)
    BY <1>1, <1>2, <1>3, <1>5 DEF Places
  <2> QED
    BY <1>2, <1>5, <2>1, PlacesFinite
<1> QED
  BY <1>4, <1>5

\* A sequence without its position k: what is after it moves down by one.
LEMMA WithoutPlace ==
    ASSUME NEW S, NEW q \in Seq(S), NEW k \in 1..Len(q)
    PROVE  LET t == RemoveAt(q, k)
           IN  /\ t \in Seq(S)
               /\ Len(t) = Len(q) - 1
               /\ \A i \in 1..Len(t) : t[i] = IF i < k THEN q[i] ELSE q[i + 1]
<1> DEFINE lo == SubSeq(q, 1, k - 1)
           hi == SubSeq(q, k + 1, Len(q))
<1>1. DOMAIN q = 1..Len(q) /\ Len(q) \in Nat /\ \A i \in 1..Len(q) : q[i] \in S
  BY ElementOfSeq, LenProperties
<1>2. /\ lo \in Seq(S) /\ Len(lo) = k - 1
      /\ \A i \in 1..(k - 1) : lo[i] = q[i]
  <2>1. \A i \in 1..(k - 1) : q[i] \in S
    BY <1>1
  <2> QED
    BY <1>1, <2>1, SubSeqProperties, Z3
<1>3. /\ hi \in Seq(S) /\ Len(hi) = Len(q) - k
      /\ \A i \in 1..(Len(q) - k) : hi[i] = q[k + i]
  <2>1. PICK a, n \in Int : a = k + 1 /\ n = Len(q)
    <3>1. Len(q) \in Nat
      BY <1>1
    <3>2. k \in Int /\ k + 1 \in Int /\ Len(q) \in Int
      BY <3>1
    <3> QED
      BY <3>2
  <2>2. \A i \in a..n : q[i] \in S
    BY <1>1, <2>1
  <2>3. /\ SubSeq(q, a, n) \in Seq(S)
        /\ Len(SubSeq(q, a, n)) = IF a <= n THEN n - a + 1 ELSE 0
        /\ \A i \in 1..(n - a + 1) : SubSeq(q, a, n)[i] = q[a + i - 1]
    BY <2>2, SubSeqProperties
  <2>4. hi = SubSeq(q, a, n)
    BY <2>1
  <2> HIDE DEF hi
  <2>5. Len(q) \in Nat
    BY <1>1
  <2>6. Len(hi) = Len(q) - k
    BY <2>1, <2>3, <2>4, <2>5
  <2>7. ASSUME NEW i \in 1..(Len(q) - k) PROVE hi[i] = q[k + i]
    <3>1. a + i - 1 = k + i /\ n - a + 1 = Len(q) - k
      BY <2>1, <2>5
    <3> QED
      BY <2>3, <2>4, <3>1
  <2> QED
    BY <2>3, <2>4, <2>6, <2>7
<1>4. RemoveAt(q, k) = lo \o hi
  BY DEF RemoveAt
<1> HIDE DEF lo, hi
<1>5. /\ lo \o hi \in Seq(S)
      /\ Len(lo \o hi) = Len(q) - 1
      /\ \A i \in 1..(Len(q) - 1) : (lo \o hi)[i] =
            IF i <= k - 1 THEN lo[i] ELSE hi[i - (k - 1)]
  <2>1. /\ lo \o hi \in Seq(S)
        /\ Len(lo \o hi) = Len(lo) + Len(hi)
        /\ \A i \in 1..(Len(lo) + Len(hi)) : (lo \o hi)[i] =
              IF i <= Len(lo) THEN lo[i] ELSE hi[i - Len(lo)]
    BY <1>2, <1>3, ConcatProperties, Zenon
  <2>2. Len(lo) = k - 1 /\ Len(lo) + Len(hi) = Len(q) - 1
    BY <1>1, <1>2, <1>3
  <2> QED
    BY <2>1, <2>2, Zenon
<1> QED
  BY <1>1, <1>2, <1>3, <1>4, <1>5

\* RemoveFirst takes out the first of the places of e.
LEMMA RemoveFirstIs ==
    ASSUME NEW S, NEW q \in Seq(S), NEW e, Places(q, e) # {}
    PROVE  \E k \in Places(q, e) : RemoveFirst(q, e) = RemoveAt(q, k)
<1> DEFINE I == {i \in 1..Len(q) : q[i] = e}
           k == Min(I)
<1>1. DOMAIN q = 1..Len(q) /\ Len(q) \in Nat
  BY LenProperties
<1>2. I = Places(q, e) /\ I \subseteq Nat /\ I # {}
  BY <1>1 DEF Places
<1>3. k \in I
  <2>1. \E x \in I : \A y \in I : x <= y
    BY <1>2, LeastNat
  <2> QED
    BY <2>1 DEF Min
<1>4. RemoveFirst(q, e) = RemoveAt(q, k)
  BY <1>2 DEF RemoveFirst, SelectInSeq
<1> HIDE DEF k
<1> QED
  BY <1>2, <1>3, <1>4

LEMMA RemoveFirstPlaces ==
    ASSUME NEW S, NEW q \in Seq(S), NEW e, NEW u
    PROVE  /\ RemoveFirst(q, e) \in Seq(S)
           /\ Cardinality(Places(RemoveFirst(q, e), u)) =
                 Cardinality(Places(q, u)) - (IF e = u /\ Places(q, e) # {} THEN 1 ELSE 0)
<1>1. DOMAIN q = 1..Len(q) /\ Len(q) \in Nat
  BY LenProperties
<1>2. CASE Places(q, e) = {}
  <2>1. RemoveFirst(q, e) = q
    BY <1>1, <1>2 DEF RemoveFirst, Places
  <2> QED
    BY <1>2, <2>1, PlacesFinite
<1>3. CASE Places(q, e) # {}
  <2> DEFINE t == RemoveFirst(q, e)
  <2>1. PICK k \in Places(q, e) :
           /\ t \in Seq(S)
           /\ Len(t) = Len(q) - 1
           /\ \A i \in 1..Len(t) : t[i] = IF i < k THEN q[i] ELSE q[i + 1]
    <3>1. PICK k \in Places(q, e) : RemoveFirst(q, e) = RemoveAt(q, k)
      BY <1>3, RemoveFirstIs
    <3>2. k \in 1..Len(q)
      BY <1>1 DEF Places
    <3> QED
      BY <3>1, <3>2, WithoutPlace
  <2> HIDE DEF t
  <2>2. DOMAIN t = 1..Len(t) /\ k \in 1..Len(q) /\ q[k] = e
    BY <1>1, <2>1, LenProperties DEF Places
  <2> DEFINE A == Places(q, u) \ {k}
             B == Places(t, u)
             f == [i \in A |-> IF i < k THEN i ELSE i - 1]
  <2>3. f \in Bijection(A, B)
    <3>1. \A i \in A : i \in 1..Len(q) /\ i # k /\ q[i] = u
      BY <1>1 DEF Places
    <3>2. \A i \in A : f[i] \in B
      BY <1>1, <2>1, <2>2, <3>1 DEF Places
    <3>3. \A i, j \in A : f[i] = f[j] => i = j
      BY <1>1, <2>2, <3>1
    <3>4. \A j \in B : \E i \in A : f[i] = j
      <4> TAKE j \in B
      <4>1. j \in 1..Len(t) /\ t[j] = u
        BY <2>2 DEF Places
      <4>2. CASE j < k
        <5>1. j \in A
          BY <1>1, <2>1, <2>2, <4>1, <4>2 DEF Places
        <5> QED
          BY <4>2, <5>1
      <4>3. CASE ~(j < k)
        <5>1. j + 1 \in A
          BY <1>1, <2>1, <2>2, <4>1, <4>3 DEF Places
        <5>2. ~(j + 1 < k) /\ (j + 1) - 1 = j
          BY <1>1, <2>1, <2>2, <4>1, <4>3
        <5> QED
          BY <5>1, <5>2
      <4> QED
        BY <4>2, <4>3
    <3>5. f \in [A -> B]
      BY <3>2
    <3> HIDE DEF f, A, B
    <3> QED
      BY <3>3, <3>4, <3>5 DEF Bijection, Injection, Surjection, IsInjective
  <2>4. IsFiniteSet(Places(q, u)) /\ Cardinality(Places(q, u)) \in Nat
    BY PlacesFinite
  <2>5. IsFiniteSet(A) /\ Cardinality(A) = IF k \in Places(q, u) THEN Cardinality(Places(q, u)) - 1
                                                              ELSE Cardinality(Places(q, u))
    BY <2>4, FS_RemoveElement
  <2>6. Cardinality(B) = Cardinality(A)
    BY <2>3, <2>5, FS_Bijection DEF ExistsBijection
  <2>7. k \in Places(q, u) <=> e = u
    BY <1>1, <2>2 DEF Places
  <2> QED
    BY <1>3, <2>1, <2>4, <2>5, <2>6, <2>7 DEF t
<1> QED
  BY <1>2, <1>3


----------------------------------------------------------------------------
(* What a relay does to the manager, one dead socket after the other.      *)

Pick(U) == CHOOSE x \in U : TRUE

DropNext(f, base, U) == IF U = {} THEN base ELSE DropDead(Pick(U), f[U \ {Pick(U)}])

Drops(f, base, D) == f = [U \in D |-> DropNext(f, base, U)]

\* The dead sockets of a finite set are dropped along a chain of its subsets.
LEMMA DropsExist ==
    ASSUME NEW base, NEW dead, IsFiniteSet(dead)
    PROVE  \E f : Drops(f, base, SUBSET dead)
<1> DEFINE Small(n) == {U \in SUBSET dead : Cardinality(U) <= n}
           Good == {n \in Nat : \E f : Drops(f, base, Small(n))}
<1>1. \A U \in SUBSET dead : IsFiniteSet(U) /\ Cardinality(U) \in Nat
  BY FS_Subset, FS_CardinalityType
<1>2. \A U \in SUBSET dead : U # {} => Pick(U) \in U
  BY DEF Pick
<1>3. 0 \in Good
  <2> DEFINE f == [U \in Small(0) |-> base]
  <2>1. \A U \in Small(0) : U = {}
    BY <1>1, FS_EmptySet
  <2>2. Drops(f, base, Small(0))
    BY <2>1 DEF Drops, DropNext
  <2> QED
    BY <2>2
<1>4. ASSUME NEW n \in Nat, n \in Good
      PROVE  n + 1 \in Good
  <2>1. PICK f : Drops(f, base, Small(n))
    BY <1>4
  <2> DEFINE g == [U \in Small(n + 1) |-> DropNext(f, base, U)]
  <2>2. \A U \in Small(n) : U \in Small(n + 1) /\ g[U] = f[U]
    <3>1. \A U \in Small(n) : U \in Small(n + 1)
      BY <1>1
    <3>2. \A U \in Small(n) : f[U] = DropNext(f, base, U)
      BY <2>1 DEF Drops
    <3> QED
      BY <3>1, <3>2
  <2>3. \A U \in Small(n + 1) : U # {} => U \ {Pick(U)} \in Small(n)
    <3> SUFFICES ASSUME NEW U \in Small(n + 1), U # {}
                 PROVE  U \ {Pick(U)} \in Small(n)
      OBVIOUS
    <3>1. Pick(U) \in U /\ IsFiniteSet(U) /\ Cardinality(U) \in Nat /\ Cardinality(U) <= n + 1
      BY <1>1, <1>2
    <3>2. Cardinality(U \ {Pick(U)}) = Cardinality(U) - 1
      BY <3>1, FS_RemoveElement
    <3> QED
      BY <3>1, <3>2
  <2> HIDE DEF Small
  <2>4. \A U \in Small(n + 1) : DropNext(f, base, U) = DropNext(g, base, U)
    BY <2>2, <2>3 DEF DropNext
  <2>5. g = [U \in Small(n + 1) |-> DropNext(g, base, U)]
    BY <2>4
  <2>6. Drops(g, base, Small(n + 1))
    BY <2>5 DEF Drops
  <2> QED
    BY <2>6
<1>5. Cardinality(dead) \in Nat /\ Small(Cardinality(dead)) = SUBSET dead
  BY <1>1, FS_CardinalityType, FS_Subset
<1> HIDE DEF Small
<1>6. Cardinality(dead) \in Good
  <2> HIDE DEF Good
  <2> QED
    BY <1>3, <1>4, <1>5, NatSetInduction
<1> QED
  BY <1>5, <1>6

DroppedBy(f, base, dead) ==
    /\ DropAll(base, dead) = f[dead]
    /\ \A U \in SUBSET dead : f[U] = DropNext(f, base, U)

LEMMA DropAllIs ==
    ASSUME NEW base, NEW dead, IsFiniteSet(dead)
    PROVE  \E f : DroppedBy(f, base, dead)
<1> DEFINE f == CHOOSE g : Drops(g, base, SUBSET dead)
<1>1. DropAll(base, dead) = f[dead]
  BY DEF DropAll, FoldSet, MapThenFoldSet, Drops, DropNext, Pick
<1>2. Drops(f, base, SUBSET dead)
  BY DropsExist
<1> HIDE DEF f
<1>3. \A U \in SUBSET dead : f[U] = DropNext(f, base, U)
  BY <1>2 DEF Drops
<1> QED
  BY <1>1, <1>3 DEF DroppedBy


----------------------------------------------------------------------------
(* What holds of a manager m while the handlers have come as far as e.     *)

OfIn(m, u, r) == {s \in m.rooms[r] : m.socketToUser[s] = u}

\* Where the handler of a socket in a room may be, and of one in the lobby.
Listed == {"greeting", "open", "kicking", "crashed"}

InLobby == {"lobby", "stray"}

\* The sockets in rooms and in the lobby are where their handlers say.
Located(m, e) ==
    /\ \A r \in Room : \A s \in m.rooms[r] :
          /\ e[s].pc \in Listed /\ e[s].room = r /\ e[s].user \in User
          /\ m.socketToUser[s] = e[s].user
    /\ \A s \in WebSocket : m.socketToUser[s] # Nobody => \E r \in Room : s \in m.rooms[r]
    /\ \A s \in WebSocket : m.lobby[s] # Nobody => e[s].pc \in InLobby /\ e[s].user = m.lobby[s]

Counted(m) ==
    \A r \in Room : \A u \in User : Cardinality(OfIn(m, u, r)) = Cardinality(Places(m.joinOrder[r], u))

Reached(m) ==
    \A u \in User : \A s \in WebSocket :
       s \in m.userToSocket[u] <=> m.lobby[s] = u \/ m.socketToUser[s] = u

Sound(m, e) == Located(m, e) /\ Counted(m) /\ Reached(m)

\* n is m without the sockets of D.
Dropped(m, n, D) ==
    /\ \A r \in Room : n.rooms[r] = m.rooms[r] \ D
    /\ n.kicked = m.kicked
    /\ \A s \in WebSocket : n.lobby[s] = IF s \in D THEN Nobody ELSE m.lobby[s]

Handlers == [WebSocket -> Endpoint]

LEMMA OfInFinite ==
    ASSUME NEW m \in Manager, NEW u, NEW r \in Room
    PROVE  IsFiniteSet(OfIn(m, u, r)) /\ Cardinality(OfIn(m, u, r)) \in Nat
<1>1. OfIn(m, u, r) \in SUBSET WebSocket
  BY DEF OfIn, Manager
<1> QED
  BY <1>1, LegacyAssumption, FS_Subset, FS_CardinalityType

\* n is m after the disconnect of s, field by field.
Unlisted(m, n, s, r) ==
    /\ n \in Manager
    /\ n.rooms = [m.rooms EXCEPT ![r] = @ \ {s}]
    /\ n.socketToUser = [m.socketToUser EXCEPT ![s] = Nobody]
    /\ n.userToSocket = [u \in User |-> m.userToSocket[u] \ {s}]
    /\ n.joinOrder = [m.joinOrder EXCEPT ![r] = RemoveFirst(@, m.socketToUser[s])]
    /\ n.kicked = m.kicked
    /\ n.lobby = m.lobby

LEMMA DisconnectIs ==
    ASSUME NEW m \in Manager, NEW s \in WebSocket, NEW r \in Room
    PROVE  Unlisted(m, Disconnect(m, s, r), s, r)
<1> DEFINE n == Disconnect(m, s, r)
<1>1. /\ n = [m EXCEPT !.rooms[r]        = @ \ {s},
                        !.socketToUser[s] = Nobody,
                        !.userToSocket    = [u \in User |-> @[u] \ {s}],
                        !.joinOrder[r]    = RemoveFirst(@, m.socketToUser[s])]
  BY DEF Disconnect
<1>2. RemoveFirst(m.joinOrder[r], m.socketToUser[s]) \in Seq(User)
  <2>1. m.joinOrder[r] \in Seq(User)
    BY DEF Manager
  <2> QED
    BY <2>1, RemoveFirstPlaces
<1>3. n = [rooms        |-> [m.rooms EXCEPT ![r] = @ \ {s}],
           socketToUser |-> [m.socketToUser EXCEPT ![s] = Nobody],
           userToSocket |-> [u \in User |-> m.userToSocket[u] \ {s}],
           joinOrder    |-> [m.joinOrder EXCEPT ![r] = RemoveFirst(@, m.socketToUser[s])],
           kicked       |-> m.kicked,
           lobby        |-> m.lobby]
  BY <1>1 DEF Manager
<1> HIDE DEF n
<1>4. n \in Manager
  BY <1>2, <1>3 DEF Manager
<1> QED
  BY <1>3, <1>4 DEF n, Unlisted

LEMMA DisconnectDrops ==
    ASSUME NEW m \in Manager, NEW e \in Handlers, Sound(m, e),
           NEW s \in WebSocket, NEW r \in Room,
           \A q \in Room : s \in m.rooms[q] => q = r,
           m.lobby[s] = Nobody
    PROVE  LET n == Disconnect(m, s, r)
           IN  n \in Manager /\ Sound(n, e) /\ Dropped(m, n, {s})
<1> DEFINE n == Disconnect(m, s, r)
           x == m.socketToUser[s]
<1>1. Unlisted(m, n, s, r)
  BY DisconnectIs
<1> HIDE DEF n
<1>2. /\ n \in Manager
      /\ n.rooms = [m.rooms EXCEPT ![r] = @ \ {s}]
      /\ n.socketToUser = [m.socketToUser EXCEPT ![s] = Nobody]
      /\ n.userToSocket = [u \in User |-> m.userToSocket[u] \ {s}]
      /\ n.joinOrder = [m.joinOrder EXCEPT ![r] = RemoveFirst(@, x)]
      /\ n.kicked = m.kicked
      /\ n.lobby = m.lobby
  BY <1>1 DEF Unlisted
<1>3. /\ m.rooms \in [Room -> SUBSET WebSocket] /\ m.socketToUser \in [WebSocket -> User \cup {Nobody}]
      /\ m.joinOrder \in [Room -> Seq(User)] /\ m.userToSocket \in [User -> SUBSET WebSocket]
      /\ m.lobby \in [WebSocket -> User \cup {Nobody}]
  BY DEF Manager
<1>4. /\ \A q \in Room : n.rooms[q] = m.rooms[q] \ {s}
      /\ \A t \in WebSocket : n.socketToUser[t] = IF t = s THEN Nobody ELSE m.socketToUser[t]
      /\ \A q \in Room : n.joinOrder[q] = IF q = r THEN RemoveFirst(m.joinOrder[r], x) ELSE m.joinOrder[q]
  <2>1. \A q \in Room : n.rooms[q] = m.rooms[q] \ {s}
    BY <1>2, <1>3
  <2> QED
    BY <1>2, <1>3, <2>1
<1>5. Dropped(m, n, {s})
  BY <1>2, <1>3, <1>4 DEF Dropped
<1>6. Located(n, e)
  <2>1. \A q \in Room : \A t \in n.rooms[q] : t \in WebSocket /\ t # s /\ t \in m.rooms[q]
    BY <1>3, <1>4
  <2>2. \A t \in WebSocket : n.socketToUser[t] # Nobody =>
           t # s /\ \E q \in Room : t \in m.rooms[q]
    BY <1>4 DEF Sound, Located
  <2> QED
    BY <1>2, <1>4, <2>1, <2>2 DEF Sound, Located
<1>7. ASSUME NEW q \in Room, NEW u \in User
      PROVE  Cardinality(OfIn(n, u, q)) = Cardinality(Places(n.joinOrder[q], u))
  <2>1. Cardinality(OfIn(m, u, q)) = Cardinality(Places(m.joinOrder[q], u))
    BY DEF Sound, Counted
  <2>2. OfIn(n, u, q) = OfIn(m, u, q) \ {s}
    BY <1>3, <1>4 DEF OfIn
  <2>3. CASE q # r \/ x # u
    <3>1. s \notin OfIn(m, u, q)
      BY <2>3 DEF OfIn
    <3>2. OfIn(n, u, q) = OfIn(m, u, q)
      BY <2>2, <3>1
    <3>3. Cardinality(Places(n.joinOrder[q], u)) = Cardinality(Places(m.joinOrder[q], u))
      <4>1. CASE q # r
        BY <1>4, <4>1
      <4>2. CASE q = r /\ x # u
        <5>1. m.joinOrder[r] \in Seq(User)
          BY <1>3
        <5>2. Cardinality(Places(RemoveFirst(m.joinOrder[r], x), u)) = Cardinality(Places(m.joinOrder[r], u)) - 0
          BY <4>2, <5>1, RemoveFirstPlaces
        <5>3. Cardinality(Places(m.joinOrder[r], u)) \in Nat
          BY <5>1, PlacesFinite
        <5> QED
          BY <1>4, <4>2, <5>2, <5>3
      <4> QED
        BY <2>3, <4>1, <4>2
    <3> QED
      BY <2>1, <3>2, <3>3
  <2>4. CASE q = r /\ x = u
    <3>1. s \in m.rooms[r]
      <4>1. x # Nobody
        BY <2>4, LegacyAssumption
      <4> QED
        BY <4>1 DEF Sound, Located
    <3>2. s \in OfIn(m, u, r)
      BY <2>4, <3>1 DEF OfIn
    <3>3. /\ IsFiniteSet(OfIn(m, u, r)) /\ Cardinality(OfIn(m, u, r)) \in Nat
          /\ Cardinality(OfIn(m, u, r) \ {s}) = Cardinality(OfIn(m, u, r)) - 1
          /\ Cardinality(OfIn(m, u, r)) # 0
      BY <3>2, OfInFinite, FS_RemoveElement, FS_EmptySet
    <3>4. m.joinOrder[r] \in Seq(User)
      BY <1>3
    <3>5. Places(m.joinOrder[r], u) # {}
      BY <2>1, <2>4, <3>3, FS_EmptySet
    <3>6. Cardinality(Places(RemoveFirst(m.joinOrder[r], u), u)) = Cardinality(Places(m.joinOrder[r], u)) - 1
      BY <3>4, <3>5, RemoveFirstPlaces
    <3> QED
      BY <1>4, <2>1, <2>2, <2>4, <3>3, <3>6
  <2> QED
    BY <2>3, <2>4
<1>8. ASSUME NEW u \in User, NEW t \in WebSocket
      PROVE  t \in n.userToSocket[u] <=> n.lobby[t] = u \/ n.socketToUser[t] = u
  <2>1. t \in m.userToSocket[u] <=> m.lobby[t] = u \/ m.socketToUser[t] = u
    BY DEF Sound, Reached
  <2>2. n.userToSocket[u] = m.userToSocket[u] \ {s} /\ n.lobby[t] = m.lobby[t]
    BY <1>2
  <2>3. u # Nobody
    BY LegacyAssumption
  <2> QED
    BY <1>4, <2>1, <2>2, <2>3
<1>9. Sound(n, e)
  BY <1>6, <1>7, <1>8 DEF Sound, Counted, Reached
<1> QED
  BY <1>2, <1>5, <1>9 DEF n


LEMMA LeaveLobbyDrops ==
    ASSUME NEW m \in Manager, NEW e \in Handlers, Sound(m, e),
           NEW s \in WebSocket, e[s].pc \in InLobby
    PROVE  LET n == DisconnectLobby(m, s)
           IN  n \in Manager /\ Sound(n, e) /\ Dropped(m, n, {s})
<1> DEFINE n == DisconnectLobby(m, s)
<1>1. /\ m.rooms \in [Room -> SUBSET WebSocket] /\ m.socketToUser \in [WebSocket -> User \cup {Nobody}]
      /\ m.userToSocket \in [User -> SUBSET WebSocket]
      /\ m.lobby \in [WebSocket -> User \cup {Nobody}]
  BY DEF Manager
<1>2. n = [m EXCEPT !.lobby[s]     = Nobody,
                    !.userToSocket = [u \in User |-> @[u] \ {s}]]
  BY DEF DisconnectLobby
<1>3. n = [rooms        |-> m.rooms,
           socketToUser |-> m.socketToUser,
           userToSocket |-> [u \in User |-> m.userToSocket[u] \ {s}],
           joinOrder    |-> m.joinOrder,
           kicked       |-> m.kicked,
           lobby        |-> [m.lobby EXCEPT ![s] = Nobody]]
  BY <1>2 DEF Manager
<1> HIDE DEF n
<1>4. n \in Manager
  BY <1>3 DEF Manager
<1>5. \A t \in WebSocket : n.lobby[t] = IF t = s THEN Nobody ELSE m.lobby[t]
  BY <1>1, <1>3
<1>6. (\A r \in Room : s \notin m.rooms[r]) /\ m.socketToUser[s] = Nobody
  <2>1. \A r \in Room : s \notin m.rooms[r]
    BY DEF Sound, Located, Listed, InLobby
  <2> QED
    BY <2>1 DEF Sound, Located
<1>7. Dropped(m, n, {s})
  BY <1>1, <1>3, <1>5, <1>6 DEF Dropped
<1>8. Located(n, e)
  BY <1>3, <1>5 DEF Sound, Located
<1>9. Counted(n)
  BY <1>3 DEF Sound, Counted, OfIn
<1>10. Reached(n)
  <2> SUFFICES ASSUME NEW u \in User, NEW t \in WebSocket
               PROVE  t \in n.userToSocket[u] <=> n.lobby[t] = u \/ n.socketToUser[t] = u
    BY DEF Reached
  <2>1. t \in m.userToSocket[u] <=> m.lobby[t] = u \/ m.socketToUser[t] = u
    BY DEF Sound, Reached
  <2>2. u # Nobody
    BY LegacyAssumption
  <2> QED
    BY <1>3, <1>5, <1>6, <2>1, <2>2
<1> QED
  BY <1>4, <1>7, <1>8, <1>9, <1>10 DEF Sound, n

\* Whom the manager knows: whoever is in a room or in the lobby.
Known(m, s) == m.lobby[s] # Nobody \/ \E r \in Room : s \in m.rooms[r]

LEMMA DropDeadDrops ==
    ASSUME NEW m \in Manager, NEW e \in Handlers, Sound(m, e),
           NEW s \in WebSocket, Known(m, s)
    PROVE  LET n == DropDead(s, m)
           IN  n \in Manager /\ Sound(n, e) /\ Dropped(m, n, {s})
<1>1. CASE m.lobby[s] # Nobody
  <2>1. DropDead(s, m) = DisconnectLobby(m, s)
    BY <1>1 DEF DropDead
  <2>2. e[s].pc \in InLobby
    BY <1>1 DEF Sound, Located
  <2> QED
    BY <2>1, <2>2, LeaveLobbyDrops
<1>2. CASE m.lobby[s] = Nobody
  <2> DEFINE q == CHOOSE r \in Room : s \in m.rooms[r]
  <2>1. q \in Room /\ s \in m.rooms[q]
    BY <1>2 DEF Known
  <2>2. DropDead(s, m) = Disconnect(m, s, q)
    BY <1>2 DEF DropDead
  <2> HIDE DEF q
  <2>3. \A r \in Room : s \in m.rooms[r] => r = q
    BY <2>1 DEF Sound, Located
  <2> QED
    BY <1>2, <2>1, <2>2, <2>3, DisconnectDrops
<1> QED
  BY <1>1, <1>2

LEMMA RelayDrops ==
    ASSUME NEW m \in Manager, NEW e \in Handlers, Sound(m, e),
           NEW dead \in SUBSET WebSocket, \A s \in dead : Known(m, s)
    PROVE  LET n == DropAll(m, dead)
           IN  n \in Manager /\ Sound(n, e) /\ Dropped(m, n, dead)
<1> DEFINE Fine(n, D) == n \in Manager /\ Sound(n, e) /\ Dropped(m, n, D)
<1>1. IsFiniteSet(dead) /\ \A U \in SUBSET dead : IsFiniteSet(U) /\ Cardinality(U) \in Nat
  BY LegacyAssumption, FS_Subset, FS_CardinalityType
<1>2. PICK f : DroppedBy(f, m, dead)
  BY <1>1, DropAllIs
<1>3. DropAll(m, dead) = f[dead] /\ \A U \in SUBSET dead : f[U] = DropNext(f, m, U)
  BY <1>2 DEF DroppedBy
<1> DEFINE Good == {k \in Nat : \A U \in SUBSET dead : Cardinality(U) = k => Fine(f[U], U)}
<1>4. 0 \in Good
  <2> SUFFICES ASSUME NEW U \in SUBSET dead, Cardinality(U) = 0
               PROVE  Fine(f[U], U)
    OBVIOUS
  <2>1. U = {}
    BY <1>1, FS_EmptySet
  <2>2. f[U] = m
    BY <1>3, <2>1 DEF DropNext
  <2>3. Dropped(m, m, {})
    BY DEF Dropped
  <2> QED
    BY <2>1, <2>2, <2>3
<1>5. ASSUME NEW k \in Nat, k \in Good
      PROVE  k + 1 \in Good
  <2> SUFFICES ASSUME NEW U \in SUBSET dead, Cardinality(U) = k + 1
               PROVE  Fine(f[U], U)
    OBVIOUS
  <2>1. U # {}
    BY <1>1, FS_EmptySet
  <2>2. PICK s \in U : s = Pick(U)
    BY <2>1 DEF Pick
  <2>3. Cardinality(U \ {s}) = k /\ U \ {s} \in SUBSET dead
    BY <1>1, FS_RemoveElement
  <2>4. PICK n : n = f[U \ {s}] /\ Fine(n, U \ {s})
    BY <1>5, <2>3
  <2>5. f[U] = DropDead(s, n)
    BY <1>3, <2>1, <2>2, <2>4 DEF DropNext
  <2>6. s \in WebSocket /\ Known(n, s)
    <3>1. s \in WebSocket /\ Known(m, s)
      OBVIOUS
    <3> QED
      BY <2>4, <3>1 DEF Known, Dropped
  <2>7. DropDead(s, n) \in Manager /\ Sound(DropDead(s, n), e) /\ Dropped(n, DropDead(s, n), {s})
    BY <2>4, <2>6, DropDeadDrops
  <2>8. PICK l : l = DropDead(s, n)
    OBVIOUS
  <2>9. Dropped(m, l, U)
    <3>1. (U \ {s}) \cup {s} = U
      BY <2>2
    <3>2. \A r \in Room : l.rooms[r] = m.rooms[r] \ U
      BY <2>4, <2>7, <2>8, <3>1 DEF Dropped
    <3>3. l.kicked = m.kicked
      BY <2>4, <2>7, <2>8 DEF Dropped
    <3>4. \A t \in WebSocket : l.lobby[t] = IF t \in U THEN Nobody ELSE m.lobby[t]
      <4> TAKE t \in WebSocket
      <4>1. l.lobby[t] = IF t \in {s} THEN Nobody ELSE n.lobby[t]
        BY <2>7, <2>8 DEF Dropped
      <4>2. n.lobby[t] = IF t \in U \ {s} THEN Nobody ELSE m.lobby[t]
        BY <2>4 DEF Dropped
      <4> QED
        BY <2>2, <4>1, <4>2
    <3> QED
      BY <3>2, <3>3, <3>4 DEF Dropped
  <2> QED
    BY <2>5, <2>7, <2>8, <2>9
<1> HIDE DEF Fine
<1>6. Cardinality(dead) \in Good
  <2> HIDE DEF Good
  <2> QED
    BY <1>1, <1>4, <1>5, NatSetInduction
<1>7. Fine(f[dead], dead)
  BY <1>6
<1> QED
  BY <1>3, <1>7 DEF Fine


----------------------------------------------------------------------------
(* What connecting does to the manager.                                    *)

\* A socket whose handler is neither registered nor in the lobby is unknown.
LEMMA UnknownIs ==
    ASSUME NEW m, NEW e, Sound(m, e), NEW s \in WebSocket,
           e[s].pc \notin Listed, e[s].pc \notin InLobby
    PROVE  (\A r \in Room : s \notin m.rooms[r]) /\ m.socketToUser[s] = Nobody /\ m.lobby[s] = Nobody
<1>1. \A r \in Room : s \notin m.rooms[r]
  BY DEF Sound, Located
<1> QED
  BY <1>1 DEF Sound, Located

\* The handlers may move on as long as who is known stays in place.
LEMMA SoundMoves ==
    ASSUME NEW m, NEW e, NEW f, Sound(m, e),
           \A r \in Room : \A s \in m.rooms[r] :
              f[s].pc \in Listed /\ f[s].room = e[s].room /\ f[s].user = e[s].user,
           \A s \in WebSocket : m.lobby[s] # Nobody => f[s].pc \in InLobby /\ f[s].user = e[s].user
    PROVE  Sound(m, f)
<1>1. Located(m, f)
  BY DEF Sound, Located
<1> QED
  BY <1>1 DEF Sound

\* n is m with s in r as well.
Connected(m, n, s, r) ==
    /\ n.kicked = m.kicked
    /\ \A q \in Room : n.rooms[q] = IF q = r THEN m.rooms[q] \cup {s} ELSE m.rooms[q]

LEMMA ConnectSound ==
    ASSUME NEW m \in Manager, NEW e \in Handlers, NEW f \in Handlers, Sound(m, e),
           NEW s \in WebSocket, NEW u \in User, NEW r \in Room,
           e[s].pc = "accepting", f[s].pc = "greeting", f[s].user = u, f[s].room = r,
           \A t \in WebSocket : t # s => f[t] = e[t]
    PROVE  LET n == Connect(m, s, r, u)
           IN  n \in Manager /\ Sound(n, f) /\ Connected(m, n, s, r)
<1> DEFINE n == Connect(m, s, r, u)
<1>1. /\ m.rooms \in [Room -> SUBSET WebSocket] /\ m.socketToUser \in [WebSocket -> User \cup {Nobody}]
      /\ m.joinOrder \in [Room -> Seq(User)] /\ m.userToSocket \in [User -> SUBSET WebSocket]
      /\ m.lobby \in [WebSocket -> User \cup {Nobody}]
  BY DEF Manager
<1>2. n = [m EXCEPT !.rooms[r]        = @ \cup {s},
                    !.socketToUser[s] = u,
                    !.userToSocket[u] = @ \cup {s},
                    !.joinOrder[r]    = Append(@, u)]
  BY DEF Connect
<1>3. n = [rooms        |-> [m.rooms EXCEPT ![r] = @ \cup {s}],
           socketToUser |-> [m.socketToUser EXCEPT ![s] = u],
           userToSocket |-> [m.userToSocket EXCEPT ![u] = @ \cup {s}],
           joinOrder    |-> [m.joinOrder EXCEPT ![r] = Append(@, u)],
           kicked       |-> m.kicked,
           lobby        |-> m.lobby]
  <2>1. PICK ro, so, us, jo : /\ ro = [m.rooms EXCEPT ![r] = @ \cup {s}]
                              /\ so = [m.socketToUser EXCEPT ![s] = u]
                              /\ us = [m.userToSocket EXCEPT ![u] = @ \cup {s}]
                              /\ jo = [m.joinOrder EXCEPT ![r] = Append(@, u)]
    OBVIOUS
  <2>2. n = [m EXCEPT !.rooms = ro, !.socketToUser = so, !.userToSocket = us, !.joinOrder = jo]
    BY <1>2, <2>1
  <2>3. n = [rooms |-> ro, socketToUser |-> so, userToSocket |-> us, joinOrder |-> jo,
             kicked |-> m.kicked, lobby |-> m.lobby]
    BY <2>2 DEF Manager
  <2> QED
    BY <2>1, <2>3
<1> HIDE DEF n
<1>4. Append(m.joinOrder[r], u) \in Seq(User)
  BY <1>1, AppendPlaces
<1>5. n \in Manager
  BY <1>3, <1>4 DEF Manager
<1>6. /\ \A q \in Room : n.rooms[q] = IF q = r THEN m.rooms[q] \cup {s} ELSE m.rooms[q]
      /\ \A t \in WebSocket : n.socketToUser[t] = IF t = s THEN u ELSE m.socketToUser[t]
      /\ \A v \in User : n.userToSocket[v] = IF v = u THEN m.userToSocket[v] \cup {s} ELSE m.userToSocket[v]
      /\ \A q \in Room : n.joinOrder[q] = IF q = r THEN Append(m.joinOrder[r], u) ELSE m.joinOrder[q]
      /\ n.lobby = m.lobby /\ n.kicked = m.kicked
  BY <1>1, <1>3
<1>7. /\ \A q \in Room : n.rooms[q] \subseteq WebSocket /\ m.rooms[q] \subseteq WebSocket
      /\ \A q \in Room : \A t \in WebSocket : t \in n.rooms[q] <=> t \in m.rooms[q] \/ (q = r /\ t = s)
      /\ \A v \in User : \A t \in WebSocket :
            t \in n.userToSocket[v] <=> t \in m.userToSocket[v] \/ (v = u /\ t = s)
  <2>1. \A q \in Room : n.rooms[q] \subseteq WebSocket /\ m.rooms[q] \subseteq WebSocket
    BY <1>5 DEF Manager
  <2>2. \A q \in Room : \A t \in WebSocket : t \in n.rooms[q] <=> t \in m.rooms[q] \/ (q = r /\ t = s)
    <3> TAKE q \in Room
    <3>1. CASE q = r
      <4>1. n.rooms[q] = m.rooms[q] \cup {s}
        BY <1>6, <3>1
      <4> QED
        BY <3>1, <4>1
    <3>2. CASE q # r
      <4>1. n.rooms[q] = m.rooms[q]
        BY <1>6, <3>2
      <4> QED
        BY <3>2, <4>1
    <3> QED
      BY <3>1, <3>2
  <2>3. \A v \in User : \A t \in WebSocket :
            t \in n.userToSocket[v] <=> t \in m.userToSocket[v] \/ (v = u /\ t = s)
    <3> TAKE v \in User
    <3>1. CASE v = u
      <4>1. n.userToSocket[v] = m.userToSocket[v] \cup {s}
        BY <1>6, <3>1
      <4> QED
        BY <3>1, <4>1
    <3>2. CASE v # u
      <4>1. n.userToSocket[v] = m.userToSocket[v]
        BY <1>6, <3>2
      <4> QED
        BY <3>2, <4>1
    <3> QED
      BY <3>1, <3>2
  <2> QED
    BY <2>1, <2>2, <2>3
<1>8. (\A q \in Room : s \notin m.rooms[q]) /\ m.socketToUser[s] = Nobody /\ m.lobby[s] = Nobody
  BY UnknownIs DEF Listed, InLobby
<1>9. Located(n, f)
  <2>1. \A q \in Room : \A t \in n.rooms[q] : t \in WebSocket
    BY <1>7
  <2>2. ASSUME NEW q \in Room, NEW t \in n.rooms[q]
        PROVE  /\ f[t].pc \in Listed /\ f[t].room = q /\ f[t].user \in User
               /\ n.socketToUser[t] = f[t].user
    <3>1. CASE t = s
      <4>1. q = r
        BY <1>8, <1>7, <3>1
      <4> QED
        BY <1>6, <3>1, <4>1 DEF Listed
    <3>2. CASE t # s
      <4>1. t \in m.rooms[q] /\ f[t] = e[t] /\ n.socketToUser[t] = m.socketToUser[t]
        BY <1>6, <1>7, <2>1, <3>2
      <4> QED
        BY <4>1 DEF Sound, Located
    <3> QED
      BY <3>1, <3>2
  <2>3. \A t \in WebSocket : n.socketToUser[t] # Nobody => \E q \in Room : t \in n.rooms[q]
    <3> SUFFICES ASSUME NEW t \in WebSocket, n.socketToUser[t] # Nobody
                 PROVE  \E q \in Room : t \in n.rooms[q]
      OBVIOUS
    <3>1. CASE t = s
      BY <1>7, <3>1
    <3>2. CASE t # s
      <4>1. m.socketToUser[t] # Nobody
        BY <1>6, <3>2
      <4>2. \E q \in Room : t \in m.rooms[q]
        BY <4>1 DEF Sound, Located
      <4> QED
        BY <1>7, <4>2
    <3> QED
      BY <3>1, <3>2
  <2>4. \A t \in WebSocket : n.lobby[t] # Nobody => f[t].pc \in InLobby /\ f[t].user = n.lobby[t]
    BY <1>6, <1>8 DEF Sound, Located
  <2> QED
    BY <2>2, <2>3, <2>4 DEF Located
<1>10. ASSUME NEW q \in Room, NEW v \in User
      PROVE  Cardinality(OfIn(n, v, q)) = Cardinality(Places(n.joinOrder[q], v))
  <2>1. Cardinality(OfIn(m, v, q)) = Cardinality(Places(m.joinOrder[q], v))
    BY DEF Sound, Counted
  <2>2. m.joinOrder[q] \in Seq(User) /\ m.rooms[q] \subseteq WebSocket
    BY <1>1
  <2>3. IsFiniteSet(OfIn(m, v, q)) /\ Cardinality(OfIn(m, v, q)) \in Nat
    BY OfInFinite
  <2>4. s \notin OfIn(m, v, q)
    BY <1>8 DEF OfIn
  <2>5. CASE q = r /\ v = u
    <3>1. OfIn(n, v, q) = OfIn(m, v, q) \cup {s}
      <4>1. \A t \in WebSocket : t \in OfIn(n, v, q) <=> t \in OfIn(m, v, q) \/ t = s
        BY <1>6, <1>8, <1>7, <2>5 DEF OfIn
      <4>2. OfIn(n, v, q) \subseteq WebSocket /\ OfIn(m, v, q) \subseteq WebSocket
        BY <1>7 DEF OfIn
      <4> QED
        BY <4>1, <4>2
    <3>2. Cardinality(OfIn(n, v, q)) = Cardinality(OfIn(m, v, q)) + 1
      BY <2>3, <2>4, <3>1, FS_AddElement
    <3>3. Cardinality(Places(n.joinOrder[q], v)) = Cardinality(Places(m.joinOrder[q], v)) + 1
      BY <1>6, <2>2, <2>5, AppendPlaces
    <3> QED
      BY <2>1, <3>2, <3>3
  <2>6. CASE ~(q = r /\ v = u)
    <3>1. OfIn(n, v, q) = OfIn(m, v, q)
      <4>1. \A t \in WebSocket : t \in OfIn(n, v, q) <=> t \in OfIn(m, v, q)
        BY <1>6, <1>8, <1>7, <2>6 DEF OfIn
      <4>2. OfIn(n, v, q) \subseteq WebSocket /\ OfIn(m, v, q) \subseteq WebSocket
        BY <1>7 DEF OfIn
      <4> QED
        BY <4>1, <4>2
    <3>2. Cardinality(Places(n.joinOrder[q], v)) = Cardinality(Places(m.joinOrder[q], v))
      <4>1. CASE q # r
        BY <1>6, <4>1
      <4>2. CASE q = r /\ v # u
        <5>1. Cardinality(Places(Append(m.joinOrder[q], u), v)) = Cardinality(Places(m.joinOrder[q], v)) + 0
          BY <2>2, <4>2, AppendPlaces
        <5>2. Cardinality(Places(m.joinOrder[q], v)) \in Nat
          BY <2>2, PlacesFinite
        <5> QED
          BY <1>6, <4>2, <5>1, <5>2
      <4> QED
        BY <2>6, <4>1, <4>2
    <3> QED
      BY <2>1, <3>1, <3>2
  <2> QED
    BY <2>5, <2>6
<1>11. Reached(n)
  <2> SUFFICES ASSUME NEW v \in User, NEW t \in WebSocket
               PROVE  t \in n.userToSocket[v] <=> n.lobby[t] = v \/ n.socketToUser[t] = v
    BY DEF Reached
  <2>1. t \in m.userToSocket[v] <=> m.lobby[t] = v \/ m.socketToUser[t] = v
    BY DEF Sound, Reached
  <2>2. v # Nobody
    BY LegacyAssumption
  <2>3. t \in n.userToSocket[v] <=> t \in m.userToSocket[v] \/ (v = u /\ t = s)
    BY <1>7
  <2>4. n.socketToUser[t] = IF t = s THEN u ELSE m.socketToUser[t]
    BY <1>6
  <2>5. n.lobby = m.lobby
    BY <1>6
  <2> QED
    BY <1>8, <2>1, <2>2, <2>3, <2>4, <2>5
<1> QED
  BY <1>5, <1>6, <1>9, <1>10, <1>11 DEF Sound, Counted, Connected, n

LEMMA ConnectLobbySound ==
    ASSUME NEW m \in Manager, NEW e \in Handlers, NEW f \in Handlers, Sound(m, e),
           NEW s \in WebSocket, NEW u \in User,
           e[s].pc = "new", f[s].pc = "lobby", f[s].user = u,
           \A t \in WebSocket : t # s => f[t] = e[t]
    PROVE  LET n == ConnectLobby(m, s, u)
           IN  /\ n \in Manager /\ Sound(n, f)
               /\ n.kicked = m.kicked /\ n.rooms = m.rooms
<1> DEFINE n == ConnectLobby(m, s, u)
<1>1. /\ m.rooms \in [Room -> SUBSET WebSocket]
      /\ m.userToSocket \in [User -> SUBSET WebSocket]
      /\ m.lobby \in [WebSocket -> User \cup {Nobody}]
  BY DEF Manager
<1>2. n = [m EXCEPT !.lobby[s] = u, !.userToSocket[u] = @ \cup {s}]
  BY DEF ConnectLobby
<1>3. n = [rooms        |-> m.rooms,
           socketToUser |-> m.socketToUser,
           userToSocket |-> [m.userToSocket EXCEPT ![u] = @ \cup {s}],
           joinOrder    |-> m.joinOrder,
           kicked       |-> m.kicked,
           lobby        |-> [m.lobby EXCEPT ![s] = u]]
  BY <1>2 DEF Manager
<1> HIDE DEF n
<1>4. n \in Manager
  BY <1>3 DEF Manager
<1>5. /\ \A v \in User : n.userToSocket[v] = IF v = u THEN m.userToSocket[v] \cup {s} ELSE m.userToSocket[v]
      /\ \A t \in WebSocket : n.lobby[t] = IF t = s THEN u ELSE m.lobby[t]
      /\ n.rooms = m.rooms /\ n.socketToUser = m.socketToUser /\ n.kicked = m.kicked
      /\ n.joinOrder = m.joinOrder
  BY <1>1, <1>3
<1>6. (\A q \in Room : s \notin m.rooms[q]) /\ m.socketToUser[s] = Nobody /\ m.lobby[s] = Nobody
  BY UnknownIs DEF Listed, InLobby
<1>7. Located(n, f)
  <2>1. ASSUME NEW q \in Room, NEW t \in n.rooms[q]
        PROVE  /\ f[t].pc \in Listed /\ f[t].room = q /\ f[t].user \in User
               /\ n.socketToUser[t] = f[t].user
    <3>1. t \in m.rooms[q] /\ t # s /\ t \in WebSocket
      BY <1>1, <1>5, <1>6
    <3>2. f[t] = e[t]
      BY <3>1
    <3> QED
      BY <1>5, <3>1, <3>2 DEF Sound, Located
  <2>2. \A t \in WebSocket : n.socketToUser[t] # Nobody => \E q \in Room : t \in n.rooms[q]
    BY <1>5 DEF Sound, Located
  <2>3. \A t \in WebSocket : n.lobby[t] # Nobody => f[t].pc \in InLobby /\ f[t].user = n.lobby[t]
    BY <1>5 DEF Sound, Located, InLobby
  <2> QED
    BY <2>1, <2>2, <2>3 DEF Located
<1>8. Counted(n)
  BY <1>5 DEF Sound, Counted, OfIn
<1>9. Reached(n)
  <2> SUFFICES ASSUME NEW v \in User, NEW t \in WebSocket
               PROVE  t \in n.userToSocket[v] <=> n.lobby[t] = v \/ n.socketToUser[t] = v
    BY DEF Reached
  <2>1. t \in m.userToSocket[v] <=> m.lobby[t] = v \/ m.socketToUser[t] = v
    BY DEF Sound, Reached
  <2>2. v # Nobody
    BY LegacyAssumption
  <2>3. t \in n.userToSocket[v] <=> t \in m.userToSocket[v] \/ (v = u /\ t = s)
    <3>1. CASE v = u
      <4>1. n.userToSocket[v] = m.userToSocket[v] \cup {s}
        BY <1>5, <3>1
      <4> QED
        BY <3>1, <4>1
    <3>2. CASE v # u
      <4>1. n.userToSocket[v] = m.userToSocket[v]
        BY <1>5, <3>2
      <4> QED
        BY <3>2, <4>1
    <3> QED
      BY <3>1, <3>2
  <2>4. n.lobby[t] = IF t = s THEN u ELSE m.lobby[t]
    BY <1>5
  <2>5. n.socketToUser = m.socketToUser
    BY <1>5
  <2> QED
    BY <1>6, <2>1, <2>2, <2>3, <2>4, <2>5
<1> QED
  BY <1>4, <1>5, <1>7, <1>8, <1>9 DEF Sound, n


----------------------------------------------------------------------------
(* Handlers that move.                                                     *)

\* A handler that has come past the handshake has a user and a room, one in the
\* lobby a user.
Placed(e) ==
    \A s \in WebSocket :
       /\ e[s].pc \notin {"new", "gone"} => e[s].user \in User
       /\ e[s].pc \notin {"new", "gone", "lobby", "stray"} => e[s].room \in Room

\* Only the handler of s moves, to pc.
Moved(e, f, s, pc) ==
    /\ f \in Handlers /\ f[s].pc = pc /\ f[s].user = e[s].user /\ f[s].room = e[s].room
    /\ \A t \in WebSocket : t # s => f[t] = e[t]

LEMMA GoesToMoves ==
    ASSUME NEW e \in Handlers, NEW s \in WebSocket, NEW pc \in Progress
    PROVE  Moved(e, [e EXCEPT ![s].pc = pc], s, pc)
<1> PICK x : x = [e[s] EXCEPT !.pc = pc]
  OBVIOUS
<1>1. e[s] \in Endpoint
  BY DEF Handlers
<1>2. x \in Endpoint /\ x.pc = pc /\ x.user = e[s].user /\ x.room = e[s].room
  BY <1>1 DEF Endpoint
<1>3. [e EXCEPT ![s].pc = pc] = [e EXCEPT ![s] = x]
  OBVIOUS
<1> HIDE DEF Endpoint
<1>4. PICK f : f = [e EXCEPT ![s] = x]
  OBVIOUS
<1>5. f \in Handlers /\ f[s] = x /\ \A t \in WebSocket : t # s => f[t] = e[t]
  BY <1>2, <1>4 DEF Handlers
<1> QED
  BY <1>2, <1>3, <1>4, <1>5 DEF Moved

LEMMA PlacedMoves ==
    ASSUME NEW e \in Handlers, NEW f, NEW s \in WebSocket, NEW pc, Placed(e), Moved(e, f, s, pc),
           e[s].pc \notin {"new", "gone", "lobby", "stray"} \/ pc = "gone"
    PROVE  Placed(f)
BY DEF Placed, Moved

\* A handler that is registered before and after the move, or neither.
LEMMA SoundStays ==
    ASSUME NEW m \in Manager, NEW e \in Handlers, NEW f, NEW s \in WebSocket, NEW pc, Sound(m, e),
           Moved(e, f, s, pc),
           \/ e[s].pc \in Listed /\ pc \in Listed
           \/ e[s].pc \notin Listed /\ e[s].pc \notin InLobby
    PROVE  Sound(m, f)
<1>1. \A r \in Room : \A t \in m.rooms[r] : t \in WebSocket
  BY DEF Manager
<1>2. CASE e[s].pc \in Listed /\ pc \in Listed
  <2>1. \A t \in WebSocket : f[t].user = e[t].user /\ f[t].room = e[t].room
    BY DEF Moved
  <2>2. \A r \in Room : \A t \in m.rooms[r] : f[t].pc \in Listed
    BY <1>1, <1>2 DEF Moved, Sound, Located
  <2>3. \A p \in InLobby : p \notin Listed
    BY DEF Listed, InLobby
  <2>4. \A t \in WebSocket : m.lobby[t] # Nobody => f[t].pc \in InLobby
    BY <1>2, <2>3 DEF Moved, Sound, Located
  <2> QED
    BY <1>1, <2>1, <2>2, <2>4, SoundMoves
<1>3. CASE e[s].pc \notin Listed /\ e[s].pc \notin InLobby
  <2>1. (\A r \in Room : s \notin m.rooms[r]) /\ m.lobby[s] = Nobody
    BY <1>3, UnknownIs
  <2>2. \A r \in Room : \A t \in m.rooms[r] : f[t] = e[t] /\ e[t].pc \in Listed
    BY <1>1, <2>1 DEF Moved, Sound, Located
  <2>3. \A t \in WebSocket : m.lobby[t] # Nobody => f[t] = e[t] /\ e[t].pc \in InLobby
    BY <2>1 DEF Moved, Sound, Located
  <2> QED
    BY <2>2, <2>3, SoundMoves
<1> QED
  BY <1>2, <1>3

\* An open handler disconnects and moves out.
LEMMA SoundLeaves ==
    ASSUME NEW m \in Manager, NEW e \in Handlers, NEW f, NEW s \in WebSocket, NEW r \in Room,
           NEW pc, Sound(m, e), Moved(e, f, s, pc), e[s].pc = "open", e[s].room = r
    PROVE  LET n == Disconnect(m, s, r)
           IN  n \in Manager /\ Sound(n, f) /\ Dropped(m, n, {s})
<1>1. m.lobby[s] = Nobody /\ \A q \in Room : s \in m.rooms[q] => q = r
  BY DEF Sound, Located, InLobby
<1>2. PICK n : n = Disconnect(m, s, r)
  OBVIOUS
<1>3. n \in Manager /\ Sound(n, e) /\ Dropped(m, n, {s})
  BY <1>1, <1>2, DisconnectDrops
<1>4. (\A q \in Room : s \notin n.rooms[q]) /\ n.lobby[s] = Nobody
  BY <1>3 DEF Dropped
<1>5. \A q \in Room : \A t \in n.rooms[q] : t \in WebSocket /\ t # s /\ f[t] = e[t] /\ e[t].pc \in Listed
  <2>1. \A q \in Room : \A t \in n.rooms[q] : t \in WebSocket /\ t # s
    BY <1>3, <1>4 DEF Manager
  <2> QED
    BY <1>3, <2>1 DEF Moved, Sound, Located
<1>6. \A t \in WebSocket : n.lobby[t] # Nobody => f[t] = e[t] /\ e[t].pc \in InLobby
  BY <1>3, <1>4 DEF Moved, Sound, Located
<1>7. Sound(n, f)
  BY <1>3, <1>5, <1>6, SoundMoves
<1> QED
  BY <1>2, <1>3, <1>7

\* Counting kicks changes nothing else.
LEMMA KickedSound ==
    ASSUME NEW m \in Manager, NEW e, Sound(m, e), NEW u \in User, NEW k \in Nat
    PROVE  LET n == [m EXCEPT !.kicked[u] = k]
           IN  /\ n \in Manager /\ Sound(n, e) /\ n.rooms = m.rooms /\ n.lobby = m.lobby
               /\ \A v \in User : n.kicked[v] = IF v = u THEN k ELSE m.kicked[v]
<1> DEFINE n == [m EXCEPT !.kicked[u] = k]
<1> PICK x : x = [m.kicked EXCEPT ![u] = k]
  OBVIOUS
<1>1. n = [m EXCEPT !.kicked = x]
  OBVIOUS
<1> HIDE DEF n
<1>2. n = [rooms        |-> m.rooms,
           socketToUser |-> m.socketToUser,
           userToSocket |-> m.userToSocket,
           joinOrder    |-> m.joinOrder,
           kicked       |-> x,
           lobby        |-> m.lobby]
  BY <1>1 DEF Manager
<1>3. n \in Manager
  BY <1>2 DEF Manager
<1>4. \A v \in User : n.kicked[v] = IF v = u THEN k ELSE m.kicked[v]
  BY <1>2 DEF Manager
<1>5. Sound(n, e)
  <2>1. Located(n, e)
    BY <1>2 DEF Sound, Located
  <2>2. Counted(n)
    BY <1>2 DEF Sound, Counted, OfIn
  <2>3. Reached(n)
    BY <1>2 DEF Sound, Reached
  <2> QED
    BY <2>1, <2>2, <2>3 DEF Sound
<1> QED
  BY <1>2, <1>3, <1>4, <1>5 DEF n


----------------------------------------------------------------------------
(* The database.                                                           *)

\* The admins of r become A, those of other rooms stay.
Appoints(d, x, r, A) ==
    /\ x \in Database /\ x.admins[r] = A
    /\ \A q \in Room : q # r => x.admins[q] = d.admins[q]

LEMMA WithAdmins ==
    ASSUME NEW d \in Database, NEW r \in Room, NEW A \in SUBSET User
    PROVE  Appoints(d, [d EXCEPT !.admins[r] = A], r, A)
<1> PICK x : x = [d.admins EXCEPT ![r] = A]
  OBVIOUS
<1>1. x \in [Room -> SUBSET User] /\ x[r] = A /\ \A q \in Room : q # r => x[q] = d.admins[q]
  BY DEF Database
<1>2. [d EXCEPT !.admins[r] = A] = [d EXCEPT !.admins = x]
  OBVIOUS
<1>3. PICK n : n = [d EXCEPT !.admins = x]
  OBVIOUS
<1>4. n \in Database /\ n.admins = x
  BY <1>1, <1>3 DEF Database
<1> QED
  BY <1>1, <1>2, <1>3, <1>4 DEF Appoints

LEMMA WithMuted ==
    ASSUME NEW d \in Database, NEW r \in Room, NEW M \in SUBSET User
    PROVE  /\ [d EXCEPT !.muted[r] = M] \in Database
           /\ [d EXCEPT !.muted[r] = M].admins = d.admins
<1> PICK x : x = [d.muted EXCEPT ![r] = M]
  OBVIOUS
<1>1. x \in [Room -> SUBSET User]
  BY DEF Database
<1>2. [d EXCEPT !.muted[r] = M] = [d EXCEPT !.muted = x]
  OBVIOUS
<1>3. PICK n : n = [d EXCEPT !.muted = x]
  OBVIOUS
<1>4. n \in Database /\ n.admins = d.admins
  BY <1>1, <1>3 DEF Database
<1> QED
  BY <1>2, <1>3, <1>4

LEMMA DatabaseIs ==
    ASSUME NEW d \in Database, NEW r \in Room
    PROVE  d.admins[r] \in SUBSET User /\ d.muted[r] \in SUBSET User
BY DEF Database

LEMMA AddAdminAppoints ==
    ASSUME NEW d \in Database, NEW u \in User, NEW r \in Room
    PROVE  Appoints(d, AddAdmin(d, u, r), r, d.admins[r] \cup {u})
<1>1. d.admins[r] \cup {u} \in SUBSET User
  BY DatabaseIs
<1>2. AddAdmin(d, u, r) = [d EXCEPT !.admins[r] = d.admins[r] \cup {u}]
  BY DEF AddAdmin
<1> QED
  BY <1>1, <1>2, WithAdmins

LEMMA MutesKeep ==
    ASSUME NEW d \in Database, NEW u \in User, NEW r \in Room
    PROVE  /\ AddMute(d, u, r) \in Database /\ AddMute(d, u, r).admins = d.admins
           /\ RemoveMute(d, u, r) \in Database /\ RemoveMute(d, u, r).admins = d.admins
<1>1. d.muted[r] \cup {u} \in SUBSET User /\ d.muted[r] \ {u} \in SUBSET User
  BY DatabaseIs
<1>2. AddMute(d, u, r) = [d EXCEPT !.muted[r] = d.muted[r] \cup {u}]
  BY DEF AddMute
<1>3. RemoveMute(d, u, r) = [d EXCEPT !.muted[r] = d.muted[r] \ {u}]
  BY DEF RemoveMute
<1> QED
  BY <1>1, <1>2, <1>3, WithMuted

LEMMA AmnestyAppoints ==
    ASSUME NEW d \in Database, NEW u \in User, NEW r \in Room
    PROVE  Appoints(d, Amnesty(d, u, r), r, d.admins[r] \ {u})
<1>1. d.admins[r] \ {u} \in SUBSET User
  BY DatabaseIs
<1>2. PICK x : x = [d EXCEPT !.admins[r] = d.admins[r] \ {u}]
  OBVIOUS
<1>3. Appoints(d, x, r, d.admins[r] \ {u})
  BY <1>1, <1>2, WithAdmins
<1>4. Amnesty(d, u, r) = [x EXCEPT !.muted[r] = {}]
  BY <1>2 DEF Amnesty, Database
<1>5. PICK y : y = [x EXCEPT !.muted[r] = {}]
  OBVIOUS
<1>6. y \in Database /\ y.admins = x.admins
  BY <1>3, <1>5, WithMuted DEF Appoints
<1> QED
  BY <1>3, <1>4, <1>5, <1>6 DEF Appoints

LEMMA SucceedAppoints ==
    ASSUME NEW d \in Database, NEW m \in Manager, NEW r \in Room
    PROVE  Appoints(d, Succeed(d, m, r), r, d.admins[r] \cup GetAdminSuccessor(m, r))
<1>1. GetAdminSuccessor(m, r) \in SUBSET User
  <2>1. m.joinOrder[r] \in Seq(User)
    BY DEF Manager
  <2>2. m.joinOrder[r] # <<>> => Head(m.joinOrder[r]) \in User
    BY <2>1, HeadTailProperties
  <2> QED
    BY <2>2 DEF GetAdminSuccessor
<1>2. d.admins[r] \cup GetAdminSuccessor(m, r) \in SUBSET User
  BY <1>1, DatabaseIs
<1>3. Succeed(d, m, r) = [d EXCEPT !.admins[r] = d.admins[r] \cup GetAdminSuccessor(m, r)]
  BY DEF Succeed
<1> QED
  BY <1>2, <1>3, WithAdmins

\* Whoever succeeds in a room in which somebody is connected is connected there.
LEMMA SuccessorConnected ==
    ASSUME NEW m \in Manager, NEW e, Sound(m, e), NEW r \in Room, m.rooms[r] # {}
    PROVE  \E s \in m.rooms[r] : e[s].user \in GetAdminSuccessor(m, r)
<1>1. /\ m.rooms \in [Room -> SUBSET WebSocket] /\ m.joinOrder[r] \in Seq(User)
  BY DEF Manager
<1>2. \A u \in User : (OfIn(m, u, r) = {}) <=> (Places(m.joinOrder[r], u) = {})
  <2> TAKE u \in User
  <2>1. Cardinality(OfIn(m, u, r)) = Cardinality(Places(m.joinOrder[r], u))
    BY DEF Sound, Counted
  <2>2. IsFiniteSet(OfIn(m, u, r)) /\ IsFiniteSet(Places(m.joinOrder[r], u))
    BY <1>1, OfInFinite, PlacesFinite
  <2> QED
    BY <2>1, <2>2, FS_EmptySet
<1>3. \A s \in m.rooms[r] : e[s].user \in User /\ m.socketToUser[s] = e[s].user
  BY DEF Sound, Located
<1>4. m.joinOrder[r] # <<>>
  <2>1. PICK s \in m.rooms[r] : TRUE
    OBVIOUS
  <2>2. OfIn(m, e[s].user, r) # {}
    BY <1>3 DEF OfIn
  <2>3. Places(m.joinOrder[r], e[s].user) # {}
    BY <1>2, <1>3, <2>2
  <2> QED
    BY <2>3 DEF Places
<1>5. PICK u : u = Head(m.joinOrder[r])
  OBVIOUS
<1>6. u \in User /\ 1 \in DOMAIN m.joinOrder[r] /\ m.joinOrder[r][1] = u
  BY <1>1, <1>4, <1>5, HeadTailProperties, EmptySeq, LenProperties
<1>7. Places(m.joinOrder[r], u) # {}
  BY <1>6 DEF Places
<1>8. PICK s \in m.rooms[r] : m.socketToUser[s] = u
  BY <1>2, <1>6, <1>7 DEF OfIn
<1> QED
  BY <1>3, <1>4, <1>5, <1>8 DEF GetAdminSuccessor


----------------------------------------------------------------------------
(* Types, and that the maps tell one story: what each action keeps of it.  *)

Links == [WebSocket -> {"up", "lost", "closed"}]

RoomsTyped(m, d, e, l, o) ==
    /\ m \in Manager /\ d \in Database /\ e \in Handlers /\ l \in Links /\ o \in SUBSET Room
    /\ Placed(e) /\ Sound(m, e)

RoomsTypeInv == RoomsTyped(mgr, db, endpoint, link, orphaned)

\* One handler moves while the manager stays.
LEMMA StayTyped ==
    ASSUME RoomsTypeInv, NEW s \in WebSocket, NEW pc \in Progress, GoesTo(s, pc),
           \/ endpoint[s].pc \in Listed /\ pc \in Listed
           \/ endpoint[s].pc \notin Listed /\ endpoint[s].pc \notin {"new", "lobby", "stray", "gone"}
    PROVE  /\ Moved(endpoint, endpoint', s, pc) /\ endpoint' \in Handlers
           /\ Placed(endpoint') /\ Sound(mgr, endpoint')
<1> PICK e, m : e = endpoint /\ m = mgr
  OBVIOUS
<1>1. e \in Handlers /\ m \in Manager /\ Placed(e) /\ Sound(m, e)
  BY DEF RoomsTypeInv, RoomsTyped
<1>2. PICK f : f = [e EXCEPT ![s].pc = pc]
  OBVIOUS
<1>3. Moved(e, f, s, pc)
  BY <1>1, <1>2, GoesToMoves
<1>4. f \in Handlers
  BY <1>3 DEF Moved
<1>5. e[s].pc \notin {"new", "gone", "lobby", "stray"} \/ pc = "gone"
  BY DEF Listed
<1>6. Placed(f)
  BY <1>1, <1>3, <1>5, PlacedMoves
<1>7. \/ e[s].pc \in Listed /\ pc \in Listed
      \/ e[s].pc \notin Listed /\ e[s].pc \notin InLobby
  BY DEF InLobby
<1>8. Sound(m, f)
  BY <1>1, <1>3, <1>7, SoundStays
<1>9. endpoint' = f
  BY <1>2 DEF GoesTo
<1> QED
  BY <1>3, <1>4, <1>6, <1>8, <1>9

LEMMA HandshakeTyped ==
    ASSUME RoomsTypeInv, NEW s \in WebSocket, NEW u \in User, NEW r \in Room, Handshake(s, u, r)
    PROVE  /\ RoomsTyped(mgr', db', endpoint', link', orphaned')
           /\ endpoint'[s].pc = "accepting"
           /\ \A t \in WebSocket : t # s => endpoint'[t] = endpoint[t]
<1> PICK e, m : e = endpoint /\ m = mgr
  OBVIOUS
<1>1. e \in Handlers /\ m \in Manager /\ Placed(e) /\ Sound(m, e) /\ e[s].pc = "new"
  BY DEF RoomsTypeInv, RoomsTyped, Handshake
<1>2. PICK x : x = [e[s] EXCEPT !.pc = "accepting", !.user = u, !.room = r]
  OBVIOUS
<1>3. x \in Endpoint /\ x.pc = "accepting" /\ x.user = u /\ x.room = r
  <2>1. e[s] \in Endpoint
    BY <1>1 DEF Handlers
  <2> QED
    BY <1>2, <2>1 DEF Endpoint, Progress
<1>4. endpoint' = [e EXCEPT ![s] = x]
  BY <1>1, <1>2 DEF Handshake, Handlers, Endpoint
<1> HIDE DEF Endpoint
<1>5. PICK f : f = [e EXCEPT ![s] = x]
  OBVIOUS
<1>6. f \in Handlers /\ f[s] = x /\ \A t \in WebSocket : t # s => f[t] = e[t]
  BY <1>1, <1>3, <1>5 DEF Handlers
<1>7. Placed(f)
  BY <1>1, <1>3, <1>6 DEF Placed
<1>8. (\A q \in Room : s \notin m.rooms[q]) /\ m.lobby[s] = Nobody
  BY <1>1, UnknownIs DEF Listed, InLobby
<1>9. \A q \in Room : \A t \in m.rooms[q] : t \in WebSocket
  BY <1>1 DEF Manager
<1>10. \A q \in Room : \A t \in m.rooms[q] : f[t] = e[t] /\ e[t].pc \in Listed
  BY <1>1, <1>6, <1>8, <1>9 DEF Sound, Located
<1>11. \A t \in WebSocket : m.lobby[t] # Nobody => f[t] = e[t] /\ e[t].pc \in InLobby
  BY <1>1, <1>6, <1>8 DEF Sound, Located
<1>12. Sound(m, f)
  BY <1>1, <1>10, <1>11, SoundMoves
<1>13. endpoint' = f /\ UNCHANGED <<mgr, db, link, orphaned>>
  BY <1>4, <1>5 DEF Handshake
<1> QED
  BY <1>1, <1>3, <1>6, <1>7, <1>12, <1>13 DEF RoomsTypeInv, RoomsTyped

LEMMA AcceptTyped ==
    ASSUME RoomsTypeInv, NEW s \in WebSocket, Accept(s)
    PROVE  /\ RoomsTyped(mgr', db', endpoint', link', orphaned')
           /\ Moved(endpoint, endpoint', s, "greeting")
           /\ Connected(mgr, mgr', s, endpoint[s].room)
           /\ \A q \in Room : db.admins[q] \subseteq db'.admins[q]
           /\ mgr'.rooms[endpoint[s].room] = {s} => endpoint[s].user \in db'.admins[endpoint[s].room]
<1> PICK e, m, d : e = endpoint /\ m = mgr /\ d = db
  OBVIOUS
<1>1. e \in Handlers /\ m \in Manager /\ Placed(e) /\ Sound(m, e) /\ d \in Database
  BY DEF RoomsTypeInv, RoomsTyped
<1>2. e[s].pc = "accepting" /\ GoesTo(s, "greeting")
  BY DEF Accept
<1>3. PICK u \in User, r \in Room : u = e[s].user /\ r = e[s].room
  BY <1>1, <1>2 DEF Placed
<1>4. PICK f : f = [e EXCEPT ![s].pc = "greeting"]
  OBVIOUS
<1>5. Moved(e, f, s, "greeting") /\ endpoint' = f
  BY <1>1, <1>4, GoesToMoves, <1>2 DEF GoesTo, Progress
<1>6. Placed(f)
  BY <1>1, <1>2, <1>5, PlacedMoves
<1>7. f \in Handlers /\ f[s].pc = "greeting" /\ f[s].user = u /\ f[s].room = r
      /\ \A t \in WebSocket : t # s => f[t] = e[t]
  BY <1>3, <1>5 DEF Moved
<1>8. PICK n : n = Connect(m, s, r, u)
  OBVIOUS
<1>9. n \in Manager /\ Sound(n, f) /\ Connected(m, n, s, r)
  <2>1. /\ m \in Manager /\ e \in Handlers /\ f \in Handlers /\ Sound(m, e)
        /\ e[s].pc = "accepting" /\ f[s].pc = "greeting" /\ f[s].user = u /\ f[s].room = r
        /\ \A t \in WebSocket : t # s => f[t] = e[t]
    BY <1>1, <1>2, <1>7
  <2> QED
    BY <1>8, <2>1, ConnectSound
<1>10. mgr' = n /\ db' = (IF n.rooms[r] = {s} THEN AddAdmin(d, u, r) ELSE d) /\ UNCHANGED <<link, orphaned>>
  BY <1>3, <1>8 DEF Accept
<1>11. PICK y : y = AddAdmin(d, u, r)
  OBVIOUS
<1>12. Appoints(d, y, r, d.admins[r] \cup {u})
  BY <1>1, <1>11, AddAdminAppoints
<1>13. y \in Database /\ u \in y.admins[r] /\ \A q \in Room : d.admins[q] \subseteq y.admins[q]
  BY <1>12 DEF Appoints
<1>14. db' \in Database /\ (n.rooms[r] = {s} => u \in db'.admins[r]) /\ \A q \in Room : d.admins[q] \subseteq db'.admins[q]
  BY <1>1, <1>10, <1>11, <1>13
<1> QED
  BY <1>3, <1>5, <1>6, <1>7, <1>9, <1>10, <1>14 DEF RoomsTypeInv, RoomsTyped


LEMMA EnterLobbyTyped ==
    ASSUME RoomsTypeInv, NEW s \in WebSocket, NEW u \in User, EnterLobby(s, u)
    PROVE  /\ RoomsTyped(mgr', db', endpoint', link', orphaned')
           /\ mgr'.rooms = mgr.rooms /\ mgr'.kicked = mgr.kicked
           /\ endpoint'[s].pc = "lobby"
           /\ \A t \in WebSocket : t # s => endpoint'[t] = endpoint[t]
<1> PICK e, m : e = endpoint /\ m = mgr
  OBVIOUS
<1>1. e \in Handlers /\ m \in Manager /\ Placed(e) /\ Sound(m, e) /\ e[s].pc = "new"
  BY DEF RoomsTypeInv, RoomsTyped, EnterLobby
<1>2. PICK x : x = [e[s] EXCEPT !.pc = "lobby", !.user = u]
  OBVIOUS
<1>3. x \in Endpoint /\ x.pc = "lobby" /\ x.user = u
  <2>1. e[s] \in Endpoint
    BY <1>1 DEF Handlers
  <2> QED
    BY <1>2, <2>1 DEF Endpoint, Progress
<1>4. endpoint' = [e EXCEPT ![s] = x]
  BY <1>1, <1>2 DEF EnterLobby, Handlers, Endpoint
<1> HIDE DEF Endpoint
<1>5. PICK f : f = [e EXCEPT ![s] = x]
  OBVIOUS
<1>6. f \in Handlers /\ f[s] = x /\ \A t \in WebSocket : t # s => f[t] = e[t]
  BY <1>1, <1>3, <1>5 DEF Handlers
<1>7. Placed(f)
  BY <1>1, <1>3, <1>6 DEF Placed
<1>8. PICK n : n = ConnectLobby(m, s, u)
  OBVIOUS
<1>9. n \in Manager /\ Sound(n, f) /\ n.kicked = m.kicked /\ n.rooms = m.rooms
  <2>1. f[s].pc = "lobby" /\ f[s].user = u
    BY <1>3, <1>6
  <2> QED
    BY <1>1, <1>6, <1>8, <2>1, ConnectLobbySound
<1>10. endpoint' = f /\ mgr' = n /\ UNCHANGED <<db, link, orphaned>>
  BY <1>4, <1>5, <1>8 DEF EnterLobby
<1> QED
  BY <1>1, <1>3, <1>6, <1>7, <1>9, <1>10 DEF RoomsTypeInv, RoomsTyped

LEMMA LeaveLobbyTyped ==
    ASSUME RoomsTypeInv, NEW s \in WebSocket, LeaveLobby(s)
    PROVE  /\ RoomsTyped(mgr', db', endpoint', link', orphaned')
           /\ Dropped(mgr, mgr', {s}) /\ \A r \in Room : s \notin mgr.rooms[r]
           /\ Moved(endpoint, endpoint', s, "gone")
<1> PICK e, m : e = endpoint /\ m = mgr
  OBVIOUS
<1>1. e \in Handlers /\ m \in Manager /\ Placed(e) /\ Sound(m, e) /\ e[s].pc = "lobby"
  BY DEF RoomsTypeInv, RoomsTyped, LeaveLobby
<1>2. PICK f : f = [e EXCEPT ![s].pc = "gone"]
  OBVIOUS
<1>3. Moved(e, f, s, "gone")
  BY <1>1, <1>2, GoesToMoves DEF Progress
<1>4. f \in Handlers /\ Placed(f)
  BY <1>1, <1>3, PlacedMoves DEF Moved
<1>5. PICK n : n = DisconnectLobby(m, s)
  OBVIOUS
<1>6. n \in Manager /\ Sound(n, e) /\ Dropped(m, n, {s})
  BY <1>1, <1>5, LeaveLobbyDrops DEF InLobby
<1>7. \A r \in Room : s \notin m.rooms[r]
  BY <1>1 DEF Sound, Located, Listed, InLobby
<1>8. (\A q \in Room : s \notin n.rooms[q]) /\ n.lobby[s] = Nobody
  BY <1>6 DEF Dropped
<1>9. \A q \in Room : \A t \in n.rooms[q] : t \in WebSocket
  BY <1>6 DEF Manager
<1>10. \A q \in Room : \A t \in n.rooms[q] : f[t] = e[t] /\ e[t].pc \in Listed
  BY <1>3, <1>6, <1>8, <1>9 DEF Sound, Located, Moved
<1>11. \A t \in WebSocket : n.lobby[t] # Nobody => f[t] = e[t] /\ e[t].pc \in InLobby
  BY <1>3, <1>6, <1>8 DEF Sound, Located, Moved
<1>12. Sound(n, f)
  BY <1>6, <1>10, <1>11, SoundMoves
<1>13. endpoint' = f /\ mgr' = n /\ UNCHANGED <<db, link, orphaned>>
  BY <1>2, <1>5 DEF LeaveLobby, GoesTo
<1> QED
  BY <1>3, <1>4, <1>6, <1>7, <1>12, <1>13 DEF RoomsTypeInv, RoomsTyped

LEMMA RelayTyped ==
    ASSUME RoomsTypeInv, NEW c \in Room \cup User \cup {Lobby}, Relay(c)
    PROVE  /\ RoomsTyped(mgr', db', endpoint', link', orphaned')
           /\ \E dead \in SUBSET WebSocket :
                 Dropped(mgr, mgr', dead) /\ \A s \in dead : link[s] # "up"
<1> PICK e, m : e = endpoint /\ m = mgr
  OBVIOUS
<1>1. e \in Handlers /\ m \in Manager /\ Placed(e) /\ Sound(m, e)
  BY DEF RoomsTypeInv, RoomsTyped
<1>2. PICK dead \in SUBSET {s \in Addressed(c) : link[s] # "up"} : mgr' = DropAll(m, dead)
  BY DEF Relay
<1>3. \A s \in Addressed(c) : s \in WebSocket /\ Known(m, s)
  <2>1. CASE c \in Room
    <3>1. Addressed(c) = m.rooms[c]
      BY <2>1, LegacyAssumption DEF Addressed
    <3> QED
      BY <1>1, <2>1, <3>1 DEF Known, Manager
  <2>2. CASE c \in User /\ c \notin Room
    <3>1. Addressed(c) = m.userToSocket[c]
      BY <2>2, LegacyAssumption DEF Addressed
    <3>2. m.userToSocket[c] \subseteq WebSocket /\ c # Nobody
      BY <1>1, <2>2, LegacyAssumption DEF Manager
    <3>3. \A s \in m.userToSocket[c] : m.lobby[s] = c \/ m.socketToUser[s] = c
      BY <1>1, <2>2, <3>2 DEF Sound, Reached
    <3> QED
      BY <1>1, <3>1, <3>2, <3>3 DEF Known, Sound, Located
  <2>3. CASE c = Lobby
    <3>1. Addressed(c) = {s \in WebSocket : m.lobby[s] # Nobody}
      BY <2>3, LegacyAssumption DEF Addressed
    <3> QED
      BY <3>1 DEF Known
  <2> QED
    BY <2>1, <2>2, <2>3
<1>4. dead \in SUBSET WebSocket /\ \A s \in dead : Known(m, s) /\ link[s] # "up"
  BY <1>2, <1>3
<1>5. PICK n : n = DropAll(m, dead)
  OBVIOUS
<1>6. n \in Manager /\ Sound(n, e) /\ Dropped(m, n, dead)
  BY <1>1, <1>4, <1>5, RelayDrops
<1>7. mgr' = n /\ UNCHANGED <<db, endpoint, link, orphaned>>
  BY <1>2, <1>5 DEF Relay
<1> QED
  BY <1>4, <1>6, <1>7 DEF RoomsTypeInv, RoomsTyped


LEMMA GoesWithTargets ==
    ASSUME NEW e \in Handlers, NEW f, NEW s \in WebSocket, NEW pc \in Progress, NEW T \in SUBSET WebSocket,
           f = [e EXCEPT ![s].targets = T, ![s].pc = pc]
    PROVE  Moved(e, f, s, pc)
<1> PICK x : x = [e[s] EXCEPT !.targets = T, !.pc = pc]
  OBVIOUS
<1>1. e[s] \in Endpoint
  BY DEF Handlers
<1>2. x \in Endpoint /\ x.pc = pc /\ x.user = e[s].user /\ x.room = e[s].room
  BY <1>1 DEF Endpoint
<1>3. f = [e EXCEPT ![s] = x]
  BY <1>1 DEF Handlers, Endpoint
<1> HIDE DEF Endpoint
<1>4. f \in Handlers /\ f[s] = x /\ \A t \in WebSocket : t # s => f[t] = e[t]
  BY <1>2, <1>3 DEF Handlers
<1> QED
  BY <1>2, <1>4 DEF Moved

\* A registered handler goes on being one.
LEMMA ListedStays ==
    ASSUME NEW m \in Manager, NEW e \in Handlers, NEW f, NEW s \in WebSocket, NEW pc,
           Placed(e), Sound(m, e), Moved(e, f, s, pc), e[s].pc \in Listed, pc \in Listed
    PROVE  f \in Handlers /\ Placed(f) /\ Sound(m, f)
<1>1. e[s].pc \notin {"new", "gone", "lobby", "stray"}
  BY DEF Listed
<1>2. f \in Handlers
  BY DEF Moved
<1>3. Placed(f)
  BY <1>1, PlacedMoves
<1>4. Sound(m, f)
  BY SoundStays
<1> QED
  BY <1>2, <1>3, <1>4

LEMMA KickTyped ==
    ASSUME RoomsTypeInv, NEW s \in WebSocket, NEW target \in User, Kick(s, target)
    PROVE  /\ RoomsTyped(mgr', db', endpoint', link', orphaned')
           /\ mgr'.rooms = mgr.rooms
           /\ \/ mgr' = mgr /\ endpoint' = endpoint
              \/ /\ endpoint[s].pc = "open" /\ Moved(endpoint, endpoint', s, "kicking")
                 /\ \E r \in Room :
                       mgr' = [mgr EXCEPT !.kicked[target] = Cardinality(mgr.rooms[r] \cap mgr.userToSocket[target])]
<1> PICK e, m : e = endpoint /\ m = mgr
  OBVIOUS
<1>1. e \in Handlers /\ m \in Manager /\ Placed(e) /\ Sound(m, e)
  BY DEF RoomsTypeInv, RoomsTyped
<1>2. PICK r \in Room : LET found == m.rooms[r] \cap m.userToSocket[target]
                        IN /\ Commands(s, r)
                           /\ IF found = {}
                              THEN UNCHANGED <<mgr, endpoint>>
                              ELSE /\ mgr' = [m EXCEPT !.kicked[target] = Cardinality(found)]
                                   /\ endpoint' = [e EXCEPT ![s].pc = "kicking", ![s].targets = found]
  BY DEF Kick
<1>3. UNCHANGED <<db, link, orphaned>> /\ e[s].pc = "open"
  BY <1>2 DEF Kick, Commands, Listening
<1>4. PICK found : found = m.rooms[r] \cap m.userToSocket[target]
  OBVIOUS
<1>5. CASE found = {}
  BY <1>2, <1>3, <1>4, <1>5 DEF RoomsTypeInv, RoomsTyped
<1>6. CASE found # {}
  <2>1. mgr' = [m EXCEPT !.kicked[target] = Cardinality(found)]
    BY <1>2, <1>4, <1>6
  <2>2. endpoint' = [e EXCEPT ![s].pc = "kicking", ![s].targets = found]
    BY <1>2, <1>4, <1>6
  <2>3. found \in SUBSET WebSocket
    BY <1>1, <1>4 DEF Manager
  <2>4. Cardinality(found) \in Nat
    BY <2>3, LegacyAssumption, FS_Subset, FS_CardinalityType
  <2>5. PICK f : f = [e EXCEPT ![s].targets = found, ![s].pc = "kicking"]
    OBVIOUS
  <2>6. endpoint' = f
    <3>1. [e EXCEPT ![s].pc = "kicking", ![s].targets = found] = [e EXCEPT ![s].targets = found, ![s].pc = "kicking"]
      BY <1>1 DEF Handlers, Endpoint
    <3> QED
      BY <2>2, <2>5, <3>1
  <2>7. Moved(e, f, s, "kicking")
    BY <1>1, <2>3, <2>5, GoesWithTargets DEF Progress
  <2>8. f \in Handlers /\ Placed(f) /\ Sound(m, f)
    <3>1. e[s].pc \in Listed /\ "kicking" \in Listed
      BY <1>3 DEF Listed
    <3> QED
      BY <1>1, <2>7, <3>1, ListedStays
  <2>9. PICK n : n = [m EXCEPT !.kicked[target] = Cardinality(found)]
    OBVIOUS
  <2>10. n \in Manager /\ Sound(n, f) /\ n.rooms = m.rooms
    BY <1>1, <2>4, <2>8, <2>9, KickedSound
  <2>11. mgr' = n
    BY <2>1, <2>9
  <2>12. RoomsTyped(mgr', db', endpoint', link', orphaned')
    BY <1>3, <2>6, <2>8, <2>10, <2>11 DEF RoomsTypeInv, RoomsTyped
  <2> QED
    BY <1>3, <1>4, <2>1, <2>6, <2>7, <2>10, <2>11, <2>12
<1> QED
  BY <1>5, <1>6

LEMMA LeaveKickedTyped ==
    ASSUME RoomsTypeInv, NEW s \in WebSocket, LeaveKicked(s)
    PROVE  /\ RoomsTyped(mgr', db', endpoint', link', orphaned')
           /\ endpoint[s].pc = "open" /\ Moved(endpoint, endpoint', s, "gone")
           /\ \A r \in Room : mgr'.rooms[r] = mgr.rooms[r] \ {s}
           /\ \A v \in User : mgr'.kicked[v] = IF v = endpoint[s].user THEN mgr.kicked[v] - 1 ELSE mgr.kicked[v]
           /\ db'.admins = db.admins
<1> PICK e, m, d : e = endpoint /\ m = mgr /\ d = db
  OBVIOUS
<1>1. e \in Handlers /\ m \in Manager /\ Placed(e) /\ Sound(m, e) /\ d \in Database
  BY DEF RoomsTypeInv, RoomsTyped
<1>2. e[s].pc = "open" /\ GoesTo(s, "gone") /\ UNCHANGED link
  BY DEF LeaveKicked
<1>3. PICK u \in User, r \in Room : u = e[s].user /\ r = e[s].room
  BY <1>1, <1>2 DEF Placed
<1>4. PICK f : f = [e EXCEPT ![s].pc = "gone"]
  OBVIOUS
<1>5. Moved(e, f, s, "gone") /\ endpoint' = f
  BY <1>1, <1>2, <1>4, GoesToMoves DEF GoesTo, Progress
<1>6. f \in Handlers /\ Placed(f)
  BY <1>1, <1>5, PlacedMoves DEF Moved
<1>7. PICK n : n = Disconnect(m, s, r)
  OBVIOUS
<1>8. n \in Manager /\ Sound(n, f) /\ Dropped(m, n, {s})
  BY <1>1, <1>2, <1>3, <1>5, <1>7, SoundLeaves
<1>9. m.kicked[u] > 0 /\ m.kicked[u] \in Nat /\ n.kicked = m.kicked
  BY <1>1, <1>3, <1>8 DEF LeaveKicked, TakeKick, Manager, Dropped
<1>10. PICK k \in Nat : k = n.kicked[u] - 1
  BY <1>9
<1>11. PICK l : l = [n EXCEPT !.kicked[u] = k]
  OBVIOUS
<1>12. /\ l \in Manager /\ Sound(l, f) /\ l.rooms = n.rooms
       /\ \A v \in User : l.kicked[v] = IF v = u THEN k ELSE n.kicked[v]
  BY <1>8, <1>11, KickedSound
<1>13. mgr' = l
  <2>1. mgr' = [n EXCEPT !.kicked[u] = @ - 1]
    BY <1>3, <1>7 DEF LeaveKicked
  <2>2. [n EXCEPT !.kicked[u] = @ - 1] = l
    BY <1>10, <1>11
  <2> QED
    BY <2>1, <2>2
<1>14. db' = RemoveMute(d, u, r)
  BY <1>3 DEF LeaveKicked
<1>15. db' \in Database /\ db'.admins = d.admins
  BY <1>1, <1>14, MutesKeep
<1>16. orphaned' \in SUBSET Room
  BY <1>3 DEF LeaveKicked, RoomsTypeInv, RoomsTyped
<1>17. RoomsTyped(mgr', db', endpoint', link', orphaned')
  BY <1>2, <1>5, <1>6, <1>12, <1>13, <1>15, <1>16 DEF RoomsTypeInv, RoomsTyped
<1> QED
  BY <1>2, <1>3, <1>5, <1>8, <1>9, <1>10, <1>12, <1>13, <1>15, <1>17 DEF Dropped


\* How a succession hands r on, when u leaves it to the users of m.
Handed(d, x, m, u, r, pc) ==
    \/ pc = "gone" /\ u \notin d.admins[r] /\ x = d
    \/ pc = "amnesty" /\ Appoints(d, x, r, d.admins[r] \ {u})
    \/ pc = "gone" /\ Appoints(d, x, r, (d.admins[r] \ {u}) \cup GetAdminSuccessor(m, r))

LEMMA SuccessionHands ==
    ASSUME RoomsTypeInv, NEW s \in WebSocket, NEW n \in Manager, Succession(s, n),
           NEW u \in User, NEW r \in Room, u = endpoint[s].user, r = endpoint[s].room
    PROVE  /\ mgr' = n /\ UNCHANGED <<link, orphaned>> /\ db' \in Database
           /\ \E pc \in {"gone", "amnesty"} : GoesTo(s, pc) /\ Handed(db, db', n, u, r, pc)
<1> PICK d : d = db
  OBVIOUS
<1>1. d \in Database
  BY DEF RoomsTypeInv, RoomsTyped
<1>2. mgr' = n /\ UNCHANGED <<link, orphaned>>
  BY DEF Succession
<1>3. CASE u \notin d.admins[r] /\ GoesTo(s, "gone") /\ UNCHANGED db
  BY <1>1, <1>2, <1>3 DEF Handed
<1>4. CASE u \in d.admins[r] /\ GoesTo(s, "amnesty") /\ db' = Amnesty(d, u, r)
  <2>1. Appoints(d, db', r, d.admins[r] \ {u})
    BY <1>1, <1>4, AmnestyAppoints
  <2>2. db' \in Database
    BY <2>1 DEF Appoints
  <2> QED
    BY <1>2, <1>4, <2>1, <2>2 DEF Handed
<1>5. CASE u \in d.admins[r] /\ GoesTo(s, "gone") /\ db' = Succeed(Amnesty(d, u, r), n, r)
  <2>1. PICK x : x = Amnesty(d, u, r)
    OBVIOUS
  <2>2. Appoints(d, x, r, d.admins[r] \ {u})
    BY <1>1, <2>1, AmnestyAppoints
  <2>3. x \in Database
    BY <2>2 DEF Appoints
  <2>4. Appoints(x, db', r, x.admins[r] \cup GetAdminSuccessor(n, r))
    BY <1>5, <2>1, <2>3, SucceedAppoints
  <2>5. Appoints(d, db', r, (d.admins[r] \ {u}) \cup GetAdminSuccessor(n, r)) /\ db' \in Database
    BY <2>2, <2>4 DEF Appoints
  <2> QED
    BY <1>2, <1>5, <2>5 DEF Handed
<1> QED
  BY <1>3, <1>4, <1>5 DEF Succession

LEMMA LeaveTyped ==
    ASSUME RoomsTypeInv, NEW s \in WebSocket, Leave(s)
    PROVE  /\ RoomsTyped(mgr', db', endpoint', link', orphaned')
           /\ endpoint[s].pc = "open" /\ link[s] # "up" /\ UNCHANGED <<link, orphaned>>
           /\ mgr.kicked[endpoint[s].user] = 0 /\ mgr'.kicked = mgr.kicked
           /\ Dropped(mgr, mgr', {s})
           /\ \/ Moved(endpoint, endpoint', s, "left") /\ db'.admins = db.admins
              \/ \E pc \in {"gone", "amnesty"} :
                    /\ Moved(endpoint, endpoint', s, pc)
                    /\ Handed(db, db', mgr', endpoint[s].user, endpoint[s].room, pc)
<1> PICK e, m, d : e = endpoint /\ m = mgr /\ d = db
  OBVIOUS
<1>1. e \in Handlers /\ m \in Manager /\ Placed(e) /\ Sound(m, e) /\ d \in Database
  BY DEF RoomsTypeInv, RoomsTyped
<1>2. e[s].pc = "open" /\ link[s] # "up"
  BY DEF Leave
<1>3. PICK u \in User, r \in Room : u = e[s].user /\ r = e[s].room
  BY <1>1, <1>2 DEF Placed
<1>4. m.kicked[u] = 0
  BY <1>1, <1>3 DEF Leave, TakeKick, Manager
<1>5. PICK n : n = Disconnect(m, s, r)
  OBVIOUS
<1>6. n \in Manager
  BY <1>1, <1>5, DisconnectIs DEF Unlisted
<1>7. \/ /\ mgr' = n /\ db' = RemoveMute(d, u, r) /\ GoesTo(s, "left")
         /\ UNCHANGED <<link, orphaned>>
      \/ Succession(s, n)
  BY <1>3, <1>5 DEF Leave
<1>8. ASSUME NEW pc \in {"left", "gone", "amnesty"}, GoesTo(s, pc)
      PROVE  /\ Moved(e, endpoint', s, pc) /\ Placed(endpoint') /\ endpoint' \in Handlers
             /\ Sound(n, endpoint') /\ Dropped(m, n, {s})
  <2>1. PICK f : f = [e EXCEPT ![s].pc = pc]
    OBVIOUS
  <2>2. Moved(e, f, s, pc) /\ endpoint' = f
    BY <1>1, <1>8, <2>1, GoesToMoves DEF GoesTo, Progress
  <2>3. f \in Handlers /\ Placed(f)
    BY <1>1, <1>2, <2>2, PlacedMoves DEF Moved
  <2>4. n \in Manager /\ Sound(n, f) /\ Dropped(m, n, {s})
    BY <1>1, <1>2, <1>3, <1>5, <2>2, SoundLeaves
  <2> QED
    BY <2>2, <2>3, <2>4
<1>9. CASE /\ mgr' = n /\ db' = RemoveMute(d, u, r) /\ GoesTo(s, "left")
           /\ UNCHANGED <<link, orphaned>>
  <2>1. db' \in Database /\ db'.admins = d.admins
    BY <1>1, <1>9, MutesKeep
  <2>2. /\ Moved(e, endpoint', s, "left") /\ Placed(endpoint') /\ endpoint' \in Handlers
        /\ Sound(n, endpoint') /\ Dropped(m, n, {s})
    BY <1>8, <1>9
  <2>3. n.kicked = m.kicked
    BY <2>2 DEF Dropped
  <2>4. RoomsTyped(mgr', db', endpoint', link', orphaned')
    BY <1>6, <1>9, <2>1, <2>2 DEF RoomsTypeInv, RoomsTyped
  <2> QED
    BY <1>2, <1>3, <1>4, <1>9, <2>1, <2>2, <2>3, <2>4
<1>10. CASE Succession(s, n)
  <2>1. /\ mgr' = n /\ UNCHANGED <<link, orphaned>> /\ db' \in Database
        /\ \E pc \in {"gone", "amnesty"} : GoesTo(s, pc) /\ Handed(d, db', n, u, r, pc)
    BY <1>3, <1>6, <1>10, SuccessionHands
  <2>2. PICK pc \in {"gone", "amnesty"} : GoesTo(s, pc) /\ Handed(d, db', n, u, r, pc)
    BY <2>1
  <2>3. /\ Moved(e, endpoint', s, pc) /\ Placed(endpoint') /\ endpoint' \in Handlers
        /\ Sound(n, endpoint') /\ Dropped(m, n, {s})
    BY <1>8, <2>2
  <2>4. n.kicked = m.kicked
    BY <2>3 DEF Dropped
  <2>5. RoomsTyped(mgr', db', endpoint', link', orphaned')
    BY <1>6, <2>1, <2>3 DEF RoomsTypeInv, RoomsTyped
  <2> QED
    BY <1>2, <1>3, <1>4, <2>1, <2>2, <2>3, <2>4, <2>5
<1> QED
  BY <1>7, <1>9, <1>10

LEMMA StepDownTyped ==
    ASSUME RoomsTypeInv, NEW s \in WebSocket, StepDown(s)
    PROVE  /\ RoomsTyped(mgr', db', endpoint', link', orphaned')
           /\ endpoint[s].pc = "left" /\ UNCHANGED <<mgr, link, orphaned>>
           /\ \E pc \in {"gone", "amnesty"} :
                 /\ Moved(endpoint, endpoint', s, pc)
                 /\ Handed(db, db', mgr', endpoint[s].user, endpoint[s].room, pc)
<1> PICK e, m, d : e = endpoint /\ m = mgr /\ d = db
  OBVIOUS
<1>1. e \in Handlers /\ m \in Manager /\ Placed(e) /\ Sound(m, e) /\ d \in Database
  BY DEF RoomsTypeInv, RoomsTyped
<1>2. e[s].pc = "left" /\ Succession(s, m)
  BY DEF StepDown
<1>3. PICK u \in User, r \in Room : u = e[s].user /\ r = e[s].room
  BY <1>1, <1>2 DEF Placed
<1>4. /\ mgr' = m /\ UNCHANGED <<link, orphaned>> /\ db' \in Database
      /\ \E pc \in {"gone", "amnesty"} : GoesTo(s, pc) /\ Handed(d, db', m, u, r, pc)
  BY <1>1, <1>2, <1>3, SuccessionHands
<1>5. PICK pc \in {"gone", "amnesty"} : GoesTo(s, pc) /\ Handed(d, db', m, u, r, pc)
  BY <1>4
<1>6. /\ Moved(e, endpoint', s, pc) /\ endpoint' \in Handlers
      /\ Placed(endpoint') /\ Sound(m, endpoint')
  BY <1>2, <1>5, StayTyped DEF Listed, Progress
<1>7. RoomsTyped(mgr', db', endpoint', link', orphaned')
  BY <1>1, <1>4, <1>6 DEF RoomsTypeInv, RoomsTyped
<1> QED
  BY <1>2, <1>3, <1>4, <1>5, <1>6, <1>7

LEMMA FindSuccessorTyped ==
    ASSUME RoomsTypeInv, NEW s \in WebSocket, FindSuccessor(s)
    PROVE  /\ RoomsTyped(mgr', db', endpoint', link', orphaned')
           /\ endpoint[s].pc = "amnesty" /\ UNCHANGED <<mgr, link, orphaned>>
           /\ endpoint[s].room \in Room /\ Moved(endpoint, endpoint', s, "gone")
           /\ Appoints(db, db', endpoint[s].room,
                       db.admins[endpoint[s].room] \cup GetAdminSuccessor(mgr, endpoint[s].room))
<1> PICK e, m, d : e = endpoint /\ m = mgr /\ d = db
  OBVIOUS
<1>1. e \in Handlers /\ m \in Manager /\ Placed(e) /\ Sound(m, e) /\ d \in Database
  BY DEF RoomsTypeInv, RoomsTyped
<1>2. e[s].pc = "amnesty" /\ GoesTo(s, "gone") /\ UNCHANGED <<mgr, link, orphaned>>
  BY DEF FindSuccessor
<1>3. PICK r \in Room : r = e[s].room
  BY <1>1, <1>2 DEF Placed
<1>4. Appoints(d, db', r, d.admins[r] \cup GetAdminSuccessor(m, r))
  <2>1. db' = Succeed(d, m, r)
    BY <1>3 DEF FindSuccessor
  <2> QED
    BY <1>1, <2>1, SucceedAppoints
<1>5. /\ Moved(e, endpoint', s, "gone") /\ endpoint' \in Handlers
      /\ Placed(endpoint') /\ Sound(m, endpoint')
  BY <1>2, StayTyped DEF Listed, Progress
<1>6. db' \in Database
  BY <1>4 DEF Appoints
<1>7. RoomsTyped(mgr', db', endpoint', link', orphaned')
  BY <1>1, <1>2, <1>5, <1>6 DEF RoomsTypeInv, RoomsTyped
<1> QED
  BY <1>2, <1>3, <1>4, <1>5, <1>7

\* A connection that is no longer up stays so.
Falls(l, k) == k \in Links /\ \A t \in WebSocket : l[t] # "up" => k[t] # "up"

LEMMA BrokenFalls ==
    ASSUME link \in Links, NEW s \in WebSocket
    PROVE  Falls(link, [link EXCEPT ![s] = Broken(s)])
<1>1. PICK x : x = Broken(s)
  OBVIOUS
<1>2. x \in {"lost", "closed"}
  BY <1>1 DEF Broken, Links
<1>3. Falls(link, [link EXCEPT ![s] = x])
  BY <1>2 DEF Falls, Links
<1> QED
  BY <1>1, <1>3

\* The room of a handler that crashes is a room.
LEMMA AbandonsTyped ==
    ASSUME RoomsTypeInv, NEW s \in WebSocket, endpoint[s].pc \in Listed, Abandons(s)
    PROVE  orphaned' \in SUBSET Room
<1>1. endpoint[s].room \in Room
  BY DEF RoomsTypeInv, RoomsTyped, Placed, Listed
<1> QED
  BY <1>1 DEF Abandons, RoomsTypeInv, RoomsTyped

\* Where only the handler of s moves.
Alone(s) == AcceptFails(s) \/ Greet(s) \/ GreetFails(s) \/ ReceiveFails(s)

LEMMA AloneMoves ==
    ASSUME NEW s \in WebSocket, Alone(s)
    PROVE  /\ \E pc \in Progress : /\ GoesTo(s, pc)
                                  /\ \/ endpoint[s].pc \in Listed /\ pc \in Listed
                                     \/ endpoint[s].pc = "accepting"
           /\ UNCHANGED <<mgr, db>>
BY DEF Alone, AcceptFails, Greet, GreetFails, ReceiveFails, Crashes, Listed, Progress

LEMMA AloneTyped ==
    ASSUME RoomsTypeInv, NEW s \in WebSocket, Alone(s)
    PROVE  /\ RoomsTyped(mgr', db', endpoint', link', orphaned')
           /\ Falls(link, link') /\ UNCHANGED <<mgr, db>> /\ orphaned \subseteq orphaned'
           /\ \E pc \in Progress : /\ Moved(endpoint, endpoint', s, pc)
                                  /\ \/ endpoint[s].pc \in Listed /\ pc \in Listed
                                     \/ endpoint[s].pc = "accepting"
<1>1. UNCHANGED <<mgr, db>>
  BY AloneMoves
<1>2. PICK pc \in Progress : /\ GoesTo(s, pc)
                             /\ \/ endpoint[s].pc \in Listed /\ pc \in Listed
                                \/ endpoint[s].pc = "accepting"
  BY AloneMoves
<1>3. \/ endpoint[s].pc \in Listed /\ pc \in Listed
      \/ endpoint[s].pc \notin Listed /\ endpoint[s].pc \notin {"new", "lobby", "stray", "gone"}
  BY <1>2 DEF Listed
<1>4. /\ Moved(endpoint, endpoint', s, pc) /\ endpoint' \in Handlers
      /\ Placed(endpoint') /\ Sound(mgr, endpoint')
  BY <1>2, <1>3, StayTyped
<1>5. link \in Links
  BY DEF RoomsTypeInv, RoomsTyped
<1>6. Falls(link, link')
  <2>1. CASE UNCHANGED link
    BY <1>5, <2>1 DEF Falls
  <2>2. CASE link' = [link EXCEPT ![s] = Broken(s)]
    BY <1>5, <2>2, BrokenFalls
  <2> QED
    BY <2>1, <2>2 DEF Alone, AcceptFails, Greet, GreetFails, ReceiveFails, Crashes
<1>7. orphaned' \in SUBSET Room /\ orphaned \subseteq orphaned'
  <2>1. CASE UNCHANGED orphaned
    BY <2>1 DEF RoomsTypeInv, RoomsTyped
  <2>2. CASE endpoint[s].pc \in Listed /\ Abandons(s)
    <3>1. orphaned' \in SUBSET Room
      BY <2>2, AbandonsTyped
    <3> QED
      BY <2>2, <3>1 DEF Abandons
  <2> QED
    BY <2>1, <2>2 DEF Alone, AcceptFails, Greet, GreetFails, ReceiveFails, Listed
<1>8. RoomsTyped(mgr', db', endpoint', link', orphaned')
  BY <1>1, <1>4, <1>6, <1>7 DEF RoomsTypeInv, RoomsTyped, Falls
<1> QED
  BY <1>1, <1>2, <1>4, <1>6, <1>7, <1>8

\* A connection to the lobby whose endpoint failed stays in the lobby.
LEMMA LobbyFailsTyped ==
    ASSUME RoomsTypeInv, NEW s \in WebSocket, LobbyFails(s)
    PROVE  /\ RoomsTyped(mgr', db', endpoint', link', orphaned')
           /\ Falls(link, link') /\ UNCHANGED <<mgr, db, orphaned>>
           /\ endpoint[s].pc = "lobby" /\ Moved(endpoint, endpoint', s, "stray")
<1> PICK e, m : e = endpoint /\ m = mgr
  OBVIOUS
<1>1. e \in Handlers /\ m \in Manager /\ Placed(e) /\ Sound(m, e) /\ link \in Links
  BY DEF RoomsTypeInv, RoomsTyped
<1>2. /\ e[s].pc = "lobby" /\ GoesTo(s, "stray") /\ UNCHANGED <<mgr, db, orphaned>>
      /\ link' = [link EXCEPT ![s] = Broken(s)]
  BY DEF LobbyFails, Crashes
<1>3. PICK f : f = [e EXCEPT ![s].pc = "stray"]
  OBVIOUS
<1>4. Moved(e, f, s, "stray") /\ endpoint' = f
  BY <1>1, <1>2, <1>3, GoesToMoves DEF GoesTo, Progress
<1>5. f \in Handlers /\ Placed(f)
  BY <1>1, <1>2, <1>4 DEF Placed, Moved
<1>6. \A q \in Room : \A t \in m.rooms[q] :
         f[t].pc \in Listed /\ f[t].room = e[t].room /\ f[t].user = e[t].user
  <2>1. \A q \in Room : \A t \in m.rooms[q] : t \in WebSocket /\ e[t].pc \in Listed
    BY <1>1 DEF Sound, Located, Manager
  <2>2. e[s].pc \notin Listed
    BY <1>2 DEF Listed
  <2> QED
    BY <1>4, <2>1, <2>2 DEF Moved
<1>7. \A t \in WebSocket : m.lobby[t] # Nobody => f[t].pc \in InLobby /\ f[t].user = e[t].user
  BY <1>1, <1>4 DEF Sound, Located, Moved, InLobby
<1>8. Sound(m, f)
  BY <1>1, <1>6, <1>7, SoundMoves
<1>9. Falls(link, link')
  BY <1>1, <1>2, BrokenFalls
<1> QED
  BY <1>1, <1>2, <1>4, <1>5, <1>8, <1>9 DEF RoomsTypeInv, RoomsTyped, Falls

LEMMA CloseTargetTyped ==
    ASSUME RoomsTypeInv, NEW s \in WebSocket, CloseTarget(s)
    PROVE  /\ RoomsTyped(mgr', db', endpoint', link', orphaned')
           /\ Falls(link, link') /\ UNCHANGED <<mgr, db>> /\ orphaned \subseteq orphaned'
           /\ endpoint[s].pc = "kicking"
           /\ \E pc \in Listed : Moved(endpoint, endpoint', s, pc)
           /\ endpoint'[s].pc = "crashed" => endpoint[s].room \in orphaned'
<1> PICK e, m : e = endpoint /\ m = mgr
  OBVIOUS
<1>1. e \in Handlers /\ m \in Manager /\ Placed(e) /\ Sound(m, e) /\ link \in Links
  BY DEF RoomsTypeInv, RoomsTyped
<1>2. PICK x \in e[s].targets :
         LET rest == e[s].targets \ {x}
             pc   == AfterKick(s, rest)
         IN /\ e[s].pc = "kicking"
            /\ link' = [link EXCEPT ![x] = Broken(x)]
            /\ endpoint' = [e EXCEPT ![s].targets = rest, ![s].pc = pc]
            /\ IF pc = "crashed" THEN Abandons(s) ELSE UNCHANGED orphaned
            /\ UNCHANGED <<mgr, db>>
  BY DEF CloseTarget
<1>3. e[s].targets \in SUBSET WebSocket /\ x \in WebSocket
  <2>1. e[s] \in Endpoint
    BY <1>1 DEF Handlers
  <2> QED
    BY <1>2, <2>1 DEF Endpoint
<1>4. PICK T \in SUBSET WebSocket : T = e[s].targets \ {x}
  BY <1>3
<1>5. PICK pc : pc = AfterKick(s, T)
  OBVIOUS
<1>6. pc \in Listed
  <2>1. AfterKick(s, T) \in {"kicking", "crashed", "open"}
    BY DEF AfterKick
  <2> QED
    BY <1>5, <2>1 DEF Listed
<1>7. PICK f : f = [e EXCEPT ![s].targets = T, ![s].pc = pc]
  OBVIOUS
<1>8. endpoint' = f
  BY <1>2, <1>4, <1>5, <1>7
<1>9. pc \in Progress
  BY <1>6 DEF Listed, Progress
<1>10. Moved(e, f, s, pc)
  BY <1>1, <1>7, <1>9, GoesWithTargets
<1>11. f \in Handlers /\ Placed(f) /\ Sound(m, f)
  <2>1. e[s].pc \in Listed
    BY <1>2 DEF Listed
  <2> QED
    BY <1>1, <1>6, <1>10, <2>1, ListedStays
<1>12. Falls(link, link')
  BY <1>1, <1>2, <1>3, BrokenFalls
<1>13. IF pc = "crashed" THEN Abandons(s) ELSE UNCHANGED orphaned
  BY <1>2, <1>4, <1>5
<1>14. orphaned' \in SUBSET Room /\ orphaned \subseteq orphaned'
  <2>1. CASE UNCHANGED orphaned
    BY <2>1 DEF RoomsTypeInv, RoomsTyped
  <2>2. CASE Abandons(s)
    <3>1. endpoint[s].pc \in Listed
      BY <1>2 DEF Listed
    <3>2. orphaned' \in SUBSET Room
      BY <2>2, <3>1, AbandonsTyped
    <3> QED
      BY <2>2, <3>2 DEF Abandons
  <2> QED
    BY <1>13, <2>1, <2>2
<1>15. UNCHANGED <<mgr, db>> /\ e[s].pc = "kicking"
  BY <1>2
<1>16. RoomsTyped(mgr', db', endpoint', link', orphaned')
  BY <1>8, <1>11, <1>12, <1>14, <1>15 DEF RoomsTypeInv, RoomsTyped, Falls
<1>17. endpoint'[s].pc = "crashed" => endpoint[s].room \in orphaned'
  BY <1>8, <1>10, <1>13 DEF Abandons, Moved
<1> QED
  BY <1>6, <1>8, <1>10, <1>12, <1>14, <1>15, <1>16, <1>17

\* Where no handler moves and the manager stays.
Outside ==
    \/ \E s \in WebSocket : Drop(s)
    \/ \E s \in WebSocket, u \in User : HandleMute(s, u) \/ HandleUnmute(s, u) \/ HandlePromote(s, u)
    \/ \E r \in Room : CloseRooms({r}) \/ OpenRooms({r})
    \/ CloseRooms(Room) \/ OpenRooms(Room)
    \/ \E u \in User : PromoteInConnectedRooms(u)

LEMMA OutsideTyped ==
    ASSUME RoomsTypeInv, Outside
    PROVE  /\ RoomsTyped(mgr', db', endpoint', link', orphaned')
           /\ UNCHANGED <<mgr, endpoint, orphaned>>
           /\ \A r \in Room : db.admins[r] \subseteq db'.admins[r]
           /\ \A t \in WebSocket : link[t] # "up" => link'[t] # "up"
<1> PICK d : d = db
  OBVIOUS
<1>1. d \in Database /\ link \in Links /\ endpoint \in Handlers /\ Placed(endpoint)
  BY DEF RoomsTypeInv, RoomsTyped
<1> DEFINE Widened == /\ db' \in Database /\ link' \in Links /\ UNCHANGED <<mgr, endpoint, orphaned>>
                      /\ \A r \in Room : d.admins[r] \subseteq db'.admins[r]
                      /\ \A t \in WebSocket : link[t] # "up" => link'[t] # "up"
<1>2. ASSUME NEW s \in WebSocket, Drop(s) PROVE Widened
  BY <1>1, <1>2 DEF Drop, Links
<1>3. ASSUME NEW s \in WebSocket, NEW u \in User, HandleMute(s, u) \/ HandleUnmute(s, u) PROVE Widened
  <2>1. PICK r \in Room : db' = AddMute(d, u, r) \/ db' = RemoveMute(d, u, r)
    BY <1>3 DEF HandleMute, HandleUnmute, MuteUser, UnmuteUser
  <2>2. db' \in Database /\ db'.admins = d.admins
    BY <1>1, <2>1, MutesKeep
  <2>3. UNCHANGED <<mgr, endpoint, link, orphaned>>
    BY <1>3 DEF HandleMute, HandleUnmute
  <2> QED
    BY <1>1, <2>2, <2>3
<1>4. ASSUME NEW s \in WebSocket, NEW u \in User, HandlePromote(s, u) PROVE Widened
  <2>1. PICK r \in Room : db' = AddAdmin(d, u, r)
    BY <1>4 DEF HandlePromote, PromoteToAdmin
  <2>2. Appoints(d, db', r, d.admins[r] \cup {u})
    BY <1>1, <2>1, AddAdminAppoints
  <2>3. UNCHANGED <<mgr, endpoint, link, orphaned>>
    BY <1>4 DEF HandlePromote
  <2> QED
    BY <1>1, <2>2, <2>3 DEF Appoints
<1>5. ASSUME NEW rooms \in SUBSET Room, CloseRooms(rooms) PROVE Widened
  <2>1. db' \in Database /\ db'.admins = d.admins
    BY <1>1, <1>5 DEF CloseRooms, Database
  <2>2. link' \in Links /\ \A t \in WebSocket : link[t] # "up" => link'[t] # "up"
    BY <1>1, <1>5 DEF CloseRooms, Links
  <2> QED
    BY <1>5, <2>1, <2>2 DEF CloseRooms
<1>6. ASSUME NEW rooms \in SUBSET Room, OpenRooms(rooms) PROVE Widened
  <2>1. db' \in Database /\ db'.admins = d.admins
    BY <1>1, <1>6 DEF OpenRooms, Database
  <2> QED
    BY <1>1, <1>6, <2>1 DEF OpenRooms
<1>7. ASSUME NEW u \in User, PromoteInConnectedRooms(u) PROVE Widened
  <2>1. PICK P \in SUBSET Room :
           db' = [d EXCEPT !.admins = [r \in Room |-> IF r \in P THEN @[r] \cup {u} ELSE @[r]]]
    BY <1>7 DEF PromoteInConnectedRooms
  <2>2. db' \in Database /\ \A r \in Room : d.admins[r] \subseteq db'.admins[r]
    <3>1. PICK x : x = [r \in Room |-> IF r \in P THEN d.admins[r] \cup {u} ELSE d.admins[r]]
      OBVIOUS
    <3>2. x \in [Room -> SUBSET User] /\ \A r \in Room : d.admins[r] \subseteq x[r]
      BY <1>1, <3>1 DEF Database
    <3>3. db' = [d EXCEPT !.admins = x]
      BY <2>1, <3>1
    <3> QED
      BY <1>1, <3>2, <3>3 DEF Database
  <2> QED
    BY <1>1, <1>7, <2>2 DEF PromoteInConnectedRooms
<1>8. Widened
  <2>1. \A r \in Room : {r} \in SUBSET Room
    OBVIOUS
  <2> HIDE DEF Widened
  <2> QED
    BY <1>2, <1>3, <1>4, <1>5, <1>6, <1>7, <2>1 DEF Outside
<1> QED
  BY <1>8 DEF RoomsTypeInv, RoomsTyped


----------------------------------------------------------------------------
(* The type invariant, and that the maps agree.                            *)

LEMMA RoomsTypeInit ==
    ASSUME RoomsInit
    PROVE  RoomsTypeInv
<1>1. mgr \in Manager
  <2>1. <<>> \in Seq(User)
    BY EmptySeq
  <2> QED
    BY <2>1 DEF RoomsInit, Manager
<1>2. db \in Database /\ link \in Links /\ orphaned \in SUBSET Room
  BY DEF RoomsInit, Database, Links
<1>3. endpoint \in Handlers
  BY DEF RoomsInit, Handlers, Endpoint, Progress
<1>4. Placed(endpoint)
  BY DEF RoomsInit, Placed
<1>5. /\ \A r \in Room : mgr.rooms[r] = {} /\ mgr.joinOrder[r] = <<>>
      /\ \A s \in WebSocket : mgr.socketToUser[s] = Nobody /\ mgr.lobby[s] = Nobody
      /\ \A u \in User : mgr.userToSocket[u] = {} /\ u # Nobody
  BY LegacyAssumption DEF RoomsInit
<1>6. Located(mgr, endpoint)
  BY <1>5 DEF Located
<1>7. Counted(mgr)
  <2> SUFFICES ASSUME NEW r \in Room, NEW u \in User
               PROVE  Cardinality(OfIn(mgr, u, r)) = Cardinality(Places(mgr.joinOrder[r], u))
    BY DEF Counted
  <2>1. OfIn(mgr, u, r) = {}
    BY <1>5 DEF OfIn
  <2>2. Places(mgr.joinOrder[r], u) = {}
    <3>1. DOMAIN mgr.joinOrder[r] = {}
      BY <1>5
    <3> QED
      BY <3>1 DEF Places
  <2> QED
    BY <2>1, <2>2
<1>8. Reached(mgr)
  BY <1>5 DEF Reached
<1> QED
  BY <1>1, <1>2, <1>3, <1>4, <1>6, <1>7, <1>8 DEF RoomsTypeInv, RoomsTyped, Sound

\* What a step is, by the lemma that deals with it.
RoomSteps(s) ==
    \/ Accept(s) \/ Alone(s) \/ LeaveLobby(s) \/ LobbyFails(s) \/ CloseTarget(s) \/ LeaveKicked(s)
    \/ Leave(s) \/ StepDown(s) \/ FindSuccessor(s)

LEMMA RoomsNextIs ==
    ASSUME RoomsNext
    PROVE  \/ \E c \in Room \cup User \cup {Lobby} : Relay(c)
           \/ \E s \in WebSocket, u \in User, r \in Room : Handshake(s, u, r)
           \/ \E s \in WebSocket, u \in User : EnterLobby(s, u) \/ Kick(s, u)
           \/ \E s \in WebSocket : RoomSteps(s)
           \/ Outside
BY Zenon DEF RoomsNext, RoomSteps, Alone, Outside

LEMMA RoomsTypeKept ==
    ASSUME RoomsTypeInv, [RoomsNext]_roomsVars
    PROVE  RoomsTypeInv'
<1>1. ASSUME NEW c \in Room \cup User \cup {Lobby}, Relay(c) PROVE RoomsTypeInv'
  BY <1>1, RelayTyped DEF RoomsTypeInv
<1>2. ASSUME NEW s \in WebSocket, NEW u \in User, NEW r \in Room, Handshake(s, u, r) PROVE RoomsTypeInv'
  BY <1>2, HandshakeTyped DEF RoomsTypeInv
<1>3. ASSUME NEW s \in WebSocket, NEW u \in User, EnterLobby(s, u) \/ Kick(s, u) PROVE RoomsTypeInv'
  BY <1>3, EnterLobbyTyped, KickTyped DEF RoomsTypeInv
<1>4. ASSUME NEW s \in WebSocket, RoomSteps(s) PROVE RoomsTypeInv'
  BY <1>4, AcceptTyped, AloneTyped, LeaveLobbyTyped, LobbyFailsTyped, CloseTargetTyped, LeaveKickedTyped,
     LeaveTyped, StepDownTyped, FindSuccessorTyped DEF RoomSteps, RoomsTypeInv
<1>5. CASE Outside
  BY <1>5, OutsideTyped DEF RoomsTypeInv
<1>6. CASE UNCHANGED roomsVars
  BY <1>6 DEF roomsVars, RoomsTypeInv
<1> QED
  BY <1>1, <1>2, <1>3, <1>4, <1>5, <1>6, RoomsNextIs

LEMMA RoomsTypeInvariant == RoomsSpec => []RoomsTypeInv
<1>1. RoomsInit => RoomsTypeInv
  BY RoomsTypeInit
<1>2. RoomsTypeInv /\ [RoomsNext]_roomsVars => RoomsTypeInv'
  BY RoomsTypeKept
<1> QED
  BY <1>1, <1>2, PTL DEF RoomsSpec

\* Every variable keeps to its type: in particular a kick count is a natural
\* number, which the decrement of a departure could have made negative.
THEOREM RoomsTypeCorrect == RoomsSpec => []RoomsTypeOK
<1>1. RoomsTypeInv => RoomsTypeOK
  BY DEF RoomsTypeInv, RoomsTyped, RoomsTypeOK, Handlers, Links
<1> QED
  BY <1>1, RoomsTypeInvariant, PTL

LEMMA SoundAgrees ==
    ASSUME RoomsTypeInv
    PROVE  MapsAgree
<1>1. mgr \in Manager /\ Sound(mgr, endpoint)
  BY DEF RoomsTypeInv, RoomsTyped
<1>2. /\ \A r \in Room : mgr.rooms[r] \subseteq WebSocket
      /\ \A u \in User : mgr.userToSocket[u] \subseteq WebSocket
  BY <1>1 DEF Manager
<1>3. \A r \in Room : \A s \in mgr.rooms[r] : s \in WebSocket /\ mgr.socketToUser[s] \in User
  BY <1>1, <1>2 DEF Sound, Located
<1>4. {s \in WebSocket : mgr.socketToUser[s] # Nobody} = UNION {mgr.rooms[r] : r \in Room}
  <2>1. \A s \in WebSocket : mgr.socketToUser[s] # Nobody => \E r \in Room : s \in mgr.rooms[r]
    BY <1>1 DEF Sound, Located
  <2>2. Nobody \notin User
    BY LegacyAssumption
  <2> QED
    BY <1>3, <2>1, <2>2
<1>5. ASSUME NEW r \in Room, NEW u \in User
      PROVE  Cardinality(Of(u, r)) = Cardinality({i \in DOMAIN mgr.joinOrder[r] : mgr.joinOrder[r][i] = u})
  BY <1>1 DEF Sound, Counted, OfIn, Of, Places
<1>6. ASSUME NEW u \in User
      PROVE  mgr.userToSocket[u] = (UNION {Of(u, r) : r \in Room}) \cup {s \in WebSocket : mgr.lobby[s] = u}
  <2>1. \A s \in WebSocket : s \in mgr.userToSocket[u] <=> mgr.lobby[s] = u \/ mgr.socketToUser[s] = u
    BY <1>1 DEF Sound, Reached
  <2>2. \A s \in WebSocket : mgr.socketToUser[s] = u => \E r \in Room : s \in Of(u, r)
    <3>1. u # Nobody
      BY LegacyAssumption
    <3> QED
      BY <1>1, <3>1 DEF Sound, Located, Of
  <2>3. \A r \in Room : \A s \in Of(u, r) : s \in WebSocket /\ mgr.socketToUser[s] = u
    BY <1>3 DEF Of
  <2>4. \A s \in UNION {Of(u, r) : r \in Room} : s \in WebSocket /\ mgr.socketToUser[s] = u
    BY <2>3
  <2>5. \A s \in WebSocket : s \in UNION {Of(u, r) : r \in Room} <=> mgr.socketToUser[s] = u
    BY <2>2, <2>4
  <2>6. PICK X : X = UNION {Of(u, r) : r \in Room}
    OBVIOUS
  <2>7. X \subseteq WebSocket /\ \A s \in WebSocket : s \in X <=> mgr.socketToUser[s] = u
    BY <2>4, <2>5, <2>6
  <2>8. mgr.userToSocket[u] = X \cup {s \in WebSocket : mgr.lobby[s] = u}
    BY <1>2, <2>1, <2>7
  <2> QED
    BY <2>6, <2>8
<1> QED
  BY <1>4, <1>5, <1>6 DEF MapsAgree

\* The maps of the ConnectionManager agree after every connect, disconnect and
\* relay, whatever sockets the relay drops.
THEOREM MapsAgreeCorrect == RoomsSpec => []MapsAgree
BY RoomsTypeInvariant, SoundAgrees, PTL


----------------------------------------------------------------------------
(* Kicks.                                                                  *)

\* The connections that u has yet to end, those of crashed endpoints among them.
Owing(e, u) == {s \in WebSocket : e[s].user = u /\ e[s].pc \in Listed}

Owed(m, e) == \A u \in User : m.kicked[u] <= Cardinality(Owing(e, u))

LEMMA OwingFinite ==
    ASSUME NEW e, NEW u
    PROVE  IsFiniteSet(Owing(e, u)) /\ Cardinality(Owing(e, u)) \in Nat
<1>1. Owing(e, u) \in SUBSET WebSocket
  BY DEF Owing
<1> QED
  BY <1>1, LegacyAssumption, FS_Subset, FS_CardinalityType

\* As long as who is registered stays so, nobody owes too many.
LEMMA OwedStays ==
    ASSUME NEW m \in Manager, NEW n, NEW e, NEW f, Owed(m, e), n.kicked = m.kicked,
           \A s \in WebSocket : e[s].pc \in Listed => f[s].pc \in Listed /\ f[s].user = e[s].user
    PROVE  Owed(n, f)
<1> SUFFICES ASSUME NEW u \in User PROVE m.kicked[u] <= Cardinality(Owing(f, u))
  BY DEF Owed
<1>1. Owing(e, u) \in SUBSET Owing(f, u)
  BY DEF Owing
<1>2. Cardinality(Owing(e, u)) <= Cardinality(Owing(f, u))
  BY <1>1, OwingFinite, FS_Subset
<1>3. m.kicked[u] <= Cardinality(Owing(e, u)) /\ m.kicked[u] \in Nat
  BY DEF Owed, Manager
<1>4. Cardinality(Owing(e, u)) \in Nat /\ Cardinality(Owing(f, u)) \in Nat
  BY OwingFinite
<1> QED
  BY <1>2, <1>3, <1>4

LEMMA OwedMoves ==
    ASSUME NEW m \in Manager, NEW n, NEW e, NEW f, Owed(m, e), n.kicked = m.kicked,
           NEW s \in WebSocket, NEW pc, Moved(e, f, s, pc), e[s].pc \notin Listed \/ pc \in Listed
    PROVE  Owed(n, f)
<1>1. \A t \in WebSocket : e[t].pc \in Listed => f[t].pc \in Listed /\ f[t].user = e[t].user
  BY DEF Moved
<1> QED
  BY <1>1, OwedStays

\* A kick is for connections the target has.
LEMMA KickOwes ==
    ASSUME NEW m \in Manager, NEW e, Sound(m, e), Owed(m, e), NEW u \in User, NEW r \in Room
    PROVE  Owed([m EXCEPT !.kicked[u] = Cardinality(m.rooms[r] \cap m.userToSocket[u])], e)
<1> PICK found : found = m.rooms[r] \cap m.userToSocket[u]
  OBVIOUS
<1>1. m.rooms[r] \subseteq WebSocket
  BY DEF Manager
<1>2. found \in SUBSET Owing(e, u)
  <2> SUFFICES ASSUME NEW s \in found PROVE s \in Owing(e, u)
    OBVIOUS
  <2>1. s \in WebSocket /\ e[s].pc \in Listed /\ m.socketToUser[s] = e[s].user
    BY <1>1 DEF Sound, Located
  <2>2. m.lobby[s] = u \/ m.socketToUser[s] = u
    BY <2>1 DEF Sound, Reached
  <2>3. m.lobby[s] = Nobody /\ u # Nobody
    BY <2>1, LegacyAssumption DEF Sound, Located, Listed, InLobby
  <2> QED
    BY <2>1, <2>2, <2>3 DEF Owing
<1>3. IsFiniteSet(Owing(e, u))
  BY OwingFinite
<1>4. Cardinality(found) <= Cardinality(Owing(e, u)) /\ Cardinality(found) \in Nat
  BY <1>2, <1>3, FS_Subset, FS_CardinalityType
<1>5. PICK k \in Nat : k = Cardinality(found)
  BY <1>4
<1>6. PICK n : n = [m EXCEPT !.kicked[u] = k]
  OBVIOUS
<1>7. \A v \in User : n.kicked[v] = IF v = u THEN k ELSE m.kicked[v]
  BY <1>6, KickedSound
<1>8. Owed(n, e)
  BY <1>4, <1>5, <1>7 DEF Owed
<1> QED
  BY <1>5, <1>6, <1>8

\* A connection that ends takes one kick, if there is one.
LEMMA LeaverOwes ==
    ASSUME NEW m \in Manager, NEW n, NEW e, NEW f, Owed(m, e),
           NEW s \in WebSocket, Moved(e, f, s, "gone") \/ Moved(e, f, s, "left") \/ Moved(e, f, s, "amnesty"),
           e[s].pc \in Listed, e[s].user \in User,
           \A v \in User : v # e[s].user => n.kicked[v] = m.kicked[v],
           \/ n.kicked[e[s].user] = m.kicked[e[s].user] - 1
           \/ n.kicked[e[s].user] = 0
    PROVE  Owed(n, f)
<1>1. /\ f[s].pc \notin Listed
      /\ \A t \in WebSocket : t # s => f[t] = e[t]
  BY DEF Moved, Listed
<1>2. ASSUME NEW u \in User PROVE n.kicked[u] <= Cardinality(Owing(f, u))
  <2>1. /\ m.kicked[u] <= Cardinality(Owing(e, u)) /\ m.kicked[u] \in Nat
        /\ Cardinality(Owing(e, u)) \in Nat /\ Cardinality(Owing(f, u)) \in Nat
    BY OwingFinite DEF Owed, Manager
  <2>2. CASE u # e[s].user
    <3>1. Owing(f, u) = Owing(e, u)
      BY <1>1, <2>2 DEF Owing
    <3> QED
      BY <2>1, <2>2, <3>1
  <2>3. CASE u = e[s].user
    <3>1. Owing(f, u) = Owing(e, u) \ {s}
      BY <1>1 DEF Owing
    <3>2. s \in Owing(e, u)
      BY <2>3 DEF Owing
    <3>3. IsFiniteSet(Owing(e, u))
      BY OwingFinite
    <3>4. Cardinality(Owing(e, u) \ {s}) = Cardinality(Owing(e, u)) - 1
      BY <3>2, <3>3, FS_RemoveElement
    <3> QED
      BY <2>1, <2>3, <3>1, <3>4
  <2> QED
    BY <2>2, <2>3
<1> QED
  BY <1>2 DEF Owed

KicksInv == Owed(mgr, endpoint)

LEMMA KicksInit ==
    ASSUME RoomsInit
    PROVE  KicksInv
<1>1. \A u \in User : mgr.kicked[u] = 0
  BY DEF RoomsInit
<1>2. \A u \in User : Cardinality(Owing(endpoint, u)) \in Nat
  BY OwingFinite
<1> QED
  BY <1>1, <1>2 DEF KicksInv, Owed

LEMMA KicksKept ==
    ASSUME RoomsTypeInv, KicksInv, [RoomsNext]_roomsVars
    PROVE  KicksInv'
<1> PICK e, m : e = endpoint /\ m = mgr
  OBVIOUS
<1>1. e \in Handlers /\ m \in Manager /\ Placed(e) /\ Sound(m, e) /\ Owed(m, e)
  BY DEF RoomsTypeInv, RoomsTyped, KicksInv
<1> SUFFICES Owed(mgr', endpoint')
  BY DEF KicksInv
<1>2. ASSUME NEW c \in Room \cup User \cup {Lobby}, Relay(c) PROVE Owed(mgr', endpoint')
  <2>1. endpoint' = e /\ mgr'.kicked = m.kicked
    BY <1>2, RelayTyped DEF Relay, Dropped
  <2> QED
    BY <1>1, <2>1, OwedStays
<1>3. ASSUME NEW s \in WebSocket, NEW u \in User, NEW r \in Room, Handshake(s, u, r)
      PROVE  Owed(mgr', endpoint')
  <2>1. mgr' = m /\ e[s].pc = "new" /\ \A t \in WebSocket : t # s => endpoint'[t] = e[t]
    BY <1>3, HandshakeTyped DEF Handshake
  <2> QED
    BY <1>1, <2>1, OwedStays DEF Listed
<1>4. ASSUME NEW s \in WebSocket, NEW u \in User, EnterLobby(s, u) PROVE Owed(mgr', endpoint')
  <2>1. mgr'.kicked = m.kicked /\ e[s].pc = "new" /\ \A t \in WebSocket : t # s => endpoint'[t] = e[t]
    BY <1>4, EnterLobbyTyped DEF EnterLobby
  <2> QED
    BY <1>1, <2>1, OwedStays DEF Listed
<1>5. ASSUME NEW s \in WebSocket, NEW u \in User, Kick(s, u) PROVE Owed(mgr', endpoint')
  <2>1. CASE mgr' = mgr /\ endpoint' = endpoint
    BY <1>1, <2>1
  <2>2. CASE /\ endpoint[s].pc = "open" /\ Moved(endpoint, endpoint', s, "kicking")
             /\ \E r \in Room :
                   mgr' = [mgr EXCEPT !.kicked[u] = Cardinality(mgr.rooms[r] \cap mgr.userToSocket[u])]
    <3>1. Owed(mgr', e)
      BY <1>1, <2>2, KickOwes
    <3>2. mgr' \in Manager
      BY <1>5, KickTyped DEF RoomsTyped
    <3> QED
      BY <2>2, <3>1, <3>2, OwedMoves DEF Listed
  <2> QED
    BY <1>5, <2>1, <2>2, KickTyped
<1>6. ASSUME NEW s \in WebSocket, NEW pc, Moved(e, endpoint', s, pc), mgr'.kicked = m.kicked,
             e[s].pc \notin Listed \/ pc \in Listed
      PROVE  Owed(mgr', endpoint')
  BY <1>1, <1>6, OwedMoves
<1>7. ASSUME NEW s \in WebSocket, RoomSteps(s) PROVE Owed(mgr', endpoint')
  <2>1. CASE Accept(s)
    <3>1. Moved(e, endpoint', s, "greeting") /\ mgr'.kicked = m.kicked
      BY <2>1, AcceptTyped DEF Connected
    <3> QED
      BY <1>6, <3>1 DEF Listed
  <2>2. CASE Alone(s)
    <3>1. PICK pc \in Progress : /\ Moved(e, endpoint', s, pc)
                                 /\ (e[s].pc \in Listed /\ pc \in Listed) \/ e[s].pc = "accepting"
      BY <2>2, AloneTyped
    <3>2. mgr' = m
      BY <2>2, AloneTyped
    <3>3. e[s].pc \notin Listed \/ pc \in Listed
      BY <3>1 DEF Listed
    <3> QED
      BY <1>6, <3>1, <3>2, <3>3
  <2>3. CASE LeaveLobby(s)
    <3>1. Moved(e, endpoint', s, "gone") /\ mgr'.kicked = m.kicked /\ e[s].pc = "lobby"
      BY <2>3, LeaveLobbyTyped DEF Dropped, LeaveLobby
    <3> QED
      BY <1>6, <3>1 DEF Listed
  <2>4. CASE CloseTarget(s)
    <3>1. mgr' = m /\ \E pc \in Listed : Moved(e, endpoint', s, pc)
      BY <2>4, CloseTargetTyped
    <3> QED
      BY <1>6, <3>1
  <2>5. CASE LeaveKicked(s)
    <3>1. /\ Moved(e, endpoint', s, "gone") /\ e[s].pc = "open"
          /\ \A v \in User : mgr'.kicked[v] = IF v = e[s].user THEN m.kicked[v] - 1 ELSE m.kicked[v]
      BY <2>5, LeaveKickedTyped
    <3>2. e[s].pc \in Listed /\ e[s].user \in User
      BY <1>1, <3>1 DEF Listed, Placed
    <3>3. /\ \A v \in User : v # e[s].user => mgr'.kicked[v] = m.kicked[v]
          /\ mgr'.kicked[e[s].user] = m.kicked[e[s].user] - 1
      BY <3>1, <3>2
    <3> QED
      BY <1>1, <3>1, <3>2, <3>3, LeaverOwes
  <2>6. CASE Leave(s)
    <3>1. /\ e[s].pc = "open" /\ mgr'.kicked = m.kicked /\ m.kicked[e[s].user] = 0
          /\ Moved(e, endpoint', s, "gone") \/ Moved(e, endpoint', s, "left") \/ Moved(e, endpoint', s, "amnesty")
      BY <2>6, LeaveTyped
    <3>2. e[s].pc \in Listed /\ e[s].user \in User
      BY <1>1, <3>1 DEF Listed, Placed
    <3> QED
      BY <1>1, <3>1, <3>2, LeaverOwes
  <2>7. CASE StepDown(s)
    <3>1. mgr' = mgr /\ e[s].pc = "left" /\ \E pc \in {"gone", "amnesty"} : Moved(e, endpoint', s, pc)
      BY <2>7, StepDownTyped
    <3> QED
      BY <1>6, <3>1 DEF Listed
  <2>8. CASE FindSuccessor(s)
    <3>1. mgr' = mgr /\ e[s].pc = "amnesty" /\ Moved(e, endpoint', s, "gone")
      BY <2>8, FindSuccessorTyped
    <3> QED
      BY <1>6, <3>1 DEF Listed
  <2>9. CASE LobbyFails(s)
    <3>1. mgr' = m /\ e[s].pc = "lobby" /\ Moved(e, endpoint', s, "stray")
      BY <2>9, LobbyFailsTyped
    <3> QED
      BY <1>6, <3>1 DEF Listed
  <2> QED
    BY <1>7, <2>1, <2>2, <2>3, <2>4, <2>5, <2>6, <2>7, <2>8, <2>9 DEF RoomSteps
<1>8. CASE Outside
  BY <1>1, <1>8, OutsideTyped
<1>9. CASE UNCHANGED roomsVars
  BY <1>1, <1>9 DEF roomsVars
<1> QED
  BY <1>2, <1>3, <1>4, <1>5, <1>7, <1>8, <1>9, RoomsNextIs

LEMMA KicksInvOwes ==
    ASSUME KicksInv
    PROVE  KicksAreOwed
<1> SUFFICES ASSUME NEW u \in User, \A s \in WebSocket : endpoint[s].user = u => endpoint[s].pc # "crashed"
             PROVE  mgr.kicked[u] <= Cardinality({s \in WebSocket : endpoint[s].user = u /\ endpoint[s].pc \in Registered})
  BY DEF KicksAreOwed
<1>1. Owing(endpoint, u) = {s \in WebSocket : endpoint[s].user = u /\ endpoint[s].pc \in Registered}
  BY DEF Owing, Listed, Registered
<1> QED
  BY <1>1 DEF KicksInv, Owed

\* No user has more kicks to take than connections whose disconnect is still to
\* come: when all of them have ended, a connection the user makes later is not
\* taken for a kicked one, unless an endpoint of his crashed.
THEOREM KicksAreOwedCorrect == RoomsSpec => []KicksAreOwed
<1>1. RoomsInit => KicksInv
  BY KicksInit
<1>2. RoomsTypeInv /\ KicksInv /\ [RoomsNext]_roomsVars => KicksInv'
  BY KicksKept
<1>3. KicksInv => KicksAreOwed
  BY KicksInvOwes
<1> QED
  BY <1>1, <1>2, <1>3, RoomsTypeInvariant, PTL DEF RoomsSpec


----------------------------------------------------------------------------
(* Admins.                                                                 *)

\* The connection of s is over, but its handler has yet to step down.
Ended(e, l, s) == e[s].pc = "left" \/ (e[s].pc \in Listed /\ l[s] # "up")

\* Somebody looks after room r: an admin who is connected, a handler that is
\* about to find a successor, or the handler of an admin who left.
Cared(r, m, d, e, l) ==
    m.rooms[r] # {} =>
       \/ \E s \in m.rooms[r] : e[s].user \in d.admins[r]
       \/ \E s \in WebSocket : e[s].room = r /\ e[s].pc = "amnesty"
       \/ \E s \in WebSocket : e[s].room = r /\ Ended(e, l, s) /\ e[s].user \in d.admins[r]

LEMMA CareGoesOn ==
    ASSUME NEW r \in Room, NEW m \in Manager, NEW n, NEW d, NEW x, NEW e, NEW f, NEW l, NEW k,
           Cared(r, m, d, e, l),
           n.rooms[r] # {} => m.rooms[r] # {},
           \A s \in m.rooms[r] : e[s].user \in d.admins[r] =>
              /\ f[s].user \in x.admins[r]
              /\ s \in n.rooms[r] \/ (f[s].room = r /\ Ended(f, k, s)),
           \A s \in WebSocket : e[s].room = r /\ e[s].pc = "amnesty" => f[s].room = r /\ f[s].pc = "amnesty",
           \A s \in WebSocket : e[s].room = r /\ Ended(e, l, s) /\ e[s].user \in d.admins[r] =>
              f[s].room = r /\ Ended(f, k, s) /\ f[s].user \in x.admins[r]
    PROVE  Cared(r, n, x, f, k)
<1> SUFFICES ASSUME n.rooms[r] # {}
             PROVE  \/ \E s \in n.rooms[r] : f[s].user \in x.admins[r]
                    \/ \E s \in WebSocket : f[s].room = r /\ f[s].pc = "amnesty"
                    \/ \E s \in WebSocket : f[s].room = r /\ Ended(f, k, s) /\ f[s].user \in x.admins[r]
  BY DEF Cared
<1>1. m.rooms[r] # {} /\ \A s \in m.rooms[r] : s \in WebSocket
  BY DEF Manager
<1>2. CASE \E s \in m.rooms[r] : e[s].user \in d.admins[r]
  BY <1>1, <1>2
<1>3. CASE \E s \in WebSocket : e[s].room = r /\ e[s].pc = "amnesty"
  BY <1>3
<1>4. CASE \E s \in WebSocket : e[s].room = r /\ Ended(e, l, s) /\ e[s].user \in d.admins[r]
  BY <1>4
<1> QED
  BY <1>1, <1>2, <1>3, <1>4 DEF Cared

\* Who is connected to r, leaving it or looking for its successor goes on so.
Keeps(r, e, f, l, k) ==
    \A s \in WebSocket : e[s].room = r /\ e[s].pc \in Listed \cup {"left", "amnesty"} =>
       /\ f[s].user = e[s].user /\ f[s].room = r
       /\ e[s].pc = "amnesty" => f[s].pc = "amnesty"
       /\ Ended(e, l, s) => Ended(f, k, s)

LEMMA CareStays ==
    ASSUME NEW r \in Room, NEW m \in Manager, NEW n, NEW d, NEW x, NEW e, NEW f, NEW l, NEW k,
           Cared(r, m, d, e, l), Sound(m, e), Keeps(r, e, f, l, k),
           n.rooms[r] # {} => m.rooms[r] # {}, m.rooms[r] \subseteq n.rooms[r],
           d.admins[r] \subseteq x.admins[r]
    PROVE  Cared(r, n, x, f, k)
<1>1. \A s \in m.rooms[r] : s \in WebSocket /\ e[s].pc \in Listed /\ e[s].room = r
  BY DEF Sound, Located, Manager
<1>2. \A s \in m.rooms[r] : e[s].user \in d.admins[r] => f[s].user \in x.admins[r] /\ s \in n.rooms[r]
  BY <1>1 DEF Keeps
<1>3. \A s \in WebSocket : e[s].room = r /\ e[s].pc = "amnesty" => f[s].room = r /\ f[s].pc = "amnesty"
  BY DEF Keeps
<1>4. \A s \in WebSocket : e[s].room = r /\ Ended(e, l, s) /\ e[s].user \in d.admins[r] =>
         f[s].room = r /\ Ended(f, k, s) /\ f[s].user \in x.admins[r]
  BY DEF Keeps, Ended
<1> QED
  BY <1>2, <1>3, <1>4, CareGoesOn

\* A handler of another room, or of somebody who is no admin, changes nothing.
LEMMA CareOfOthers ==
    ASSUME NEW r \in Room, NEW m \in Manager, NEW n, NEW d, NEW x, NEW e, NEW f, NEW l, NEW s \in WebSocket, NEW pc,
           Cared(r, m, d, e, l), Sound(m, e), Moved(e, f, s, pc),
           e[s].room # r \/ (e[s].user \notin d.admins[r] /\ e[s].pc # "amnesty"),
           n.rooms[r] = m.rooms[r] \ {s}, x.admins[r] = d.admins[r]
    PROVE  Cared(r, n, x, f, l)
<1>1. \A t \in m.rooms[r] : t \in WebSocket /\ e[t].room = r
  BY DEF Sound, Located, Manager
<1>2. \A t \in WebSocket : t # s => f[t] = e[t]
  BY DEF Moved
<1>3. \A t \in m.rooms[r] : e[t].user \in d.admins[r] => f[t].user \in x.admins[r] /\ t \in n.rooms[r]
  BY <1>1, <1>2
<1>4. \A t \in WebSocket : e[t].room = r /\ e[t].pc = "amnesty" => f[t].room = r /\ f[t].pc = "amnesty"
  BY <1>2
<1>5. \A t \in WebSocket : e[t].room = r /\ Ended(e, l, t) /\ e[t].user \in d.admins[r] =>
         f[t].room = r /\ Ended(f, l, t) /\ f[t].user \in x.admins[r]
  BY <1>2 DEF Ended
<1>6. n.rooms[r] # {} => m.rooms[r] # {}
  OBVIOUS
<1> QED
  BY <1>3, <1>4, <1>5, <1>6, CareGoesOn

\* A successor who is connected is an admin.
LEMMA SuccessorCares ==
    ASSUME NEW r \in Room, NEW n \in Manager, NEW x, NEW f, NEW l, NEW A, Sound(n, f),
           x.admins[r] = A \cup GetAdminSuccessor(n, r)
    PROVE  Cared(r, n, x, f, l)
BY SuccessorConnected DEF Cared

\* A departure that is handed over: the leaver is disconnected before or now.
LEMMA CareHanded ==
    ASSUME NEW r \in Room, NEW m \in Manager, NEW n \in Manager, NEW d, NEW x, NEW e, NEW f, NEW l,
           NEW s \in WebSocket, NEW pc,
           Cared(r, m, d, e, l), Sound(m, e), Sound(n, f), Moved(e, f, s, pc), e[s].pc # "amnesty",
           n.rooms[r] = m.rooms[r] \ {s}, Handed(d, x, n, e[s].user, e[s].room, pc)
    PROVE  Cared(r, n, x, f, l)
<1>1. CASE r # e[s].room
  <2>1. x.admins[r] = d.admins[r]
    BY <1>1 DEF Handed, Appoints
  <2> QED
    BY <1>1, <2>1, CareOfOthers
<1>2. CASE r = e[s].room
  <2>1. CASE e[s].user \notin d.admins[r] /\ x = d
    BY <2>1, CareOfOthers
  <2>2. CASE pc = "amnesty"
    <3>1. f[s].room = r /\ f[s].pc = "amnesty"
      BY <1>2, <2>2 DEF Moved
    <3> QED
      BY <3>1 DEF Cared
  <2>3. CASE Appoints(d, x, r, (d.admins[r] \ {e[s].user}) \cup GetAdminSuccessor(n, r))
    <3>1. x.admins[r] = (d.admins[r] \ {e[s].user}) \cup GetAdminSuccessor(n, r)
      BY <2>3 DEF Appoints
    <3> QED
      BY <3>1, SuccessorCares
  <2> QED
    BY <1>2, <2>1, <2>2, <2>3 DEF Handed
<1> QED
  BY <1>1, <1>2


\* Every room is cared for, but those of which that cannot be said.
CareInv == \A r \in Room \ orphaned : Cared(r, mgr, db, endpoint, link)

\* One handler moves and nobody stops being connected, leaving or looking for a
\* successor.
LEMMA MovedKeeps ==
    ASSUME NEW r \in Room, NEW e, NEW f, NEW l, NEW k, NEW s \in WebSocket, NEW pc, Moved(e, f, s, pc),
           \/ e[s].pc \in Listed /\ pc \in Listed
           \/ e[s].pc \notin Listed \cup {"left", "amnesty"},
           \A t \in WebSocket : l[t] # "up" => k[t] # "up"
    PROVE  Keeps(r, e, f, l, k)
BY DEF Moved, Keeps, Ended, Listed

LEMMA NewKeeps ==
    ASSUME NEW r \in Room, NEW e, NEW f, NEW l, NEW s \in WebSocket, e[s].pc \in {"new", "accepting"},
           \A t \in WebSocket : t # s => f[t] = e[t]
    PROVE  Keeps(r, e, f, l, l)
BY DEF Keeps, Ended, Listed

LEMMA CareInit ==
    ASSUME RoomsInit
    PROVE  CareInv
BY DEF RoomsInit, CareInv, Cared

LEMMA CareKept ==
    ASSUME RoomsTypeInv, RoomsTypeInv', CareInv, [RoomsNext]_roomsVars
    PROVE  CareInv'
<1> PICK e, m, d, l, o : e = endpoint /\ m = mgr /\ d = db /\ l = link /\ o = orphaned
  OBVIOUS
<1> PICK f, n, x, k : f = endpoint' /\ n = mgr' /\ x = db' /\ k = link'
  OBVIOUS
<1>1. /\ e \in Handlers /\ m \in Manager /\ Placed(e) /\ Sound(m, e)
      /\ f \in Handlers /\ n \in Manager /\ Sound(n, f)
      /\ \A r \in Room \ o : Cared(r, m, d, e, l)
  BY DEF RoomsTypeInv, RoomsTyped, CareInv
<1> SUFFICES ASSUME NEW r \in Room, r \notin orphaned' PROVE Cared(r, n, x, f, k)
  BY DEF CareInv
<1>2. r \notin o => Cared(r, m, d, e, l)
  BY <1>1
<1>3. \A s \in m.rooms[r] : s \in WebSocket /\ e[s].pc \in Listed /\ e[s].room = r
  BY <1>1 DEF Sound, Located, Manager
<1>4. ASSUME r \notin o, Keeps(r, e, f, l, k), n.rooms[r] = m.rooms[r], d.admins[r] \subseteq x.admins[r]
      PROVE  Cared(r, n, x, f, k)
  <2>1. m.rooms[r] \subseteq n.rooms[r] /\ (n.rooms[r] # {} => m.rooms[r] # {})
    BY <1>4
  <2> QED
    BY <1>1, <1>2, <1>4, <2>1, CareStays
<1>5. ASSUME NEW c \in Room \cup User \cup {Lobby}, Relay(c) PROVE Cared(r, n, x, f, k)
  <2>1. PICK dead \in SUBSET WebSocket : Dropped(m, n, dead) /\ \A s \in dead : l[s] # "up"
    BY <1>5, RelayTyped
  <2>2. f = e /\ x = d /\ k = l /\ r \notin o
    BY <1>5 DEF Relay
  <2>3. n.rooms[r] = m.rooms[r] \ dead
    BY <2>1 DEF Dropped
  <2>4. \A s \in m.rooms[r] : s \in n.rooms[r] \/ (e[s].room = r /\ Ended(e, l, s))
    BY <1>3, <2>1, <2>3 DEF Ended
  <2>5. n.rooms[r] # {} => m.rooms[r] # {}
    BY <2>3
  <2> QED
    BY <1>1, <1>2, <2>2, <2>4, <2>5, CareGoesOn
<1>6. ASSUME NEW s \in WebSocket, NEW u \in User, NEW q \in Room, Handshake(s, u, q)
      PROVE  Cared(r, n, x, f, k)
  <2>1. e[s].pc = "new" /\ \A t \in WebSocket : t # s => f[t] = e[t]
    BY <1>6, HandshakeTyped DEF Handshake
  <2>2. n = m /\ x = d /\ k = l /\ r \notin o
    BY <1>6 DEF Handshake
  <2>3. Keeps(r, e, f, l, k)
    BY <2>1, <2>2, NewKeeps
  <2> QED
    BY <1>4, <2>2, <2>3
<1>7. ASSUME NEW s \in WebSocket, NEW u \in User, EnterLobby(s, u) PROVE Cared(r, n, x, f, k)
  <2>1. e[s].pc = "new" /\ n.rooms = m.rooms /\ \A t \in WebSocket : t # s => f[t] = e[t]
    BY <1>7, EnterLobbyTyped DEF EnterLobby
  <2>2. x = d /\ k = l /\ r \notin o
    BY <1>7 DEF EnterLobby
  <2>3. Keeps(r, e, f, l, k)
    BY <2>1, <2>2, NewKeeps
  <2> QED
    BY <1>4, <2>1, <2>2, <2>3
<1>8. ASSUME NEW s \in WebSocket, NEW u \in User, Kick(s, u) PROVE Cared(r, n, x, f, k)
  <2>1. n.rooms = m.rooms /\ x = d /\ k = l /\ r \notin o
    BY <1>8, KickTyped DEF Kick
  <2>2. Keeps(r, e, f, l, k)
    <3>1. CASE f = e
      BY <2>1, <3>1 DEF Keeps
    <3>2. CASE e[s].pc = "open" /\ Moved(e, f, s, "kicking")
      <4>1. e[s].pc \in Listed /\ "kicking" \in Listed
        BY <3>2 DEF Listed
      <4> QED
        BY <2>1, <3>2, <4>1, MovedKeeps
    <3> QED
      BY <1>8, <3>1, <3>2, KickTyped
  <2> QED
    BY <1>4, <2>1, <2>2
<1>9. ASSUME NEW s \in WebSocket, Accept(s) PROVE Cared(r, n, x, f, k)
  <2>1. /\ Moved(e, f, s, "greeting") /\ Connected(m, n, s, e[s].room)
        /\ \A q \in Room : d.admins[q] \subseteq x.admins[q]
        /\ n.rooms[e[s].room] = {s} => e[s].user \in x.admins[e[s].room]
    BY <1>9, AcceptTyped
  <2>2. k = l /\ r \notin o /\ e[s].pc = "accepting"
    BY <1>9 DEF Accept
  <2>3. Keeps(r, e, f, l, k)
    <3>1. \A t \in WebSocket : t # s => f[t] = e[t]
      BY <2>1 DEF Moved
    <3> QED
      BY <2>2, <3>1, NewKeeps
  <2>4. CASE r # e[s].room
    <3>1. n.rooms[r] = m.rooms[r]
      BY <2>1, <2>4 DEF Connected
    <3> QED
      BY <1>4, <2>1, <2>2, <2>3, <3>1
  <2>5. CASE r = e[s].room
    <3>1. n.rooms[r] = m.rooms[r] \cup {s}
      BY <2>1, <2>5 DEF Connected
    <3>2. CASE m.rooms[r] = {}
      <4>1. s \in n.rooms[r] /\ f[s].user = e[s].user /\ e[s].user \in x.admins[r]
        BY <2>1, <2>5, <3>1, <3>2 DEF Moved
      <4> QED
        BY <4>1 DEF Cared
    <3>3. CASE m.rooms[r] # {}
      <4>1. m.rooms[r] \subseteq n.rooms[r] /\ d.admins[r] \subseteq x.admins[r]
        BY <2>1, <3>1
      <4> QED
        BY <1>1, <1>2, <2>2, <2>3, <3>3, <4>1, CareStays
    <3> QED
      BY <3>2, <3>3
  <2> QED
    BY <2>4, <2>5
<1>10. ASSUME NEW s \in WebSocket, Alone(s) PROVE Cared(r, n, x, f, k)
  <2>1. n = m /\ x = d /\ Falls(l, k) /\ r \notin o
    BY <1>10, AloneTyped
  <2>2. PICK pc \in Progress : /\ Moved(e, f, s, pc)
                               /\ (e[s].pc \in Listed /\ pc \in Listed) \/ e[s].pc = "accepting"
    BY <1>10, AloneTyped
  <2>3. /\ (e[s].pc \in Listed /\ pc \in Listed) \/ e[s].pc \notin Listed \cup {"left", "amnesty"}
        /\ \A t \in WebSocket : l[t] # "up" => k[t] # "up"
    BY <2>1, <2>2 DEF Listed, Falls
  <2>4. Keeps(r, e, f, l, k)
    BY <2>2, <2>3, MovedKeeps
  <2> QED
    BY <1>4, <2>1, <2>4
<1>11. ASSUME NEW s \in WebSocket, LeaveLobby(s) PROVE Cared(r, n, x, f, k)
  <2>1. Moved(e, f, s, "gone") /\ Dropped(m, n, {s}) /\ \A q \in Room : s \notin m.rooms[q]
    BY <1>11, LeaveLobbyTyped
  <2>2. e[s].pc = "lobby" /\ x = d /\ k = l /\ r \notin o
    BY <1>11 DEF LeaveLobby
  <2>3. n.rooms[r] = m.rooms[r]
    <3>1. n.rooms[r] = m.rooms[r] \ {s} /\ s \notin m.rooms[r]
      BY <2>1 DEF Dropped
    <3> QED
      BY <3>1
  <2>4. Keeps(r, e, f, l, k)
    BY <2>1, <2>2, MovedKeeps DEF Listed
  <2> QED
    BY <1>4, <2>2, <2>3, <2>4
<1>12. ASSUME NEW s \in WebSocket, CloseTarget(s) PROVE Cared(r, n, x, f, k)
  <2>1. PICK pc \in Listed : Moved(endpoint, endpoint', s, pc)
    BY <1>12, CloseTargetTyped
  <2>2. e[s].pc = "kicking" /\ n = m /\ x = d /\ Falls(l, k) /\ r \notin o
    BY <1>12, CloseTargetTyped
  <2>3. /\ e[s].pc \in Listed /\ Moved(e, f, s, pc)
        /\ \A t \in WebSocket : l[t] # "up" => k[t] # "up"
    BY <2>1, <2>2 DEF Listed, Falls
  <2>4. Keeps(r, e, f, l, k)
    BY <2>3, MovedKeeps
  <2> QED
    BY <1>4, <2>2, <2>4
<1>13. ASSUME NEW s \in WebSocket, LeaveKicked(s) PROVE Cared(r, n, x, f, k)
  <2>1. /\ e[s].pc = "open" /\ Moved(e, f, s, "gone") /\ n.rooms[r] = m.rooms[r] \ {s}
        /\ x.admins = d.admins
    BY <1>13, LeaveKickedTyped
  <2>2. k = l /\ orphaned' = IF e[s].user \in d.admins[e[s].room] THEN o \cup {e[s].room} ELSE o
    BY <1>13 DEF LeaveKicked
  <2>3. r \notin o /\ (e[s].room # r \/ e[s].user \notin d.admins[r])
    BY <2>2
  <2>4. e[s].room # r \/ (e[s].user \notin d.admins[r] /\ e[s].pc # "amnesty")
    BY <2>1, <2>3
  <2>5. Cared(r, m, d, e, l) /\ Sound(m, e) /\ x.admins[r] = d.admins[r]
    BY <1>1, <1>2, <2>1, <2>3
  <2> QED
    BY <1>1, <2>1, <2>2, <2>4, <2>5, CareOfOthers
<1>14. ASSUME NEW s \in WebSocket, Leave(s) PROVE Cared(r, n, x, f, k)
  <2>1. /\ e[s].pc = "open" /\ l[s] # "up" /\ k = l /\ r \notin o /\ Dropped(m, n, {s})
        /\ \/ Moved(e, f, s, "left") /\ x.admins = d.admins
           \/ \E pc \in {"gone", "amnesty"} : /\ Moved(e, f, s, pc)
                                              /\ Handed(d, x, n, e[s].user, e[s].room, pc)
    BY <1>14, LeaveTyped
  <2>2. n.rooms[r] = m.rooms[r] \ {s}
    BY <2>1 DEF Dropped
  <2>3. CASE Moved(e, f, s, "left") /\ x.admins = d.admins
    <3>1. CASE e[s].room # r
      BY <1>1, <1>2, <2>1, <2>2, <2>3, <3>1, CareOfOthers
    <3>2. CASE e[s].room = r
      <4>1. f[s].user = e[s].user /\ f[s].room = r /\ Ended(f, k, s)
        BY <2>3, <3>2 DEF Moved, Ended
      <4>2. \A t \in WebSocket : t # s => f[t] = e[t]
        BY <2>3 DEF Moved
      <4>3. \A t \in m.rooms[r] : e[t].user \in d.admins[r] =>
               f[t].user \in x.admins[r] /\ (t \in n.rooms[r] \/ (f[t].room = r /\ Ended(f, k, t)))
        BY <1>3, <2>2, <2>3, <4>1, <4>2
      <4>4. \A t \in WebSocket : e[t].room = r /\ e[t].pc = "amnesty" => f[t].room = r /\ f[t].pc = "amnesty"
        BY <2>1, <4>2
      <4>5. \A t \in WebSocket : e[t].room = r /\ Ended(e, l, t) /\ e[t].user \in d.admins[r] =>
               f[t].room = r /\ Ended(f, k, t) /\ f[t].user \in x.admins[r]
        BY <2>1, <2>3, <4>1, <4>2 DEF Ended
      <4>6. n.rooms[r] # {} => m.rooms[r] # {}
        BY <2>2
      <4> QED
        BY <1>1, <1>2, <2>1, <4>3, <4>4, <4>5, <4>6, CareGoesOn
    <3> QED
      BY <3>1, <3>2
  <2>4. CASE \E pc \in {"gone", "amnesty"} : /\ Moved(e, f, s, pc)
                                             /\ Handed(d, x, n, e[s].user, e[s].room, pc)
    <3>1. PICK pc \in {"gone", "amnesty"} : /\ Moved(e, f, s, pc)
                                            /\ Handed(d, x, n, e[s].user, e[s].room, pc)
      BY <2>4
    <3>2. Cared(r, m, d, e, l) /\ e[s].pc # "amnesty"
      BY <1>2, <2>1
    <3> QED
      BY <1>1, <2>1, <2>2, <3>1, <3>2, CareHanded
  <2> QED
    BY <2>1, <2>3, <2>4
<1>15. ASSUME NEW s \in WebSocket, StepDown(s) PROVE Cared(r, n, x, f, k)
  <2>1. /\ e[s].pc = "left" /\ n = m /\ k = l /\ r \notin o
        /\ \E pc \in {"gone", "amnesty"} : /\ Moved(e, f, s, pc)
                                           /\ Handed(d, x, n, e[s].user, e[s].room, pc)
    BY <1>15, StepDownTyped
  <2>2. n.rooms[r] = m.rooms[r] \ {s}
    BY <1>3, <2>1 DEF Listed
  <2>3. PICK pc \in {"gone", "amnesty"} : /\ Moved(e, f, s, pc)
                                          /\ Handed(d, x, n, e[s].user, e[s].room, pc)
    BY <2>1
  <2>4. Cared(r, m, d, e, l) /\ e[s].pc # "amnesty"
    BY <1>2, <2>1
  <2> QED
    BY <1>1, <2>1, <2>2, <2>3, <2>4, CareHanded
<1>16. ASSUME NEW s \in WebSocket, FindSuccessor(s) PROVE Cared(r, n, x, f, k)
  <2>1. /\ e[s].pc = "amnesty" /\ n = m /\ k = l /\ r \notin o /\ e[s].room \in Room
        /\ Moved(e, f, s, "gone")
        /\ Appoints(d, x, e[s].room, d.admins[e[s].room] \cup GetAdminSuccessor(m, e[s].room))
    BY <1>16, FindSuccessorTyped
  <2>2. CASE e[s].room # r
    <3>1. x.admins[r] = d.admins[r]
      BY <2>1, <2>2 DEF Appoints
    <3>2. n.rooms[r] = m.rooms[r] \ {s}
      BY <1>3, <2>1 DEF Listed
    <3>3. Cared(r, m, d, e, l) /\ Sound(m, e) /\ Moved(e, f, s, "gone")
      BY <1>1, <1>2, <2>1
    <3>4. e[s].room # r \/ (e[s].user \notin d.admins[r] /\ e[s].pc # "amnesty")
      BY <2>2
    <3>5. Cared(r, n, x, f, l)
      BY <1>1, <3>1, <3>2, <3>3, <3>4, CareOfOthers
    <3> QED
      BY <2>1, <3>5
  <2>3. CASE e[s].room = r
    <3>1. x.admins[r] = d.admins[r] \cup GetAdminSuccessor(n, r)
      BY <2>1, <2>3 DEF Appoints
    <3> QED
      BY <1>1, <3>1, SuccessorCares
  <2> QED
    BY <2>2, <2>3
<1>17. CASE Outside
  <2>1. /\ n = m /\ f = e /\ r \notin o /\ d.admins[r] \subseteq x.admins[r]
        /\ \A t \in WebSocket : l[t] # "up" => k[t] # "up"
    BY <1>17, OutsideTyped
  <2>2. Keeps(r, e, f, l, k)
    BY <2>1 DEF Keeps, Ended
  <2> QED
    BY <1>4, <2>1, <2>2
<1>18. CASE UNCHANGED roomsVars
  BY <1>2, <1>18 DEF roomsVars
<1>19. ASSUME NEW s \in WebSocket, LobbyFails(s) PROVE Cared(r, n, x, f, k)
  <2>1. /\ e[s].pc = "lobby" /\ Moved(e, f, s, "stray") /\ n = m /\ x = d /\ Falls(l, k) /\ r \notin o
    BY <1>19, LobbyFailsTyped
  <2>2. e[s].pc \notin Listed \cup {"left", "amnesty"} /\ \A t \in WebSocket : l[t] # "up" => k[t] # "up"
    BY <2>1 DEF Listed, Falls
  <2>3. Keeps(r, e, f, l, k)
    BY <2>1, <2>2, MovedKeeps
  <2> QED
    BY <1>4, <2>1, <2>3
<1>20. ASSUME NEW s \in WebSocket, RoomSteps(s) PROVE Cared(r, n, x, f, k)
  BY <1>9, <1>10, <1>11, <1>12, <1>13, <1>14, <1>15, <1>16, <1>19, <1>20 DEF RoomSteps
<1> QED
  BY <1>5, <1>6, <1>7, <1>8, <1>17, <1>18, <1>20, RoomsNextIs

\* The room of an endpoint that crashed is among those of which nothing is said.
CrashInv == \A s \in WebSocket : endpoint[s].pc = "crashed" => endpoint[s].room \in orphaned

LEMMA CrashInit ==
    ASSUME RoomsInit
    PROVE  CrashInv
BY DEF RoomsInit, CrashInv

\* One handler moves, and leaves its room behind if it crashes.
LEMMA MovedCrash ==
    ASSUME CrashInv, NEW s \in WebSocket, NEW pc, Moved(endpoint, endpoint', s, pc),
           orphaned \subseteq orphaned', endpoint'[s].pc = "crashed" => endpoint[s].room \in orphaned'
    PROVE  CrashInv'
<1> SUFFICES ASSUME NEW t \in WebSocket, endpoint'[t].pc = "crashed"
             PROVE  endpoint'[t].room \in orphaned'
  BY DEF CrashInv
<1>1. CASE t = s
  BY <1>1 DEF Moved
<1>2. CASE t # s
  BY <1>2 DEF Moved, CrashInv
<1> QED
  BY <1>1, <1>2

LEMMA CrashKept ==
    ASSUME RoomsTypeInv, CrashInv, [RoomsNext]_roomsVars
    PROVE  CrashInv'
<1>1. ASSUME endpoint' = endpoint, orphaned \subseteq orphaned' PROVE CrashInv'
  BY <1>1 DEF CrashInv
<1>2. ASSUME NEW s \in WebSocket, NEW p, p # "crashed", endpoint'[s].pc = p,
             \A t \in WebSocket : t # s => endpoint'[t] = endpoint[t], orphaned \subseteq orphaned'
      PROVE  CrashInv'
  BY <1>2 DEF CrashInv
<1>3. ASSUME NEW s \in WebSocket, NEW p, p # "crashed", Moved(endpoint, endpoint', s, p), orphaned \subseteq orphaned'
      PROVE  CrashInv'
  <2>1. endpoint'[s].pc # "crashed"
    BY <1>3 DEF Moved
  <2> QED
    BY <1>3, <2>1, MovedCrash
<1>4. ASSUME NEW c \in Room \cup User \cup {Lobby}, Relay(c) PROVE CrashInv'
  BY <1>1, <1>4 DEF Relay
<1>5. ASSUME NEW s \in WebSocket, NEW u \in User, NEW r \in Room, Handshake(s, u, r) PROVE CrashInv'
  <2>1. orphaned' = orphaned /\ \A t \in WebSocket : t # s => endpoint'[t] = endpoint[t]
    BY <1>5, HandshakeTyped DEF Handshake
  <2>2. endpoint'[s].pc = "accepting"
    BY <1>5 DEF Handshake, RoomsTypeInv, RoomsTyped, Handlers, Endpoint
  <2> QED
    BY <1>2, <2>1, <2>2
<1>6. ASSUME NEW s \in WebSocket, NEW u \in User, EnterLobby(s, u) PROVE CrashInv'
  <2>1. orphaned' = orphaned /\ endpoint'[s].pc = "lobby" /\ \A t \in WebSocket : t # s => endpoint'[t] = endpoint[t]
    BY <1>6, EnterLobbyTyped DEF EnterLobby
  <2> QED
    BY <1>2, <2>1
<1>7. ASSUME NEW s \in WebSocket, NEW u \in User, Kick(s, u) PROVE CrashInv'
  <2>1. orphaned' = orphaned /\ (endpoint' = endpoint \/ Moved(endpoint, endpoint', s, "kicking"))
    BY <1>7, KickTyped DEF Kick
  <2> QED
    BY <1>1, <1>3, <2>1
<1>8. ASSUME NEW s \in WebSocket, RoomSteps(s) PROVE CrashInv'
  <2>1. CASE Accept(s)
    BY <1>3, <2>1, AcceptTyped DEF Accept
  <2>2. CASE Alone(s)
    <3>1. CASE AcceptFails(s) \/ Greet(s)
      <4>1. \E pc \in {"gone", "open"} : GoesTo(s, pc)
        BY <3>1 DEF AcceptFails, Greet
      <4>2. PICK pc \in {"gone", "open"} : Moved(endpoint, endpoint', s, pc)
        BY <4>1, GoesToMoves DEF GoesTo, Progress, RoomsTypeInv, RoomsTyped
      <4> QED
        BY <1>3, <2>2, <4>2, AloneTyped
    <3>2. CASE GreetFails(s) \/ ReceiveFails(s)
      <4>1. GoesTo(s, "crashed") /\ Abandons(s)
        BY <3>2 DEF GreetFails, ReceiveFails, Crashes
      <4>2. Moved(endpoint, endpoint', s, "crashed")
        BY <4>1, GoesToMoves DEF GoesTo, Progress, RoomsTypeInv, RoomsTyped
      <4> QED
        BY <2>2, <4>1, <4>2, AloneTyped, MovedCrash DEF Abandons
    <3> QED
      BY <2>2, <3>1, <3>2 DEF Alone
  <2>3. CASE LeaveLobby(s)
    BY <1>3, <2>3, LeaveLobbyTyped DEF LeaveLobby
  <2>4. CASE LobbyFails(s)
    BY <1>3, <2>4, LobbyFailsTyped
  <2>5. CASE CloseTarget(s)
    <3>1. PICK pc \in Listed : Moved(endpoint, endpoint', s, pc)
      BY <2>5, CloseTargetTyped
    <3>2. orphaned \subseteq orphaned' /\ (endpoint'[s].pc = "crashed" => endpoint[s].room \in orphaned')
      BY <2>5, CloseTargetTyped
    <3> QED
      BY <3>1, <3>2, MovedCrash
  <2>6. CASE LeaveKicked(s)
    <3>1. orphaned \subseteq orphaned'
      BY <2>6 DEF LeaveKicked
    <3> QED
      BY <1>3, <2>6, <3>1, LeaveKickedTyped
  <2>7. CASE Leave(s)
    <3>1. \E p \in {"gone", "left", "amnesty"} : Moved(endpoint, endpoint', s, p)
      BY <2>7, LeaveTyped
    <3>2. orphaned' = orphaned
      BY <2>7 DEF Leave, Succession
    <3> QED
      BY <1>3, <3>1, <3>2
  <2>8. CASE StepDown(s)
    <3>1. \E p \in {"gone", "amnesty"} : Moved(endpoint, endpoint', s, p)
      BY <2>8, StepDownTyped
    <3>2. orphaned' = orphaned
      BY <2>8 DEF StepDown, Succession
    <3> QED
      BY <1>3, <3>1, <3>2
  <2>9. CASE FindSuccessor(s)
    BY <1>3, <2>9, FindSuccessorTyped DEF FindSuccessor
  <2> QED
    BY <1>8, <2>1, <2>2, <2>3, <2>4, <2>5, <2>6, <2>7, <2>8, <2>9 DEF RoomSteps
<1>9. CASE Outside
  BY <1>1, <1>9, OutsideTyped
<1>10. CASE UNCHANGED roomsVars
  BY <1>1, <1>10 DEF roomsVars
<1> QED
  BY <1>4, <1>5, <1>6, <1>7, <1>8, <1>9, <1>10, RoomsNextIs

LEMMA CareGivesAdmin ==
    ASSUME RoomsTypeInv, CareInv, CrashInv
    PROVE  RoomHasAdmin
<1> SUFFICES ASSUME NEW r \in Room, r \notin orphaned, NobodyLeaving(r), mgr.rooms[r] # {}
             PROVE  GetUsersInRoom(mgr, r) \cap db.admins[r] # {}
  BY DEF RoomHasAdmin
<1>1. Cared(r, mgr, db, endpoint, link) /\ Sound(mgr, endpoint)
  BY DEF CareInv, RoomsTypeInv, RoomsTyped
<1>2. \A s \in WebSocket : endpoint[s].room = r =>
         endpoint[s].pc # "amnesty" /\ ~Ended(endpoint, link, s)
  BY DEF NobodyLeaving, Ended, CrashInv, Listed, Registered
<1>3. PICK s \in mgr.rooms[r] : endpoint[s].user \in db.admins[r]
  BY <1>1, <1>2 DEF Cared
<1>4. mgr.socketToUser[s] = endpoint[s].user
  BY <1>1 DEF Sound, Located
<1> QED
  BY <1>3, <1>4 DEF GetUsersInRoom

\* A room in which somebody is connected has a connected admin, once everybody
\* who left it has left: promotion on joining and succession on leaving leave no
\* room to itself, in any interleaving, but for the rooms counted as orphaned.
THEOREM RoomHasAdminCorrect == RoomsSpec => []RoomHasAdmin
<1>1. RoomsInit => CareInv
  BY CareInit
<1>2. RoomsTypeInv /\ RoomsTypeInv' /\ CareInv /\ [RoomsNext]_roomsVars => CareInv'
  BY CareKept
<1>3. RoomsInit => CrashInv
  BY CrashInit
<1>4. RoomsTypeInv /\ CrashInv /\ [RoomsNext]_roomsVars => CrashInv'
  BY CrashKept
<1>5. RoomsTypeInv /\ CareInv /\ CrashInv => RoomHasAdmin
  BY CareGivesAdmin
<1> QED
  BY <1>1, <1>2, <1>3, <1>4, <1>5, RoomsTypeInvariant, PTL DEF RoomsSpec

----------------------------------------------------------------------------
(* Messages: sequences of them.                                            *)

LEMMA AppendKeeps ==
    ASSUME NEW S, NEW l \in Seq(S), NEW m \in S
    PROVE  /\ Append(l, m) \in Seq(S) /\ Len(Append(l, m)) = Len(l) + 1
           /\ Append(l, m)[Len(l) + 1] = m
           /\ \A i \in 1..Len(l) : Append(l, m)[i] = l[i]
OBVIOUS

----------------------------------------------------------------------------
(* Types.                                                                  *)

\* A handler that is not reading has a message; a consumer that does not read
\* has none, and there is none while the process is down.
HandsOK ==
    /\ \A c \in Socket : handler[c].pc # "reading" => handler[c].message \in Message
    /\ consumer.pc \in {"off", "connecting"} => consumer.message = NoMessage
    /\ server = "down" => consumer.pc = "off"

TypeInv == TypeOK /\ HandsOK

ConsumerSpace(M) ==
    [pc : {"off", "connecting", "polling", "processing", "giving up", "closing"},
     position : [Topic -> Nat], topic : Topic, message : M, attempt : 0..MaxRetries]

Entry == [by : Socket, topic : Topic, at : Nat]

LEMMA Sizes ==
    ASSUME TypeInv
    PROVE  /\ clock \in Nat /\ Len(sent) \in Nat /\ Len(sent) <= MaxMessages /\ MaxMessages \in Nat
           /\ MaxRetries \in Nat \ {0} /\ NoMessage \notin Message
           /\ \A m \in Message : TopicOf(m) \in Topic /\ sent[m].at \in Nat
           /\ \A t \in Topic : /\ Len(log[t]) \in Nat /\ committed[t] \in Nat
                               /\ consumer.position[t] \in Nat
                               /\ \A i \in 1..Len(log[t]) : log[t][i] \in Message
<1>1. /\ clock \in Nat /\ Len(sent) <= MaxMessages /\ MaxMessages \in Nat
      /\ MaxRetries \in Nat \ {0} /\ NoMessage \notin Message
  <2>1. clock \in Nat /\ Len(sent) <= MaxMessages
    BY DEF TypeInv, TypeOK
  <2>2. NoMessage \notin Message
    BY DEF Message, NoMessage
  <2> QED
    BY <2>1, <2>2, MessagesAssumption
<1>2. sent \in Seq(Entry)
  BY DEF TypeInv, TypeOK, Entry
<1>3. Len(sent) \in Nat /\ \A m \in Message : sent[m] \in Entry
  BY <1>2, LenProperties, ElementOfSeq DEF Message
<1>4. \A t \in Topic : committed[t] \in Nat /\ consumer.position[t] \in Nat
  BY DEF TypeInv, TypeOK
<1>5. \A t \in Topic : log[t] \in Seq(Message)
  BY DEF TypeInv, TypeOK
<1>6. \A t \in Topic : Len(log[t]) \in Nat /\ \A i \in 1..Len(log[t]) : log[t][i] \in Message
  BY <1>5, LenProperties, ElementOfSeq
<1> QED
  BY <1>1, <1>3, <1>4, <1>6 DEF Entry, TopicOf

LEMMA ReceiveTyped ==
    ASSUME TypeInv, NEW c \in Socket, NEW t \in Topic, Receive(c, t)
    PROVE  /\ TypeInv' /\ Message \subseteq Message'
           /\ \A m \in Message : sent'[m] = sent[m]
<1> DEFINE x == [by |-> c, topic |-> t, at |-> clock + 1]
<1>1. /\ sent' = Append(sent, x) /\ Len(sent) < MaxMessages
      /\ handler' = [handler EXCEPT ![c] = [pc |-> "producing", message |-> Len(sent) + 1]]
      /\ clock' = clock + 1
      /\ UNCHANGED <<server, producer, consumer, broker, rows, ghosts, faults>>
  BY DEF Receive
<1>2. x \in Entry
  BY Sizes DEF Entry
<1> HIDE DEF x
<1>3. /\ sent' \in Seq(Entry) /\ Len(sent') = Len(sent) + 1
      /\ \A m \in 1..Len(sent) : sent'[m] = sent[m]
  <2>1. sent \in Seq(Entry)
    BY DEF TypeInv, TypeOK, Entry
  <2> QED
    BY <1>1, <1>2, <2>1, AppendKeeps
<1>4. Message \subseteq Message' /\ Len(sent) + 1 \in Message' /\ Len(sent') <= MaxMessages
  BY <1>1, <1>3, Sizes DEF Message
<1>5. log' \in [Topic -> Seq(Message')]
  <2>1. \A u \in Topic : log[u] \in Seq(Message')
    BY <1>4, SeqMonotonic DEF TypeInv, TypeOK
  <2> QED
    BY <1>1, <2>1 DEF TypeInv, TypeOK, broker
<1>6. handler' \in [Socket -> [pc : Step, message : Message' \cup {NoMessage}]]
  BY <1>1, <1>4 DEF TypeInv, TypeOK, Step
<1>7. TypeOK'
  <2>1. clock' \in Nat /\ Len(sent') <= MaxMessages
    BY <1>1, <1>4, Sizes
  <2>2. /\ dlq' \subseteq Message' /\ (shown \cup lapsed \cup doubtful)' \subseteq Message'
        /\ rows' \subseteq [message : Message', id : Message' \cup {NoMessage}, at : Nat]
    BY <1>1, <1>4 DEF TypeInv, TypeOK, broker, ghosts
  <2>3. /\ consumer' \in ConsumerSpace(Message' \cup {NoMessage})
        /\ (consumer.pc \in {"processing", "giving up"} => consumer.message \in Message)'
        /\ (consumer.pc = "polling" => consumer.message = NoMessage)'
    BY <1>1, <1>4 DEF TypeInv, TypeOK, ConsumerSpace
  <2>4. /\ faults' \in 0..MaxFaults /\ producer' \in BOOLEAN /\ server' \in {"up", "stopping", "down"}
        /\ committed' \in [Topic -> Nat]
        /\ \A u \in Topic : committed'[u] <= Len(log'[u]) /\ consumer'.position[u] <= Len(log'[u])
    BY <1>1 DEF TypeInv, TypeOK, broker
  <2> QED
    BY <1>3, <1>5, <1>6, <2>1, <2>2, <2>3, <2>4 DEF TypeOK, ConsumerSpace, Entry
<1>8. HandsOK'
  BY <1>1, <1>4 DEF TypeInv, TypeOK, HandsOK
<1> QED
  BY <1>3, <1>4, <1>7, <1>8 DEF TypeInv, Message

----------------------------------------------------------------------------
(* The handlers.                                                           *)

LEMMA HandlerTyped ==
    ASSUME TypeInv, NEW c \in Socket, ~At(c, "reading")
    PROVE  handler[c].message \in Message /\ handler[c].pc \in Step
<1>1. handler[c].pc \in Step
  BY DEF TypeInv, TypeOK
<1>2. handler[c].pc # "reading"
  BY DEF At
<1> QED
  BY <1>1, <1>2 DEF TypeInv, HandsOK

LEMMA ThenTyped ==
    ASSUME TypeInv, NEW c \in Socket, ~At(c, "reading"), UNCHANGED sent,
           NEW pc \in {"showing", "crashed"}, Then(c, pc)
    PROVE  /\ handler' \in [Socket -> [pc : Step, message : Message \cup {NoMessage}]]
           /\ \A d \in Socket : /\ handler'[d].message = handler[d].message
                               /\ handler'[d].pc = IF d = c THEN pc ELSE handler[d].pc
<1>1. handler[c] \in [pc : Step, message : Message \cup {NoMessage}]
  BY DEF TypeInv, TypeOK
<1>2. [handler[c] EXCEPT !.pc = pc] = [pc |-> pc, message |-> handler[c].message]
  BY <1>1
<1>3. handler' = [handler EXCEPT ![c] = [pc |-> pc, message |-> handler[c].message]]
  BY <1>2 DEF Then
<1>4. [pc |-> pc, message |-> handler[c].message] \in [pc : Step, message : Message \cup {NoMessage}]
  BY <1>1 DEF Step
<1>5. handler' \in [Socket -> [pc : Step, message : Message \cup {NoMessage}]]
  BY <1>3, <1>4 DEF TypeInv, TypeOK
<1>6. \A d \in Socket : handler'[d] = IF d = c THEN [pc |-> pc, message |-> handler[c].message]
                                      ELSE handler[d]
  BY <1>3 DEF TypeInv, TypeOK
<1> QED
  BY <1>5, <1>6

\* What producing a message may do to the topics: it is appended to its own.
LEMMA AppendedKeeps ==
    ASSUME TypeInv, NEW m \in Message, Appended(m)
    PROVE  /\ log' \in [Topic -> Seq(Message)]
           /\ \A t \in Topic :
                 /\ Len(log'[t]) = IF t = TopicOf(m) THEN Len(log[t]) + 1 ELSE Len(log[t])
                 /\ \A i \in 1..Len(log[t]) : log'[t][i] = log[t][i]
           /\ log'[TopicOf(m)][Len(log[TopicOf(m)]) + 1] = m
<1>1. TopicOf(m) \in Topic /\ \A t \in Topic : log[t] \in Seq(Message)
  BY Sizes DEF TypeInv, TypeOK
<1>2. log' = [log EXCEPT ![TopicOf(m)] = Append(log[TopicOf(m)], m)]
  BY DEF Appended
<1>3. \A t \in Topic : log'[t] = IF t = TopicOf(m) THEN Append(log[t], m) ELSE log[t]
  BY <1>2 DEF TypeInv, TypeOK
<1>4. \A t \in Topic : Append(log[t], m) \in Seq(Message)
  BY <1>1, AppendKeeps
<1>5. log' \in [Topic -> Seq(Message)]
  BY <1>1, <1>2, <1>4 DEF TypeInv, TypeOK
<1>6. \A t \in Topic : /\ Len(Append(log[t], m)) = Len(log[t]) + 1
                      /\ Append(log[t], m)[Len(log[t]) + 1] = m
                      /\ \A i \in 1..Len(log[t]) : Append(log[t], m)[i] = log[t][i]
  BY <1>1, AppendKeeps
<1> QED
  BY <1>1, <1>3, <1>5, <1>6

\* The topics, if anything, have grown.
Grown == \A t \in Topic : /\ Len(log'[t]) >= Len(log[t])
                         /\ \A i \in 1..Len(log[t]) : log'[t][i] = log[t][i]

Produces(c) == KafkaProduce(c) \/ SaveMessage(c) \/ NotProduced(c)

LEMMA ProducesMoves ==
    ASSUME TypeInv, NEW c \in Socket, Produces(c)
    PROVE  /\ handler[c].pc = "producing" /\ handler[c].message \in Message
           /\ Appended(handler[c].message) \/ UNCHANGED log
           /\ \E pc \in {"showing", "crashed"} : Then(c, pc)
           /\ doubtful' \in {doubtful, doubtful \cup {handler[c].message}}
           /\ clock' \in {clock, clock + 1} /\ rows \subseteq rows'
           /\ rows' \in {rows, rows \cup {[message |-> handler[c].message, id |-> NoMessage,
                                          at |-> clock + 1]}}
           /\ UNCHANGED <<sent, server, producer, consumer, dlq, committed, shown, lapsed, faults>>
<1>1. handler[c].pc = "producing" /\ handler[c].message \in Message
  BY HandlerTyped DEF Produces, KafkaProduce, SaveMessage, NotProduced, HandleChatMessage,
     HandlePrivateMessage, At
<1>2. CASE KafkaProduce(c)
  BY <1>1, <1>2 DEF KafkaProduce, ghosts
<1>3. CASE SaveMessage(c)
  BY <1>1, <1>3 DEF SaveMessage, ProduceFails, Create
<1>4. CASE NotProduced(c)
  BY <1>1, <1>4 DEF NotProduced, ProduceFails
<1> QED
  BY <1>2, <1>3, <1>4 DEF Produces

LEMMA ProducesTyped ==
    ASSUME TypeInv, NEW c \in Socket, Produces(c)
    PROVE  TypeInv' /\ Grown
<1>1. /\ ~At(c, "reading") /\ handler[c].message \in Message
      /\ UNCHANGED <<sent, server, producer, consumer, dlq, committed, shown, lapsed, faults>>
  BY ProducesMoves DEF At
<1>2. log' \in [Topic -> Seq(Message)] /\ Grown
  <2>1. \A t \in Topic : Len(log[t]) \in Nat
    BY Sizes
  <2>2. CASE Appended(handler[c].message)
    <3>1. /\ log' \in [Topic -> Seq(Message)]
          /\ \A t \in Topic : /\ Len(log'[t]) \in {Len(log[t]), Len(log[t]) + 1}
                              /\ \A i \in 1..Len(log[t]) : log'[t][i] = log[t][i]
      BY <1>1, <2>2, AppendedKeeps
    <3> QED
      BY <2>1, <3>1 DEF Grown
  <2>3. CASE UNCHANGED log
    <3>1. log \in [Topic -> Seq(Message)]
      BY DEF TypeInv, TypeOK
    <3> QED
      BY <2>1, <2>3, <3>1 DEF Grown
  <2> QED
    BY <2>2, <2>3, ProducesMoves
<1>3. PICK pc \in {"showing", "crashed"} : Then(c, pc)
  BY ProducesMoves
<1>4. /\ handler' \in [Socket -> [pc : Step, message : Message \cup {NoMessage}]]
      /\ \A d \in Socket : handler'[d].pc # "reading" => handler'[d].message \in Message
  BY <1>1, <1>3, ThenTyped DEF TypeInv, HandsOK
<1>5. clock' \in Nat /\ clock + 1 \in Nat
  BY ProducesMoves, Sizes
<1>6. /\ doubtful' \subseteq Message
      /\ rows' \subseteq [message : Message, id : Message \cup {NoMessage}, at : Nat]
  <2>1. [message |-> handler[c].message, id |-> NoMessage, at |-> clock + 1]
           \in [message : Message, id : Message \cup {NoMessage}, at : Nat]
    BY <1>1, <1>5
  <2>2. /\ doubtful \subseteq Message
        /\ rows \subseteq [message : Message, id : Message \cup {NoMessage}, at : Nat]
    BY DEF TypeInv, TypeOK
  <2> QED
    BY <1>1, <2>1, <2>2, ProducesMoves
<1>7. \A t \in Topic : committed[t] <= Len(log'[t]) /\ consumer.position[t] <= Len(log'[t])
  <2>1. \A t \in Topic : Len(log'[t]) \in Nat
    BY <1>2, LenProperties
  <2>2. \A t \in Topic : committed[t] <= Len(log[t]) /\ consumer.position[t] <= Len(log[t])
    BY DEF TypeInv, TypeOK
  <2>3. \A t \in Topic : Len(log[t]) \in Nat /\ committed[t] \in Nat /\ consumer.position[t] \in Nat
    BY Sizes
  <2> QED
    BY <1>2, <2>1, <2>2, <2>3 DEF Grown
<1>8. Message' = Message
  BY <1>1 DEF Message
<1>9. TypeOK'
  BY <1>1, <1>2, <1>4, <1>5, <1>6, <1>7, <1>8 DEF TypeInv, TypeOK
<1>10. HandsOK'
  BY <1>1, <1>4, <1>8 DEF TypeInv, HandsOK
<1> QED
  BY <1>2, <1>9, <1>10 DEF TypeInv

LEMMA BroadcastTyped ==
    ASSUME TypeInv, NEW c \in Socket, Broadcast(c)
    PROVE  TypeInv'
<1>1. handler[c].message \in Message
  BY HandlerTyped DEF Broadcast, At
<1>2. UNCHANGED <<clock, sent, server, producer, consumer, broker, rows, lapsed, doubtful, faults>>
      /\ shown' = shown \cup {handler[c].message} /\ handler' = [handler EXCEPT ![c] = Idle]
      /\ Message' = Message
  BY DEF Broadcast, Message
<1>3. handler' \in [Socket -> [pc : Step, message : Message \cup {NoMessage}]]
  BY <1>2 DEF TypeInv, TypeOK, Idle, Step
<1>4. \A d \in Socket : handler'[d].pc # "reading" => handler'[d].message \in Message
  BY <1>2 DEF TypeInv, TypeOK, HandsOK, Idle
<1> QED
  BY <1>1, <1>2, <1>3, <1>4 DEF TypeInv, TypeOK, HandsOK, broker

----------------------------------------------------------------------------
(* The consumer.                                                           *)

Held == Message \cup {NoMessage}

LEMMA ConsumerTyped ==
    ASSUME TypeInv
    PROVE  consumer \in ConsumerSpace(Held) /\ log \in [Topic -> Seq(Message)]
BY DEF TypeInv, TypeOK, ConsumerSpace, Held

\* The field pc changes.
LEMMA ConsumerMoves ==
    ASSUME TypeInv,
           NEW pc \in {"off", "connecting", "polling", "processing", "giving up", "closing"}
    PROVE  /\ [consumer EXCEPT !.pc = pc] \in ConsumerSpace(Held)
           /\ [consumer EXCEPT !.pc = pc].pc = pc
           /\ [consumer EXCEPT !.pc = pc].message = consumer.message
           /\ [consumer EXCEPT !.pc = pc].topic = consumer.topic
           /\ [consumer EXCEPT !.pc = pc].position = consumer.position
<1>1. PICK x, H : x = consumer /\ H = Held
  OBVIOUS
<1>2. x \in ConsumerSpace(H)
  BY <1>1, ConsumerTyped
<1>3. /\ [x EXCEPT !.pc = pc] \in ConsumerSpace(H) /\ [x EXCEPT !.pc = pc].pc = pc
      /\ [x EXCEPT !.pc = pc].message = x.message /\ [x EXCEPT !.pc = pc].topic = x.topic
      /\ [x EXCEPT !.pc = pc].position = x.position
  BY <1>2 DEF ConsumerSpace
<1> QED
  BY <1>1, <1>3

LEMMA OffTyped ==
    ASSUME NEW M, NoMessage \in M
    PROVE  Off \in ConsumerSpace(M) /\ Off.pc = "off" /\ Off.message = NoMessage
           /\ \A t \in Topic : Off.position[t] = 0
BY MessagesAssumption DEF ConsumerSpace, Off, Topic

LEMMA FromOff ==
    ASSUME NEW pc \in {"connecting", "off"}
    PROVE  /\ [Off EXCEPT !.pc = pc] \in ConsumerSpace(Held) /\ [Off EXCEPT !.pc = pc].pc = pc
           /\ [Off EXCEPT !.pc = pc].message = NoMessage
           /\ \A t \in Topic : [Off EXCEPT !.pc = pc].position[t] = 0
<1>1. [Off EXCEPT !.pc = pc] = [pc |-> pc, position |-> [t \in Topic |-> 0], topic |-> "messages",
                               message |-> NoMessage, attempt |-> 0]
  BY DEF Off
<1>2. /\ [t \in Topic |-> 0] \in [Topic -> Nat] /\ "messages" \in Topic /\ NoMessage \in Held
      /\ 0 \in 0..MaxRetries
  BY MessagesAssumption DEF Topic, Held
<1>3. PICK o : o = [Off EXCEPT !.pc = pc]
  OBVIOUS
<1>4. o.pc = pc /\ o.message = NoMessage /\ \A t \in Topic : o.position[t] = 0
  BY <1>1, <1>3
<1>5. o \in ConsumerSpace(Held)
  BY <1>1, <1>2, <1>3 DEF ConsumerSpace
<1> QED
  BY <1>3, <1>4, <1>5

\* A consumer that begins to read, takes a message, and is done with it.
LEMMA CreatedIs ==
    ASSUME TypeInv
    PROVE  /\ [consumer EXCEPT !.pc = "polling", !.position = committed] \in ConsumerSpace(Held)
           /\ [consumer EXCEPT !.pc = "polling", !.position = committed].pc = "polling"
           /\ [consumer EXCEPT !.pc = "polling", !.position = committed].message = consumer.message
           /\ [consumer EXCEPT !.pc = "polling", !.position = committed].position = committed
<1> DEFINE x == [consumer EXCEPT !.pc = "polling"]
<1>1. x \in ConsumerSpace(Held) /\ x.pc = "polling" /\ x.message = consumer.message
  BY ConsumerMoves
<1>2. [consumer EXCEPT !.pc = "polling", !.position = committed] = [x EXCEPT !.position = committed]
  BY ConsumerTyped DEF ConsumerSpace
<1>3. committed \in [Topic -> Nat]
  BY DEF TypeInv, TypeOK
<1> HIDE DEF x
<1>4. /\ [x EXCEPT !.position = committed] \in ConsumerSpace(Held)
      /\ [x EXCEPT !.position = committed].pc = x.pc
      /\ [x EXCEPT !.position = committed].message = x.message
      /\ [x EXCEPT !.position = committed].position = committed
  BY <1>1, <1>3 DEF ConsumerSpace
<1> QED
  BY <1>1, <1>2, <1>4

LEMMA PollingIs ==
    ASSUME TypeInv
    PROVE  /\ Polling \in ConsumerSpace(Held) /\ Polling.pc = "polling"
           /\ Polling.message = NoMessage /\ Polling.position = consumer.position
<1> DEFINE x == [consumer EXCEPT !.pc = "polling"]
           y == [x EXCEPT !.message = NoMessage]
<1>1. x \in ConsumerSpace(Held) /\ x.pc = "polling" /\ x.position = consumer.position
  BY ConsumerMoves
<1>2. Polling = [y EXCEPT !.attempt = 0]
  BY ConsumerTyped DEF ConsumerSpace, Polling
<1> HIDE DEF x
<1>3. /\ y \in ConsumerSpace(Held) /\ y.pc = "polling" /\ y.message = NoMessage
      /\ y.position = consumer.position
  <2>1. NoMessage \in Held
    BY DEF Held
  <2> QED
    BY <1>1, <2>1 DEF ConsumerSpace
<1> HIDE DEF y
<1>4. [y EXCEPT !.attempt = 0] \in ConsumerSpace(Held)
  <2>1. 0 \in 0..MaxRetries
    BY MessagesAssumption
  <2> QED
    BY <1>3, <2>1 DEF ConsumerSpace
<1>5. /\ [y EXCEPT !.attempt = 0].pc = y.pc /\ [y EXCEPT !.attempt = 0].message = y.message
      /\ [y EXCEPT !.attempt = 0].position = y.position
  BY <1>3 DEF ConsumerSpace
<1> QED
  BY <1>2, <1>3, <1>4, <1>5

\* A step of the consumer or of the process, after which its parts are typed.
LEMMA StepTyped ==
    ASSUME TypeInv, UNCHANGED <<sent, shown, doubtful>>,
           log' = log, clock' = clock,
           handler' = handler \/ handler' = [c \in Socket |-> Idle],
           producer' \in BOOLEAN, server' \in {"up", "stopping", "down"}, faults' \in 0..MaxFaults,
           consumer' \in ConsumerSpace(Held),
           consumer'.pc \in {"processing", "giving up"} => consumer'.message \in Message,
           consumer'.pc \in {"off", "connecting", "polling"} => consumer'.message = NoMessage,
           server' = "down" => consumer'.pc = "off",
           committed' \in [Topic -> Nat],
           \A t \in Topic : committed'[t] <= Len(log[t]) /\ consumer'.position[t] <= Len(log[t]),
           dlq' \subseteq Message, lapsed' \subseteq Message,
           rows' \subseteq [message : Message, id : Held, at : Nat]
    PROVE  TypeInv'
<1>1. Message' = Message /\ Held' = Held
  BY DEF Message, Held
<1>2. /\ handler' \in [Socket -> [pc : Step, message : Message \cup {NoMessage}]]
      /\ \A c \in Socket : handler'[c].pc # "reading" => handler'[c].message \in Message
  <2>1. CASE handler' = handler
    BY <2>1 DEF TypeInv, TypeOK, HandsOK
  <2>2. CASE handler' = [c \in Socket |-> Idle]
    BY <2>2 DEF Idle, Step
  <2> QED
    BY <2>1, <2>2
<1>3. TypeOK'
  BY <1>1, <1>2 DEF TypeInv, TypeOK, ConsumerSpace, Held
<1>4. HandsOK'
  BY <1>1, <1>2 DEF HandsOK
<1> QED
  BY <1>3, <1>4 DEF TypeInv

LEMMA Before ==
    ASSUME TypeInv
    PROVE  /\ producer \in BOOLEAN /\ server \in {"up", "stopping", "down"} /\ faults \in 0..MaxFaults
           /\ faults \in Int /\ MaxFaults \in Nat
           /\ consumer \in ConsumerSpace(Held) /\ consumer.message \in Held
           /\ consumer.pc \in {"processing", "giving up"} => consumer.message \in Message
           /\ consumer.pc \in {"off", "connecting", "polling"} => consumer.message = NoMessage
           /\ server = "down" => consumer.pc = "off"
           /\ committed \in [Topic -> Nat]
           /\ \A t \in Topic : /\ committed[t] <= Len(log[t]) /\ consumer.position[t] <= Len(log[t])
                               /\ 0 <= Len(log[t])
           /\ dlq \subseteq Message /\ lapsed \subseteq Message
           /\ rows \subseteq [message : Message, id : Held, at : Nat]
<1>1. \A t \in Topic : Len(log[t]) \in Nat
  BY Sizes
<1>2. faults \in 0..MaxFaults /\ MaxFaults \in Nat
  BY MessagesAssumption DEF TypeInv, TypeOK
<1>3. consumer.message \in Held
  BY DEF TypeInv, TypeOK, Held
<1>4. /\ producer \in BOOLEAN /\ server \in {"up", "stopping", "down"}
      /\ committed \in [Topic -> Nat] /\ dlq \subseteq Message /\ lapsed \subseteq Message
      /\ rows \subseteq [message : Message, id : Held, at : Nat]
  BY DEF TypeInv, TypeOK, Held
<1>5. /\ consumer.pc \in {"processing", "giving up"} => consumer.message \in Message
      /\ consumer.pc \in {"off", "connecting", "polling"} => consumer.message = NoMessage
      /\ server = "down" => consumer.pc = "off"
  BY DEF TypeInv, TypeOK, HandsOK
<1>6. \A t \in Topic : committed[t] <= Len(log[t]) /\ consumer.position[t] <= Len(log[t])
  BY DEF TypeInv, TypeOK
<1>7. \A t \in Topic : 0 <= Len(log[t])
  BY <1>1
<1>8. faults \in Int
  BY <1>2
<1>9. consumer \in ConsumerSpace(Held)
  BY ConsumerTyped
<1> QED
  BY <1>2, <1>3, <1>4, <1>5, <1>6, <1>7, <1>8, <1>9

LEMMA OneMore ==
    ASSUME TypeInv, faults < MaxFaults
    PROVE  faults + 1 \in 0..MaxFaults
<1>1. faults \in 0..MaxFaults
  BY DEF TypeInv, TypeOK
<1> QED
  BY <1>1, MessagesAssumption

\* The consumer reads, and gives a message back.
LEMMA ConsumerStepsTyped ==
    ASSUME TypeInv, CreateConsumer \/ Process \/ SendToDlq \/ AutoCommit
    PROVE  TypeInv'
<1>1. CASE CreateConsumer
  <2>1. /\ consumer.pc = "connecting"
        /\ consumer' = [consumer EXCEPT !.pc = "polling", !.position = committed]
        /\ UNCHANGED <<clock, sent, handler, server, producer, broker, rows, ghosts, faults>>
    BY <1>1 DEF CreateConsumer, Consumer
  <2>2. /\ consumer' \in ConsumerSpace(Held) /\ consumer'.pc = "polling"
        /\ consumer'.message = NoMessage /\ consumer'.position = committed
    BY <2>1, CreatedIs, Before
  <2>3. server # "down"
    BY <2>1, Before
  <2> QED
    BY <2>1, <2>2, <2>3, Before, StepTyped DEF broker, ghosts
<1>2. CASE AutoCommit
  <2>1. committed' \in [Topic -> Nat]
    BY <1>2, ConsumerTyped DEF AutoCommit, ConsumerSpace
  <2> QED
    BY <1>2, <2>1, Before, StepTyped DEF AutoCommit, process, ghosts
<1>3. CASE SendToDlq
  <2>1. /\ consumer' = Polling /\ consumer.message \in Message /\ consumer.pc = "giving up"
        /\ dlq' \in {dlq, dlq \cup {consumer.message}}
        /\ lapsed' \in {lapsed, lapsed \cup {consumer.message}}
        /\ UNCHANGED <<clock, sent, handler, server, producer, log, committed, rows, shown,
                      doubtful, faults>>
    BY <1>3, Before DEF SendToDlq, Consumer
  <2>2. server # "down"
    BY <2>1, Before
  <2> QED
    BY <2>1, <2>2, PollingIs, Before, StepTyped
<1>4. CASE Process
  <2>1. /\ consumer.pc = "processing" /\ consumer.message \in Message
        /\ UNCHANGED <<sent, handler, server, producer, broker, ghosts, faults>>
    BY <1>4, Before DEF Process, Consumer
  <2>2. CASE CreateIdempotent(consumer.message) /\ consumer' = Polling
    <3>1. /\ clock' = clock
          /\ \/ rows' = rows
             \/ rows' = rows \cup {[message |-> consumer.message, id |-> consumer.message,
                                   at |-> sent[consumer.message].at]}
      BY <2>2 DEF CreateIdempotent, Create
    <3>2. [message |-> consumer.message, id |-> consumer.message, at |-> sent[consumer.message].at]
             \in [message : Message, id : Held, at : Nat]
      BY <2>1, Sizes DEF Held
    <3>3. rows' \subseteq [message : Message, id : Held, at : Nat]
      BY <3>1, <3>2, Before
    <3>4. server # "down"
      BY <2>1, Before
    <3> QED
      BY <2>1, <2>2, <3>1, <3>3, <3>4, PollingIs, Before, StepTyped DEF broker, ghosts
  <2>3. CASE LastAttempt /\ consumer' = [consumer EXCEPT !.pc = "giving up"] /\ UNCHANGED <<clock, rows>>
    <3>1. /\ consumer' \in ConsumerSpace(Held) /\ consumer'.pc = "giving up"
          /\ consumer'.message = consumer.message /\ consumer'.position = consumer.position
      BY <2>3, ConsumerMoves
    <3>2. server # "down"
      BY <2>1, Before
    <3> QED
      BY <2>1, <2>3, <3>1, <3>2, Before, StepTyped DEF broker, ghosts
  <2>4. CASE /\ ~LastAttempt /\ consumer' = [consumer EXCEPT !.attempt = @ + 1]
             /\ UNCHANGED <<clock, rows>>
    <3>1. consumer.attempt + 1 \in 0..MaxRetries
      <4>1. consumer.attempt \in 0..MaxRetries /\ consumer.attempt # MaxRetries
        BY <2>4, ConsumerTyped DEF LastAttempt, ConsumerSpace
      <4> QED
        BY <4>1, MessagesAssumption
    <3>2. /\ consumer' \in ConsumerSpace(Held) /\ consumer'.pc = consumer.pc
          /\ consumer'.message = consumer.message /\ consumer'.position = consumer.position
      BY <2>4, <3>1, ConsumerTyped DEF ConsumerSpace
    <3>3. server # "down"
      BY <2>1, Before
    <3> QED
      BY <2>1, <2>4, <3>2, <3>3, Before, StepTyped DEF broker, ghosts
  <2> QED
    BY <1>4, <2>2, <2>3, <2>4 DEF Process
<1> QED
  BY <1>1, <1>2, <1>3, <1>4

\* The next message is taken.
LEMMA TakeMoves ==
    ASSUME TypeInv, NEW t \in Topic, Take(t)
    PROVE  /\ consumer.position[t] + 1 \in 1..Len(log[t])
           /\ log[t][consumer.position[t] + 1] \in Message
           /\ consumer.pc = "polling" /\ consumer.message = NoMessage
           /\ consumer' \in ConsumerSpace(Held) /\ consumer'.topic = t
           /\ consumer'.message = log[t][consumer.position[t] + 1]
           /\ consumer'.pc = IF server = "up" THEN "processing" ELSE "closing"
           /\ \A u \in Topic : consumer'.position[u] =
                 IF u = t THEN consumer.position[t] + 1 ELSE consumer.position[u]
           /\ lapsed' = IF server = "up" THEN lapsed ELSE lapsed \cup {consumer'.message}
           /\ UNCHANGED <<clock, sent, handler, server, producer, broker, rows, shown, doubtful, faults>>
<1> DEFINE m == log[t][consumer.position[t] + 1]
           n == [consumer.position EXCEPT ![t] = @ + 1]
           x == [pc |-> IF server = "up" THEN "processing" ELSE "closing",
                 position |-> n, topic |-> t, message |-> m, attempt |-> 1]
<1>1. consumer.position[t] + 1 \in 1..Len(log[t])
  BY Sizes DEF Take
<1>2. m \in Message
  BY <1>1, Sizes
<1>3. consumer.position \in [Topic -> Nat]
  BY ConsumerTyped DEF ConsumerSpace
<1>4. n \in [Topic -> Nat] /\ \A u \in Topic : n[u] =
                 IF u = t THEN consumer.position[t] + 1 ELSE consumer.position[u]
  BY <1>3
<1>5. /\ consumer.pc = "polling" /\ consumer' = x
      /\ lapsed' = IF server = "up" THEN lapsed ELSE lapsed \cup {m}
      /\ UNCHANGED <<clock, sent, handler, server, producer, broker, rows, shown, doubtful, faults>>
  BY DEF Take, Consumer
<1> HIDE DEF m, n
<1>6. 1 \in 0..MaxRetries
  BY MessagesAssumption
<1>7. /\ x \in ConsumerSpace(Held) /\ x.topic = t /\ x.message = m /\ x.position = n
      /\ x.pc = IF server = "up" THEN "processing" ELSE "closing"
  BY <1>2, <1>4, <1>6 DEF ConsumerSpace, Held
<1> QED
  BY <1>1, <1>2, <1>4, <1>5, <1>7, Before DEF m

LEMMA TakeTyped ==
    ASSUME TypeInv, NEW t \in Topic, Take(t)
    PROVE  TypeInv'
<1>1. consumer'.message \in Message /\ consumer'.pc \in {"processing", "closing"} /\ server # "down"
  BY TakeMoves, Before
<1>2. lapsed' \subseteq Message
  <2>1. lapsed \subseteq Message
    BY Before
  <2>2. lapsed' \subseteq lapsed \cup {consumer'.message}
    BY TakeMoves
  <2> QED
    BY <1>1, <2>1, <2>2
<1>3. ASSUME NEW u \in Topic
      PROVE  committed'[u] <= Len(log[u]) /\ consumer'.position[u] <= Len(log[u])
  <2>1. committed' = committed /\ committed[u] <= Len(log[u]) /\ consumer.position[u] <= Len(log[u])
    BY TakeMoves, Before DEF broker
  <2>2. consumer.position[t] + 1 <= Len(log[t])
    BY TakeMoves, Sizes
  <2>3. consumer'.position[u] = IF u = t THEN consumer.position[t] + 1 ELSE consumer.position[u]
    BY TakeMoves
  <2> QED
    BY <2>1, <2>2, <2>3
<1> QED
  BY <1>1, <1>2, <1>3, TakeMoves, Before, StepTyped DEF broker

\* The consumer stops, and the process starts, stops and crashes.
LEMMA ProcessStepsTyped ==
    ASSUME TypeInv,
           Disconnected \/ Close \/ Startup \/ Stop \/ Cancel \/ Shutdown \/ Crash
    PROVE  TypeInv'
<1>1. CASE Disconnected
  <2>1. /\ consumer' = [consumer EXCEPT !.pc = "closing"] /\ faults' \in 0..MaxFaults
        /\ UNCHANGED <<clock, sent, handler, server, producer, broker, rows, ghosts>>
        /\ server # "down"
    BY <1>1, Before DEF Disconnected, Consumer
  <2>2. /\ consumer' \in ConsumerSpace(Held) /\ consumer'.pc = "closing"
        /\ consumer'.position = consumer.position
    BY <2>1, ConsumerMoves
  <2> QED
    BY <2>1, <2>2, Before, StepTyped DEF broker, ghosts
<1>2. CASE Close
  <2>1. PICK pc \in {"connecting", "off"} : /\ consumer' = [Off EXCEPT !.pc = pc]
                                            /\ pc = "connecting" => server = "up"
    BY <1>2 DEF Close
  <2>2. /\ committed' \in {committed, consumer.position}
        /\ UNCHANGED <<clock, sent, handler, server, producer, log, dlq, rows, ghosts, faults>>
    BY <1>2 DEF Close
  <2>3. /\ consumer' \in ConsumerSpace(Held) /\ consumer'.pc = pc /\ consumer'.message = NoMessage
        /\ \A t \in Topic : consumer'.position[t] = 0
    BY <2>1, FromOff
  <2>4. committed' \in [Topic -> Nat]
    BY <2>2, ConsumerTyped, Before DEF ConsumerSpace
  <2> QED
    BY <2>1, <2>2, <2>3, <2>4, Before, StepTyped DEF ghosts
<1>3. CASE Startup
  <2>1. /\ consumer' = [Off EXCEPT !.pc = "connecting"] /\ handler' = [c \in Socket |-> Idle]
        /\ server' = "up" /\ producer' \in BOOLEAN
        /\ UNCHANGED <<clock, sent, broker, rows, ghosts, faults>>
    BY <1>3 DEF Startup, StartProducer
  <2>2. /\ consumer' \in ConsumerSpace(Held) /\ consumer'.pc = "connecting"
        /\ consumer'.message = NoMessage /\ \A t \in Topic : consumer'.position[t] = 0
    BY <2>1, FromOff
  <2> QED
    BY <2>1, <2>2, Before, StepTyped DEF broker, ghosts
<1>4. CASE Stop
  <2>1. /\ server' = "stopping" /\ faults < MaxFaults /\ faults' = faults + 1
        /\ UNCHANGED <<clock, sent, handler, producer, consumer, broker, rows, ghosts>>
    BY <1>4 DEF Stop
  <2>2. faults' \in 0..MaxFaults
    BY <2>1, OneMore
  <2> QED
    BY <2>1, <2>2, Before, StepTyped DEF broker, ghosts
<1>5. CASE Cancel
  <2>1. /\ consumer' = [consumer EXCEPT !.pc = "closing"] /\ server = "stopping"
        /\ lapsed' = lapsed \cup ({consumer.message} \ {NoMessage})
        /\ UNCHANGED <<clock, sent, handler, server, producer, broker, rows, shown, doubtful, faults>>
    BY <1>5 DEF Cancel
  <2>2. /\ consumer' \in ConsumerSpace(Held) /\ consumer'.pc = "closing"
        /\ consumer'.position = consumer.position
    BY <2>1, ConsumerMoves
  <2>3. lapsed' \subseteq Message
    BY <2>1, Before DEF Held
  <2> QED
    BY <2>1, <2>2, <2>3, Before, StepTyped DEF broker
<1>6. CASE Shutdown
  <2>1. /\ server' = "down" /\ producer' = FALSE /\ consumer.pc = "off"
        /\ UNCHANGED <<clock, sent, handler, consumer, broker, rows, ghosts, faults>>
    BY <1>6 DEF Shutdown, StopProducer, Consumer
  <2> QED
    BY <2>1, Before, StepTyped DEF broker, ghosts
<1>7. CASE Crash
  <2>1. /\ server' = "down" /\ producer' = FALSE /\ consumer' = Off
        /\ handler' = [c \in Socket |-> Idle] /\ faults < MaxFaults /\ faults' = faults + 1
        /\ UNCHANGED <<clock, sent, broker, rows, shown, doubtful>>
    BY <1>7 DEF Crash
  <2>4. lapsed' \subseteq lapsed \cup ({consumer.message} \ {NoMessage})
    BY <1>7 DEF Crash
  <2>5. faults' \in 0..MaxFaults
    BY <2>1, OneMore
  <2>2. /\ consumer' \in ConsumerSpace(Held) /\ consumer'.pc = "off" /\ consumer'.message = NoMessage
        /\ \A t \in Topic : consumer'.position[t] = 0
    BY <2>1, OffTyped DEF Held
  <2>3. lapsed' \subseteq Message
    BY <2>4, Before DEF Held
  <2> QED
    BY <2>1, <2>2, <2>3, <2>5, Before, StepTyped DEF broker
<1> QED
  BY <1>1, <1>2, <1>3, <1>4, <1>5, <1>6, <1>7

LEMMA TypeKept == TypeInv /\ [Next]_vars => TypeInv'
<1>1. ASSUME TypeInv, UNCHANGED vars PROVE TypeInv'
  BY <1>1 DEF vars, process, broker, ghosts, TypeInv, TypeOK, HandsOK, Message
<1> QED
  BY <1>1, ReceiveTyped, ProducesTyped, BroadcastTyped, ConsumerStepsTyped, TakeTyped,
     ProcessStepsTyped DEF Next, Produces

LEMMA InitTyped == Init => TypeInv
<1> SUFFICES ASSUME Init PROVE TypeInv
  OBVIOUS
<1>1. /\ sent = <<>> /\ Len(sent) = 0 /\ 0 <= MaxMessages /\ sent \in Seq(Entry)
      /\ \A t \in Topic : log[t] = <<>> /\ Len(log[t]) = 0 /\ log[t] \in Seq(Message)
  BY MessagesAssumption, EmptySeq DEF Init
<1>2. /\ consumer \in ConsumerSpace(Held) /\ consumer.pc = "off" /\ consumer.message = NoMessage
      /\ \A t \in Topic : consumer.position[t] = 0
  BY OffTyped DEF Init, Held
<1>3. handler \in [Socket -> [pc : Step, message : Held]]
  BY DEF Init, Idle, Step, Held
<1>4. log \in [Topic -> Seq(Message)] /\ committed \in [Topic -> Nat]
  BY <1>1 DEF Init
<1>5. \A t \in Topic : committed[t] <= Len(log[t]) /\ consumer.position[t] <= Len(log[t])
  BY <1>1, <1>2 DEF Init
<1>6. clock \in Nat /\ faults \in 0..MaxFaults
  BY MessagesAssumption DEF Init
<1>7. TypeOK
  BY <1>1, <1>2, <1>3, <1>4, <1>5, <1>6 DEF Init, TypeOK, ConsumerSpace, Held, Entry
<1>8. HandsOK
  BY <1>2 DEF Init, HandsOK, Idle
<1> QED
  BY <1>7, <1>8 DEF TypeInv

\* Every variable keeps its type, and the consumer has a message exactly while it
\* works on one, for any sockets, messages, faults and retries.
THEOREM TypeCorrect == Spec => []TypeOK
<1>1. TypeInv => TypeOK
  BY DEF TypeInv
<1> QED
  BY <1>1, InitTyped, TypeKept, PTL DEF Spec
----------------------------------------------------------------------------
(* A broadcast message is kept.                                            *)

\* Message m is settled, in the consumer's hands, or behind offset n of topic t;
\* and the same after a step.
Settled(m) == Stored(m) \/ m \in dlq \/ m \in lapsed

Ahead(m, t, n) == \E i \in n + 1 .. Len(log[t]) : log[t][i] = m

Kept(m, t, n) == Settled(m) \/ consumer.message = m \/ Ahead(m, t, n)

SettledNext(m) == (\E r \in rows' : r.message = m) \/ m \in dlq' \/ m \in lapsed'

KeptNext(m, t, n) ==
    \/ SettledNext(m) \/ consumer'.message = m
    \/ \E i \in n + 1 .. Len(log'[t]) : log'[t][i] = m

\* Whether it reads on from where it is or from what is committed, the consumer
\* misses nothing that a topic holds.
KeptInv ==
    \A t \in Topic : \A i \in 1..Len(log[t]) :
        Kept(log[t][i], t, committed[t]) /\ Kept(log[t][i], t, consumer.position[t])

\* A message is in its own topic and is consumed from there; a consumer that is
\* closing has given up its message; a row has the id of its message or none.
HeldInv ==
    /\ consumer.message # NoMessage => TopicOf(consumer.message) = consumer.topic
    /\ consumer.pc = "closing" /\ consumer.message # NoMessage => consumer.message \in lapsed
    /\ \A r \in rows : r.id \in {NoMessage, r.message}

TopicsInv == \A t \in Topic : \A i \in 1..Len(log[t]) : TopicOf(log[t][i]) = t

\* A room message is broadcast after it was stored or produced.
InShow(m) == m \in shown \/ \E c \in Socket : handler[c].pc = "showing" /\ handler[c].message = m

Recorded(m) == Stored(m) \/ \E i \in 1..Len(log["messages"]) : log["messages"][i] = m

ShownInv == \A m \in Message : InShow(m) /\ TopicOf(m) = "messages" => Recorded(m)

IInv == TypeInv /\ KeptInv /\ HeldInv /\ TopicsInv /\ ShownInv

\* What is settled stays so.
MoreSettled == rows \subseteq rows' /\ dlq \subseteq dlq' /\ lapsed \subseteq lapsed'

\* A step that lets no message go and reads on from a known place.
LEMMA KeptOn ==
    ASSUME TypeInv, NEW m, NEW t \in Topic, NEW n \in Nat, Kept(m, t, n), Grown, MoreSettled,
           consumer.message = m => consumer'.message = m \/ SettledNext(m),
           \A u \in Topic : Len(log'[u]) \in Nat
    PROVE  KeptNext(m, t, n)
<1>1. CASE Settled(m)
  BY <1>1 DEF Settled, Stored, MoreSettled, KeptNext, SettledNext
<1>2. CASE consumer.message = m
  BY <1>2 DEF KeptNext
<1>3. CASE Ahead(m, t, n)
  <2>1. PICK i \in n + 1 .. Len(log[t]) : log[t][i] = m
    BY <1>3 DEF Ahead
  <2>2. /\ Len(log[t]) \in Nat /\ Len(log'[t]) \in Nat /\ Len(log'[t]) >= Len(log[t])
        /\ \A j \in 1..Len(log[t]) : log'[t][j] = log[t][j]
    BY Sizes DEF Grown
  <2>3. i \in 1..Len(log[t]) /\ i \in n + 1 .. Len(log'[t])
    BY <2>1, <2>2
  <2> QED
    BY <2>1, <2>2, <2>3 DEF KeptNext
<1> QED
  BY <1>1, <1>2, <1>3 DEF Kept

LEMMA StepKeeps ==
    ASSUME TypeInv, TypeInv', KeptInv, Grown, MoreSettled,
           \A m \in Message : consumer.message = m => consumer'.message = m \/ SettledNext(m),
           \A t \in Topic : /\ committed'[t] \in {committed[t], consumer.position[t]}
                            /\ consumer'.position[t] \in {committed[t], consumer.position[t], 0}
    PROVE  KeptInv'
<1> SUFFICES ASSUME NEW t \in Topic, NEW i \in 1..Len(log'[t])
             PROVE  /\ KeptNext(log'[t][i], t, committed'[t])
                    /\ KeptNext(log'[t][i], t, consumer'.position[t])
  BY DEF KeptInv, Kept, KeptNext, Settled, SettledNext, Stored, Ahead
<1>1. \A u \in Topic : Len(log'[u]) \in Nat
  <2>1. \A u \in Topic : log'[u] \in Seq(Message')
    BY DEF TypeInv, TypeOK
  <2> QED
    BY <2>1, LenProperties
<1>2. /\ Len(log[t]) \in Nat /\ committed[t] \in Nat /\ consumer.position[t] \in Nat
      /\ \A j \in 1..Len(log[t]) : log[t][j] \in Message
  BY Sizes
<1>3. committed[t] <= Len(log[t]) /\ consumer.position[t] <= Len(log[t])
  BY Before
<1>4. Len(log'[t]) >= Len(log[t]) /\ \A j \in 1..Len(log[t]) : log'[t][j] = log[t][j]
  BY DEF Grown
<1>5. CASE i \in 1..Len(log[t])
  <2>1. log'[t][i] = log[t][i] /\ log[t][i] \in Message
    BY <1>2, <1>4, <1>5
  <2>2. Kept(log[t][i], t, committed[t]) /\ Kept(log[t][i], t, consumer.position[t])
    BY <1>5 DEF KeptInv
  <2>3. KeptNext(log[t][i], t, committed[t]) /\ KeptNext(log[t][i], t, consumer.position[t])
    BY <1>1, <1>2, <2>1, <2>2, KeptOn
  <2>4. KeptNext(log'[t][i], t, 0)
    BY <1>1 DEF KeptNext
  <2> QED
    BY <2>1, <2>3, <2>4
<1>6. CASE i \notin 1..Len(log[t])
  <2>1. i \in committed[t] + 1 .. Len(log'[t]) /\ i \in consumer.position[t] + 1 .. Len(log'[t])
        /\ i \in 0 + 1 .. Len(log'[t])
    BY <1>1, <1>2, <1>3, <1>6
  <2> QED
    BY <2>1 DEF KeptNext
<1> QED
  BY <1>5, <1>6
\* The consumer takes the next message of topic t.
LEMMA TakeKeeps ==
    ASSUME TypeInv, KeptInv, NEW t \in Topic, Take(t)
    PROVE  KeptInv'
<1>1. /\ log' = log /\ committed' = committed /\ rows' = rows /\ dlq' = dlq /\ lapsed \subseteq lapsed'
      /\ consumer.message = NoMessage
      /\ consumer'.message = log[t][consumer.position[t] + 1]
      /\ \A u \in Topic : consumer'.position[u] =
                 IF u = t THEN consumer.position[t] + 1 ELSE consumer.position[u]
  BY TakeMoves DEF broker
<1> SUFFICES ASSUME NEW u \in Topic, NEW i \in 1..Len(log[u])
             PROVE  /\ KeptNext(log[u][i], u, committed[u])
                    /\ KeptNext(log[u][i], u, consumer'.position[u])
  BY <1>1 DEF KeptInv, Kept, KeptNext, Settled, SettledNext, Stored, Ahead
<1>2. /\ \A s \in Topic : Len(log'[s]) \in Nat
      /\ \A s \in Topic : Len(log[s]) \in Nat /\ committed[s] \in Nat /\ consumer.position[s] \in Nat
      /\ log[u][i] \in Message /\ NoMessage \notin Message
  BY <1>1, Sizes
<1>3. Grown /\ MoreSettled
  BY <1>1, <1>2 DEF Grown, MoreSettled
<1>4. Kept(log[u][i], u, committed[u]) /\ Kept(log[u][i], u, consumer.position[u])
  BY DEF KeptInv
<1>5. KeptNext(log[u][i], u, committed[u]) /\ KeptNext(log[u][i], u, consumer.position[u])
  BY <1>1, <1>2, <1>3, <1>4, KeptOn
<1>6. CASE u = t
  <2>1. CASE SettledNext(log[u][i]) \/ consumer'.message = log[u][i]
    BY <1>5, <2>1 DEF KeptNext
  <2>2. ASSUME NEW j \in consumer.position[u] + 1 .. Len(log'[u]), log'[u][j] = log[u][i]
        PROVE  KeptNext(log[u][i], u, consumer.position[u] + 1)
    <3>1. CASE j = consumer.position[u] + 1
      BY <1>1, <1>6, <2>2, <3>1 DEF KeptNext
    <3>2. CASE j # consumer.position[u] + 1
      <4>1. j \in (consumer.position[u] + 1) + 1 .. Len(log'[u])
        BY <1>2, <3>2
      <4> QED
        BY <2>2, <4>1 DEF KeptNext
    <3> QED
      BY <3>1, <3>2
  <2>3. KeptNext(log[u][i], u, consumer.position[u] + 1)
    BY <1>5, <2>1, <2>2 DEF KeptNext
  <2> QED
    BY <1>1, <1>5, <1>6, <2>3
<1>7. CASE u # t
  BY <1>1, <1>5, <1>7
<1> QED
  BY <1>6, <1>7

\* A crash loses the consumer's message only where it has been committed.
LEMMA CrashKeeps ==
    ASSUME TypeInv, KeptInv, HeldInv, TopicsInv, Crash
    PROVE  KeptInv'
<1>1. /\ log' = log /\ committed' = committed /\ rows' = rows /\ dlq' = dlq /\ consumer' = Off
      /\ lapsed' = lapsed \cup {m \in {consumer.message} \ {NoMessage} :
                                   m \notin Unread(consumer.topic, committed[consumer.topic])}
  BY DEF Crash, broker
<1>2. \A u \in Topic : consumer'.position[u] = 0
  BY <1>1 DEF Off
<1> SUFFICES ASSUME NEW u \in Topic, NEW i \in 1..Len(log[u])
             PROVE  KeptNext(log[u][i], u, committed[u]) /\ KeptNext(log[u][i], u, 0)
  BY <1>1, <1>2 DEF KeptInv, Kept, KeptNext, Settled, SettledNext, Stored, Ahead
<1> DEFINE m == log[u][i]
<1>3. m \in Message /\ TopicOf(m) = u /\ m # NoMessage /\ Len(log[u]) \in Nat
  BY Sizes DEF TopicsInv
<1>4. Kept(m, u, committed[u])
  BY DEF KeptInv
<1> HIDE DEF m
<1>5. ASSUME consumer.message = m PROVE KeptNext(m, u, committed[u])
  <2>1. consumer.topic = u
    BY <1>3, <1>5 DEF HeldInv
  <2>2. CASE m \in Unread(u, committed[u])
    <3>1. PICK j \in committed[u] + 1 .. Len(log[u]) : log[u][j] = m
      BY <2>2 DEF Unread
    <3> QED
      BY <1>1, <3>1 DEF KeptNext
  <2>3. CASE m \notin Unread(u, committed[u])
    BY <1>1, <1>3, <1>5, <2>1, <2>3 DEF KeptNext, SettledNext
  <2> QED
    BY <2>2, <2>3
<1>6. ASSUME Settled(m) PROVE KeptNext(m, u, committed[u])
  BY <1>1, <1>6 DEF Settled, Stored, KeptNext, SettledNext
<1>7. ASSUME Ahead(m, u, committed[u]) PROVE KeptNext(m, u, committed[u])
  BY <1>1, <1>7 DEF Ahead, KeptNext
<1>8. KeptNext(m, u, committed[u])
  BY <1>4, <1>5, <1>6, <1>7 DEF Kept
<1>9. KeptNext(m, u, 0)
  <2>1. i \in 0 + 1 .. Len(log'[u]) /\ log'[u][i] = m
    BY <1>1, <1>3 DEF m
  <2> QED
    BY <2>1 DEF KeptNext
<1> QED
  BY <1>8, <1>9 DEF m

----------------------------------------------------------------------------
(* The other conjuncts.                                                    *)

\* A step that leaves topics and messages alone, and the handlers as they are or idle.
LEMMA ShownKept ==
    ASSUME TypeInv, ShownInv, UNCHANGED <<sent, log, shown>>, rows \subseteq rows',
           handler' = handler \/ handler' = [c \in Socket |-> Idle]
    PROVE  ShownInv'
<1> SUFFICES ASSUME NEW m \in Message, InShow(m)', TopicOf(m)' = "messages"
             PROVE  Recorded(m)'
  BY DEF ShownInv, Message
<1>1. InShow(m)
  BY DEF InShow, Idle
<1>2. Recorded(m)
  BY <1>1 DEF ShownInv, TopicOf
<1> QED
  BY <1>2 DEF Recorded, Stored

\* What the steps of the consumer and of the process do, Take and Crash apart.
Calm ==
    /\ UNCHANGED <<sent, log, shown>> /\ MoreSettled /\ HeldInv'
    /\ handler' = handler \/ handler' = [c \in Socket |-> Idle]
    /\ \A m \in Message : consumer.message = m => consumer'.message = m \/ SettledNext(m)
    /\ \A t \in Topic : /\ committed'[t] \in {committed[t], consumer.position[t]}
                        /\ consumer'.position[t] \in {committed[t], consumer.position[t], 0}

LEMMA ReadingCalm ==
    ASSUME TypeInv, HeldInv, CreateConsumer \/ Process \/ SendToDlq \/ AutoCommit
    PROVE  Calm
<1>1. CASE CreateConsumer
  <2>1. /\ consumer.pc = "connecting"
        /\ consumer' = [consumer EXCEPT !.pc = "polling", !.position = committed]
        /\ UNCHANGED <<clock, sent, handler, server, producer, broker, rows, ghosts, faults>>
    BY <1>1 DEF CreateConsumer, Consumer
  <2>2. /\ consumer.message = NoMessage /\ consumer'.pc = "polling"
        /\ consumer'.message = NoMessage /\ consumer'.position = committed
    BY <2>1, CreatedIs, Before
  <2> QED
    BY <2>1, <2>2 DEF Calm, MoreSettled, HeldInv, broker, ghosts
<1>2. CASE AutoCommit
  BY <1>2 DEF AutoCommit, Calm, MoreSettled, HeldInv, TopicOf, process, ghosts
<1>3. CASE SendToDlq
  <2>1. /\ consumer' = Polling /\ UNCHANGED <<sent, handler, log, committed, rows, shown>>
        /\ dlq \subseteq dlq' /\ lapsed \subseteq lapsed' /\ consumer.message \in dlq' \cup lapsed'
    BY <1>3 DEF SendToDlq
  <2>2. /\ consumer'.pc = "polling" /\ consumer'.message = NoMessage
        /\ consumer'.position = consumer.position
    BY <2>1, PollingIs
  <2> QED
    BY <2>1, <2>2 DEF Calm, MoreSettled, HeldInv, SettledNext
<1>4. CASE Process
  <2>1. /\ consumer.pc = "processing" /\ consumer.message \in Message
        /\ UNCHANGED <<sent, handler, server, producer, broker, ghosts, faults>>
    BY <1>4, Before DEF Process, Consumer
  <2>2. CASE CreateIdempotent(consumer.message) /\ consumer' = Polling
    <3>1. /\ consumer'.pc = "polling" /\ consumer'.message = NoMessage
          /\ consumer'.position = consumer.position
      BY <2>2, PollingIs
    <3>2. /\ rows \subseteq rows' /\ \A r \in rows' : r.id \in {NoMessage, r.message}
          /\ \E r \in rows' : r.message = consumer.message
      <4>1. CASE \E r \in rows : r.id = consumer.message
        <5>1. rows' = rows /\ consumer.message # NoMessage
          BY <2>1, <2>2, <4>1, Sizes DEF CreateIdempotent
        <5> QED
          BY <4>1, <5>1 DEF HeldInv
      <4>2. CASE ~\E r \in rows : r.id = consumer.message
        <5> DEFINE x == [message |-> consumer.message, id |-> consumer.message,
                         at |-> sent[consumer.message].at]
        <5>1. rows' = rows \cup {x} /\ x.message = consumer.message /\ x.id = consumer.message
          BY <2>2, <4>2 DEF CreateIdempotent, Create
        <5> HIDE DEF x
        <5> QED
          BY <5>1 DEF HeldInv
      <4> QED
        BY <4>1, <4>2
    <3> QED
      BY <2>1, <3>1, <3>2 DEF Calm, MoreSettled, HeldInv, SettledNext, broker, ghosts
  <2>3. CASE LastAttempt /\ consumer' = [consumer EXCEPT !.pc = "giving up"] /\ UNCHANGED <<clock, rows>>
    <3>1. /\ consumer'.pc = "giving up" /\ consumer'.topic = consumer.topic
          /\ consumer'.message = consumer.message /\ consumer'.position = consumer.position
      BY <2>3, ConsumerMoves
    <3> QED
      BY <2>1, <2>3, <3>1 DEF Calm, MoreSettled, HeldInv, TopicOf, broker, ghosts
  <2>4. CASE consumer' = [consumer EXCEPT !.attempt = @ + 1] /\ UNCHANGED <<clock, rows>>
    <3>1. /\ consumer'.pc = consumer.pc /\ consumer'.topic = consumer.topic
          /\ consumer'.message = consumer.message /\ consumer'.position = consumer.position
      BY <2>4, ConsumerTyped DEF ConsumerSpace
    <3> QED
      BY <2>1, <2>4, <3>1 DEF Calm, MoreSettled, HeldInv, TopicOf, broker, ghosts
  <2> QED
    BY <1>4, <2>2, <2>3, <2>4 DEF Process
<1> QED
  BY <1>1, <1>2, <1>3, <1>4
LEMMA StoppingCalm ==
    ASSUME TypeInv, HeldInv, Disconnected \/ Close \/ Startup \/ Stop \/ Cancel \/ Shutdown
    PROVE  Calm
<1>1. CASE Disconnected
  <2>1. /\ consumer' = [consumer EXCEPT !.pc = "closing"] /\ consumer.message = NoMessage
        /\ UNCHANGED <<sent, handler, broker, rows, ghosts>>
    BY <1>1, Before DEF Disconnected, Consumer
  <2>2. consumer'.message = consumer.message /\ consumer'.position = consumer.position
    BY <2>1, ConsumerMoves
  <2> QED
    BY <2>1, <2>2 DEF Calm, MoreSettled, HeldInv, broker, ghosts
<1>2. CASE Close
  <2>1. PICK pc \in {"connecting", "off"} : consumer' = [Off EXCEPT !.pc = pc]
    BY <1>2 DEF Close
  <2>2. /\ committed' \in {committed, consumer.position} /\ consumer.pc = "closing"
        /\ UNCHANGED <<sent, handler, log, dlq, rows, ghosts>>
    BY <1>2 DEF Close, Consumer
  <2>3. consumer'.message = NoMessage /\ \A t \in Topic : consumer'.position[t] = 0
    BY <2>1, FromOff
  <2>4. \A m \in Message : consumer.message = m => m \in lapsed
    BY <2>2, Sizes DEF HeldInv
  <2>5. \A t \in Topic : committed'[t] \in {committed[t], consumer.position[t]}
    BY <2>2
  <2>6. HeldInv' /\ MoreSettled
    BY <2>2, <2>3 DEF HeldInv, MoreSettled, ghosts
  <2> QED
    BY <2>2, <2>3, <2>4, <2>5, <2>6 DEF Calm, SettledNext, ghosts
<1>3. CASE Startup
  <2>1. /\ consumer' = [Off EXCEPT !.pc = "connecting"] /\ handler' = [c \in Socket |-> Idle]
        /\ consumer.message = NoMessage /\ UNCHANGED <<sent, broker, rows, ghosts>>
    BY <1>3, Before DEF Startup
  <2>2. consumer'.message = NoMessage /\ \A t \in Topic : consumer'.position[t] = 0
    BY <2>1, FromOff
  <2> QED
    BY <2>1, <2>2 DEF Calm, MoreSettled, HeldInv, broker, ghosts
<1>4. CASE Stop
  BY <1>4 DEF Stop, Calm, MoreSettled, HeldInv, TopicOf, broker, ghosts
<1>5. CASE Cancel
  <2>1. /\ consumer' = [consumer EXCEPT !.pc = "closing"]
        /\ lapsed' = lapsed \cup ({consumer.message} \ {NoMessage})
        /\ UNCHANGED <<sent, handler, broker, rows, shown>>
    BY <1>5 DEF Cancel
  <2>2. /\ consumer'.message = consumer.message /\ consumer'.position = consumer.position
        /\ consumer'.topic = consumer.topic
    BY <2>1, ConsumerMoves
  <2> QED
    BY <2>1, <2>2 DEF Calm, MoreSettled, HeldInv, TopicOf, broker
<1>6. CASE Shutdown
  BY <1>6 DEF Shutdown, Calm, MoreSettled, HeldInv, TopicOf, broker, ghosts
<1> QED
  BY <1>1, <1>2, <1>3, <1>4, <1>5, <1>6

LEMMA CalmKeeps ==
    ASSUME IInv, TypeInv', Calm
    PROVE  IInv'
<1>1. Grown
  BY Sizes DEF IInv, Calm, Grown
<1>2. KeptInv'
  BY <1>1, StepKeeps DEF IInv, Calm
<1>3. TopicsInv'
  BY DEF IInv, Calm, TopicsInv, TopicOf
<1>4. ShownInv'
  BY ShownKept DEF IInv, Calm, MoreSettled
<1> QED
  BY <1>2, <1>3, <1>4 DEF IInv, Calm

LEMMA TakeHeld ==
    ASSUME IInv, TypeInv', NEW t \in Topic, Take(t)
    PROVE  IInv'
<1>1. /\ consumer.position[t] + 1 \in 1..Len(log[t]) /\ consumer'.topic = t
      /\ consumer'.message = log[t][consumer.position[t] + 1]
      /\ consumer'.pc = IF server = "up" THEN "processing" ELSE "closing"
      /\ lapsed' = IF server = "up" THEN lapsed ELSE lapsed \cup {consumer'.message}
      /\ UNCHANGED <<sent, handler, log, rows, shown>>
  BY TakeMoves DEF IInv, broker
<1>2. HeldInv'
  BY <1>1 DEF IInv, HeldInv, TopicsInv, TopicOf
<1>3. TopicsInv'
  BY <1>1 DEF IInv, TopicsInv, TopicOf
<1>4. ShownInv'
  BY <1>1, ShownKept DEF IInv
<1>5. KeptInv'
  BY TakeKeeps DEF IInv
<1> QED
  BY <1>2, <1>3, <1>4, <1>5 DEF IInv

LEMMA CrashHeld ==
    ASSUME IInv, TypeInv', Crash
    PROVE  IInv'
<1>1. /\ handler' = [c \in Socket |-> Idle] /\ consumer'.message = NoMessage
      /\ UNCHANGED <<sent, log, rows, shown>>
  BY DEF Crash, Off, broker
<1>2. HeldInv' /\ TopicsInv'
  BY <1>1 DEF IInv, HeldInv, TopicsInv, TopicOf
<1>3. ShownInv'
  BY <1>1, ShownKept DEF IInv
<1>4. KeptInv'
  BY CrashKeeps DEF IInv
<1> QED
  BY <1>2, <1>3, <1>4 DEF IInv

\* A handler receives a message.
LEMMA ReceiveHeld ==
    ASSUME IInv, TypeInv', NEW c \in Socket, NEW t \in Topic, Receive(c, t)
    PROVE  IInv'
<1>1. /\ Message \subseteq Message' /\ \A m \in Message : TopicOf(m)' = TopicOf(m)
      /\ handler' = [handler EXCEPT ![c] = [pc |-> "producing", message |-> Len(sent) + 1]]
      /\ UNCHANGED <<server, producer, consumer, broker, rows, ghosts, faults>>
  BY ReceiveTyped DEF IInv, Receive, TopicOf
<1>2. KeptInv'
  BY <1>1 DEF IInv, KeptInv, Kept, Settled, Stored, Ahead, broker, ghosts
<1>3. HeldInv'
  <2>1. consumer.message # NoMessage => consumer.message \in Message
    BY Before DEF IInv, Held
  <2> QED
    BY <1>1, <2>1 DEF IInv, HeldInv, ghosts
<1>4. TopicsInv'
  BY <1>1, Sizes DEF IInv, TopicsInv, broker
<1>5. ShownInv'
  <2> SUFFICES ASSUME NEW m \in Message', InShow(m)', TopicOf(m)' = "messages"
               PROVE  Recorded(m)'
    BY DEF ShownInv
  <2>1. InShow(m)
    BY <1>1 DEF IInv, TypeInv, TypeOK, InShow, ghosts
  <2>2. m \in Message
    <3>1. CASE m \in shown
      BY <3>1 DEF IInv, TypeInv, TypeOK
    <3>2. CASE \E d \in Socket : handler[d].pc = "showing" /\ handler[d].message = m
      BY <3>2 DEF IInv, TypeInv, HandsOK
    <3> QED
      BY <2>1, <3>1, <3>2 DEF InShow
  <2>3. Recorded(m)
    BY <1>1, <2>1, <2>2 DEF IInv, ShownInv
  <2> QED
    BY <1>1, <2>3 DEF Recorded, Stored, broker
<1> QED
  BY <1>2, <1>3, <1>4, <1>5 DEF IInv

LEMMA BroadcastHeld ==
    ASSUME IInv, TypeInv', NEW c \in Socket, Broadcast(c)
    PROVE  IInv'
<1>1. /\ UNCHANGED <<sent, consumer, broker, rows, lapsed>>
      /\ handler[c].pc = "showing" /\ shown' = shown \cup {handler[c].message}
      /\ handler' = [handler EXCEPT ![c] = Idle]
  BY DEF Broadcast, At
<1>2. KeptInv' /\ HeldInv' /\ TopicsInv'
  BY <1>1 DEF IInv, KeptInv, HeldInv, TopicsInv, Kept, Settled, Stored, Ahead, TopicOf, broker
<1>3. ShownInv'
  <2> SUFFICES ASSUME NEW m \in Message, InShow(m)', TopicOf(m) = "messages"
               PROVE  Recorded(m)
    BY <1>1 DEF ShownInv, Recorded, Stored, TopicOf, Message, broker
  <2>1. InShow(m)
    BY <1>1 DEF IInv, TypeInv, TypeOK, InShow, Idle
  <2> QED
    BY <2>1 DEF IInv, ShownInv
<1> QED
  BY <1>2, <1>3 DEF IInv
\* A message that goes on to be shown is in its topic or in the table.
LEMMA ProducedIs ==
    ASSUME TypeInv, NEW c \in Socket, Produces(c), Then(c, "showing"),
           TopicOf(handler[c].message) = "messages"
    PROVE  \/ Appended(handler[c].message)
           \/ \E r \in rows' : r.message = handler[c].message
<1>1. ~NotProduced(c)
  BY DEF NotProduced, HandlePrivateMessage
<1>2. CASE KafkaProduce(c)
  BY <1>2 DEF KafkaProduce
<1>3. CASE SaveMessage(c)
  <2>1. ~Then(c, "crashed")
    <3>1. ~At(c, "reading") /\ UNCHANGED sent
      BY ProducesMoves DEF At
    <3>2. handler'[c].pc = "showing"
      BY <3>1, ThenTyped
    <3>3. Then(c, "crashed") => handler'[c].pc = "crashed"
      BY <3>1, ThenTyped
    <3> QED
      BY <3>2, <3>3
  <2>2. Create(handler[c].message, NoMessage, clock + 1)
    BY <1>3, <2>1 DEF SaveMessage
  <2> DEFINE x == [message |-> handler[c].message, id |-> NoMessage, at |-> clock + 1]
  <2>3. x \in rows' /\ x.message = handler[c].message
    BY <2>2 DEF Create
  <2> HIDE DEF x
  <2> QED
    BY <2>3
<1> QED
  BY <1>1, <1>2, <1>3 DEF Produces

LEMMA ProducesHeld ==
    ASSUME IInv, TypeInv', NEW c \in Socket, Produces(c)
    PROVE  IInv'
<1> DEFINE m == handler[c].message
<1>1. /\ m \in Message /\ handler[c].pc = "producing"
      /\ Appended(m) \/ UNCHANGED log
      /\ UNCHANGED <<sent, consumer, dlq, committed, shown, lapsed>>
      /\ rows' \in {rows, rows \cup {[message |-> m, id |-> NoMessage, at |-> clock + 1]}}
  BY ProducesMoves DEF IInv
<1>2. Grown /\ rows \subseteq rows' /\ MoreSettled
  BY <1>1, ProducesTyped DEF IInv, MoreSettled
<1>3. KeptInv'
  BY <1>1, <1>2, StepKeeps DEF IInv
<1>4. HeldInv'
  <2>1. \A r \in rows' : r.id \in {NoMessage, r.message}
    BY <1>1 DEF IInv, HeldInv
  <2> QED
    BY <1>1, <2>1 DEF IInv, HeldInv, TopicOf
<1> HIDE DEF m
<1>5. TopicsInv'
  <2>1. CASE UNCHANGED log
    BY <1>1, <2>1 DEF IInv, TopicsInv, TopicOf
  <2>2. CASE Appended(m)
    <3>1. /\ \A t \in Topic :
                /\ Len(log'[t]) = IF t = TopicOf(m) THEN Len(log[t]) + 1 ELSE Len(log[t])
                /\ \A i \in 1..Len(log[t]) : log'[t][i] = log[t][i]
          /\ log'[TopicOf(m)][Len(log[TopicOf(m)]) + 1] = m
      BY <1>1, <2>2, AppendedKeeps DEF IInv
    <3> SUFFICES ASSUME NEW t \in Topic, NEW i \in 1..Len(log'[t])
                 PROVE  TopicOf(log'[t][i]) = t
      BY <1>1 DEF TopicsInv, TopicOf
    <3>2. Len(log[t]) \in Nat
      BY Sizes DEF IInv
    <3>3. CASE i \in 1..Len(log[t])
      BY <3>1, <3>3 DEF IInv, TopicsInv
    <3>4. CASE i \notin 1..Len(log[t])
      <4>1. t = TopicOf(m) /\ i = Len(log[t]) + 1
        BY <3>1, <3>2, <3>4
      <4> QED
        BY <3>1, <4>1
    <3> QED
      BY <3>3, <3>4
  <2> QED
    BY <1>1, <2>1, <2>2
<1>6. ShownInv'
  <2> SUFFICES ASSUME NEW n \in Message, InShow(n)', TopicOf(n) = "messages"
               PROVE  Recorded(n)'
    BY <1>1 DEF ShownInv, TopicOf, Message
  <2>1. PICK pc \in {"showing", "crashed"} : Then(c, pc)
    BY ProducesMoves DEF IInv
  <2>2. \A d \in Socket : /\ handler'[d].message = handler[d].message
                          /\ handler'[d].pc = IF d = c THEN pc ELSE handler[d].pc
    BY <1>1, <2>1, ThenTyped DEF IInv, At
  <2>3. CASE InShow(n)
    <3>1. Recorded(n)
      BY <2>3 DEF IInv, ShownInv
    <3>2. /\ Len(log["messages"]) \in Nat /\ Len(log'["messages"]) >= Len(log["messages"])
          /\ \A i \in 1..Len(log["messages"]) : log'["messages"][i] = log["messages"][i]
      BY <1>2, Sizes DEF IInv, Grown, Topic
    <3>3. Len(log'["messages"]) \in Nat
      <4>1. log'["messages"] \in Seq(Message')
        BY DEF TypeInv, TypeOK, Topic
      <4> QED
        BY <4>1, LenProperties
    <3>4. \A i \in 1..Len(log["messages"]) : i \in 1..Len(log'["messages"])
      BY <3>2, <3>3
    <3> QED
      BY <1>2, <3>1, <3>2, <3>4 DEF Recorded, Stored
  <2>4. CASE ~InShow(n)
    <3>1. n = m /\ pc = "showing"
      BY <1>1, <2>2, <2>4 DEF InShow, m
    <3>2. Appended(m) \/ \E r \in rows' : r.message = m
      BY <2>1, <3>1, ProducedIs DEF IInv, m
    <3>3. CASE Appended(m)
      <4>1. /\ TopicOf(m) = "messages" /\ Len(log["messages"]) \in Nat
            /\ Len(log'["messages"]) = Len(log["messages"]) + 1
            /\ log'["messages"][Len(log["messages"]) + 1] = m
        BY <1>1, <3>1, <3>3, AppendedKeeps, Sizes DEF IInv, Topic
      <4>2. Len(log["messages"]) + 1 \in 1..Len(log'["messages"])
        BY <4>1
      <4> QED
        BY <3>1, <4>1, <4>2 DEF Recorded
    <3> QED
      BY <3>1, <3>2, <3>3 DEF Recorded, Stored
  <2> QED
    BY <2>3, <2>4
<1> QED
  BY <1>3, <1>4, <1>5, <1>6 DEF IInv

LEMMA IInvKept == IInv /\ [Next]_vars => IInv'
<1> SUFFICES ASSUME IInv, [Next]_vars PROVE IInv'
  OBVIOUS
<1>1. TypeInv'
  BY TypeKept DEF IInv
<1>2. CASE UNCHANGED vars
  BY <1>1, <1>2 DEF IInv, KeptInv, HeldInv, TopicsInv, ShownInv, Kept, Settled, Stored, Ahead,
     InShow, Recorded, TopicOf, Message, vars, process, broker, ghosts
<1>3. CASE CreateConsumer \/ Process \/ SendToDlq \/ AutoCommit
  BY <1>1, <1>3, ReadingCalm, CalmKeeps DEF IInv
<1>4. CASE Disconnected \/ Close \/ Startup \/ Stop \/ Cancel \/ Shutdown
  BY <1>1, <1>4, StoppingCalm, CalmKeeps DEF IInv
<1> QED
  BY <1>1, <1>2, <1>3, <1>4, ReceiveHeld, ProducesHeld, BroadcastHeld, TakeHeld, CrashHeld
     DEF Next, Produces

LEMMA InitHeld == Init => IInv
<1> SUFFICES ASSUME Init PROVE IInv
  OBVIOUS
<1>1. \A t \in Topic : Len(log[t]) = 0
  BY EmptySeq DEF Init
<1>2. consumer.message = NoMessage /\ Message = {}
  <2>1. Len(sent) = 0
    BY EmptySeq DEF Init
  <2> QED
    BY <2>1 DEF Init, Off, Message
<1>3. \A t \in Topic : 1..Len(log[t]) = {}
  BY <1>1
<1> QED
  BY <1>2, <1>3, InitTyped DEF Init, IInv, KeptInv, HeldInv, TopicsInv, ShownInv

LEMMA IInvShows == IInv => ShownIsKept
<1> SUFFICES ASSUME IInv, NEW m \in shown, TopicOf(m) = "messages",
                    ~Stored(m), m \notin dlq, m \notin lapsed, consumer.message # m
             PROVE  m \in Unread("messages", ReadFrom("messages"))
  BY DEF ShownIsKept
<1>1. m \in Message
  BY DEF IInv, TypeInv, TypeOK
<1>2. PICK i \in 1..Len(log["messages"]) : log["messages"][i] = m
  BY <1>1 DEF IInv, ShownInv, InShow, Recorded
<1>3. Kept(m, "messages", committed["messages"]) /\ Kept(m, "messages", consumer.position["messages"])
  BY <1>2 DEF IInv, KeptInv, Topic
<1>4. /\ Ahead(m, "messages", committed["messages"])
      /\ Ahead(m, "messages", consumer.position["messages"])
  BY <1>3 DEF Kept, Settled
<1>5. Ahead(m, "messages", ReadFrom("messages"))
  BY <1>4 DEF ReadFrom
<1> QED
  BY <1>5 DEF Ahead, Unread

\* A room message that was broadcast is in the table, in the DLQ, in the consumer's
\* hands or still to be read, or is one the consumer gave up, for any sockets,
\* messages, faults and retries.
THEOREM ShownIsKeptCorrect == Spec => []ShownIsKept
<1> QED
  BY InitHeld, IInvKept, IInvShows, PTL DEF Spec

----------------------------------------------------------------------------
(* Pages.                                                                  *)

\* Rows with different times, and the page they make.
Timed(S) == IsFiniteSet(S) /\ (\A r \in S : r.at \in Nat) /\ (\A r, q \in S : r.at = q.at => r = q)

Preceding(S, r) == {q \in S : q.at < r.at}

\* No two rows have as many before them, so that each place of a page has its row.
LEMMA SortedIs ==
    ASSUME NEW S, Timed(S)
    PROVE  /\ DOMAIN Sorted(S) = 1..Cardinality(S)
           /\ \A i \in DOMAIN Sorted(S) : /\ Sorted(S)[i] \in S
                                          /\ Cardinality(Preceding(S, Sorted(S)[i])) = i - 1
<1> DEFINE N == Cardinality(S)
           rank == [r \in S |-> Cardinality(Preceding(S, r))]
<1>1. N \in Nat /\ IsFiniteSet(S) /\ IsFiniteSet(0 .. N - 1) /\ Cardinality(0 .. N - 1) = N
  <2>1. N \in Nat
    BY FS_CardinalityType DEF Timed
  <2> HIDE DEF N
  <2>2. 0 \in Int /\ N - 1 \in Int
    BY <2>1
  <2>3. /\ IsFiniteSet(0 .. N - 1)
        /\ Cardinality(0 .. N - 1) = IF 0 > N - 1 THEN 0 ELSE N - 1 - 0 + 1
    BY <2>2, FS_Interval
  <2> QED
    BY <2>1, <2>3 DEF Timed
<1>2. \A r \in S : /\ IsFiniteSet(Preceding(S, r)) /\ Cardinality(Preceding(S, r)) \in 0 .. N - 1
  <2> SUFFICES ASSUME NEW r \in S
               PROVE  IsFiniteSet(Preceding(S, r)) /\ Cardinality(Preceding(S, r)) \in 0 .. N - 1
    OBVIOUS
  <2>1. Preceding(S, r) \in SUBSET S /\ r \notin Preceding(S, r)
    BY DEF Preceding, Timed
  <2>2. /\ IsFiniteSet(Preceding(S, r)) /\ Cardinality(Preceding(S, r)) <= N
        /\ Cardinality(S) = Cardinality(Preceding(S, r)) => S = Preceding(S, r)
    BY <1>1, <2>1, FS_Subset
  <2>3. Cardinality(Preceding(S, r)) \in Nat
    BY <2>2, FS_CardinalityType
  <2> QED
    BY <1>1, <2>1, <2>2, <2>3
<1>3. \A r, q \in S : r.at < q.at => Cardinality(Preceding(S, r)) < Cardinality(Preceding(S, q))
  <2> SUFFICES ASSUME NEW r \in S, NEW q \in S, r.at < q.at
               PROVE  Cardinality(Preceding(S, r)) < Cardinality(Preceding(S, q))
    OBVIOUS
  <2>1. Preceding(S, r) \in SUBSET Preceding(S, q)
    BY DEF Preceding, Timed
  <2>2. r \in Preceding(S, q) /\ r \notin Preceding(S, r)
    BY DEF Preceding, Timed
  <2>3. /\ Cardinality(Preceding(S, r)) <= Cardinality(Preceding(S, q))
        /\ Cardinality(Preceding(S, q)) = Cardinality(Preceding(S, r)) => Preceding(S, q) = Preceding(S, r)
    BY <1>2, <2>1, FS_Subset
  <2> QED
    BY <1>2, <2>2, <2>3
<1>4. \A r, q \in S : Cardinality(Preceding(S, r)) = Cardinality(Preceding(S, q)) => r = q
  <2> SUFFICES ASSUME NEW r \in S, NEW q \in S, r # q
               PROVE  Cardinality(Preceding(S, r)) # Cardinality(Preceding(S, q))
    OBVIOUS
  <2>1. r.at < q.at \/ q.at < r.at
    BY DEF Timed
  <2>2. Cardinality(Preceding(S, r)) \in Nat /\ Cardinality(Preceding(S, q)) \in Nat
    BY <1>2
  <2> QED
    BY <1>3, <2>1, <2>2
<1>5. rank \in Injection(S, 0 .. N - 1)
  BY <1>2, <1>4 DEF Injection, IsInjective
<1>6. rank \in Surjection(S, 0 .. N - 1)
  BY <1>1, <1>5, FS_Injection
<1>7. \A i \in 1..N : \E r \in S : Cardinality(Preceding(S, r)) = i - 1
  <2> SUFFICES ASSUME NEW i \in 1..N PROVE \E r \in S : Cardinality(Preceding(S, r)) = i - 1
    OBVIOUS
  <2>1. i - 1 \in 0 .. N - 1
    BY <1>1
  <2> QED
    BY <1>6, <2>1 DEF Surjection
<1>8. Sorted(S) = [i \in 1..N |-> CHOOSE r \in S : Cardinality(Preceding(S, r)) = i - 1]
  BY DEF Sorted, Preceding
<1> QED
  BY <1>7, <1>8

\* A later place of a page has a later time.
LEMMA SortedRises ==
    ASSUME NEW S, Timed(S), NEW i \in DOMAIN Sorted(S), NEW j \in DOMAIN Sorted(S), i < j
    PROVE  Sorted(S)[i].at < Sorted(S)[j].at
<1> DEFINE r == Sorted(S)[i]
           q == Sorted(S)[j]
<1>1. /\ r \in S /\ q \in S /\ i \in Int /\ j \in Int
      /\ Cardinality(Preceding(S, r)) = i - 1 /\ Cardinality(Preceding(S, q)) = j - 1
  <2>1. Cardinality(S) \in Nat
    BY FS_CardinalityType DEF Timed
  <2> QED
    BY <2>1, SortedIs
<1> HIDE DEF r, q
<1>2. SUFFICES ASSUME ~(r.at < q.at) PROVE FALSE
  BY DEF r, q
<1>3. Preceding(S, q) \in SUBSET Preceding(S, r)
  BY <1>1, <1>2 DEF Preceding, Timed
<1>4. IsFiniteSet(Preceding(S, r))
  BY FS_Subset, Preceding(S, r) \in SUBSET S DEF Preceding, Timed
<1>5. Cardinality(Preceding(S, q)) <= Cardinality(Preceding(S, r))
  BY <1>3, <1>4, FS_Subset
<1> QED
  BY <1>1, <1>5

----------------------------------------------------------------------------
(* Pages of the history and of replays.                                    *)

\* A topic holds message m.
Logged(m) == \E t \in Topic : \E i \in 1..Len(log[t]) : log[t][i] = m

\* Later messages have later times, and none is ahead of the clock.
TimesInv ==
    \A m \in Message : /\ sent[m].at <= clock
                       /\ \A n \in Message : m < n => sent[m].at < sent[n].at

\* The time of a row is not before its message was sent, and is before whatever
\* the connection sent next.
InPlace(r) ==
    /\ sent[r.message].at <= r.at /\ r.at <= clock
    /\ \A n \in Message : n > r.message /\ sent[n].by = sent[r.message].by => r.at < sent[n].at

\* A row is the consumer's or the fallback's.
Consumed(r) == r.id = r.message /\ r.at = sent[r.message].at /\ Logged(r.message)

Fallback(r) ==
    /\ r.id = NoMessage /\ \A n \in Message : r.at # sent[n].at
    /\ Logged(r.message) => r.message \in doubtful

RowsInv ==
    /\ IsFiniteSet(rows)
    /\ \A r \in rows : InPlace(r) /\ (Consumed(r) \/ Fallback(r))
    /\ \A r, q \in rows : r.at = q.at \/ (r.message = q.message /\ r.id = q.id) => r = q

\* What a handler is about to produce is the last its connection sent, and is
\* neither in a topic nor in the table.
Turn(c, m) ==
    /\ sent[m].by = c /\ \A n \in Message : sent[n].by = c => n <= m
    /\ ~Logged(m) /\ \A r \in rows : r.message # m

TurnInv == \A c \in Socket : handler[c].pc = "producing" => Turn(c, handler[c].message)

HandInv == consumer.message # NoMessage => Logged(consumer.message)

PagesInv == TypeInv /\ TimesInv /\ RowsInv /\ TurnInv /\ HandInv

\* A step that reads no clock and stores nothing.
Still ==
    /\ UNCHANGED <<clock, sent, rows, doubtful>>
    /\ \A m : Logged(m)' <=> Logged(m)
    /\ \A c \in Socket : handler'[c].pc = "producing" => handler'[c] = handler[c]
    /\ consumer'.message # NoMessage => Logged(consumer'.message)

LEMMA RowTyped ==
    ASSUME TypeInv, NEW r \in rows
    PROVE  r.message \in Message /\ r.at \in Nat /\ r.id \in Message \cup {NoMessage}
BY DEF TypeInv, TypeOK

LEMMA StillPages ==
    ASSUME PagesInv, TypeInv', Still
    PROVE  PagesInv'
<1>1. Message' = Message
  BY DEF Still, Message
<1>2. TimesInv'
  BY <1>1 DEF Still, PagesInv, TimesInv
<1>3. RowsInv'
  <2>1. \A r \in rows : InPlace(r)' /\ (Consumed(r) => Consumed(r)') /\ (Fallback(r) => Fallback(r)')
    BY <1>1 DEF Still, PagesInv, RowsInv, InPlace, Consumed, Fallback
  <2> QED
    BY <2>1 DEF Still, PagesInv, RowsInv
<1>4. TurnInv'
  BY <1>1 DEF Still, PagesInv, TurnInv, Turn
<1>5. HandInv'
  BY DEF Still, HandInv
<1> QED
  BY <1>2, <1>3, <1>4, <1>5 DEF PagesInv

\* The consumer stores, tries again, gives up or is stopped: all but taking.
LEMMA StillSteps ==
    ASSUME PagesInv, TypeInv',
           \/ Disconnected \/ Close \/ Startup \/ Stop \/ Cancel \/ Shutdown \/ Crash
           \/ CreateConsumer \/ SendToDlq \/ AutoCommit
           \/ \E c \in Socket : Broadcast(c)
    PROVE  Still
<1> SUFFICES /\ UNCHANGED <<clock, sent, log, rows, doubtful>>
             /\ \A c \in Socket : handler'[c].pc = "producing" => handler'[c] = handler[c]
             /\ consumer'.message \in {consumer.message, NoMessage}
  BY DEF Still, Logged, PagesInv, HandInv
<1>1. UNCHANGED <<clock, sent, log, rows, doubtful>>
  BY DEF Disconnected, Close, Startup, Stop, Cancel, Shutdown, Crash, CreateConsumer, SendToDlq,
     AutoCommit, Broadcast, broker, ghosts
<1>2. \A c \in Socket : handler'[c].pc = "producing" => handler'[c] = handler[c]
  <2>1. CASE handler' = handler
    BY <2>1
  <2>2. CASE handler' = [c \in Socket |-> Idle]
    BY <2>2 DEF Idle
  <2>3. CASE \E c \in Socket : handler' = [handler EXCEPT ![c] = Idle]
    <3>1. PICK c \in Socket : handler' = [handler EXCEPT ![c] = Idle]
      BY <2>3
    <3>2. \A d \in Socket : handler'[d] = IF d = c THEN Idle ELSE handler[d]
      BY <3>1 DEF PagesInv, TypeInv, TypeOK
    <3> QED
      BY <3>2 DEF Idle
  <2> QED
    BY <2>1, <2>2, <2>3 DEF Disconnected, Close, Startup, Stop, Cancel, Shutdown, Crash,
       CreateConsumer, SendToDlq, AutoCommit, Broadcast, process
<1>3. consumer'.message \in {consumer.message, NoMessage}
  <2>1. CASE Disconnected \/ Cancel
    <3>1. consumer' = [consumer EXCEPT !.pc = "closing"]
      BY <2>1 DEF Disconnected, Cancel
    <3> QED
      BY <3>1, ConsumerMoves DEF PagesInv
  <2>2. CASE Close \/ Startup
    <3>1. \E pc \in {"connecting", "off"} : consumer' = [Off EXCEPT !.pc = pc]
      BY <2>2 DEF Close, Startup
    <3> QED
      BY <3>1, FromOff DEF PagesInv
  <2>3. CASE Crash
    BY <2>3 DEF Crash, Off
  <2>4. CASE CreateConsumer
    BY <2>4, CreatedIs, Before DEF PagesInv, CreateConsumer, Consumer
  <2>5. CASE SendToDlq
    BY <2>5, PollingIs DEF PagesInv, SendToDlq
  <2>6. CASE Stop \/ Shutdown \/ AutoCommit \/ \E c \in Socket : Broadcast(c)
    BY <2>6 DEF Stop, Shutdown, AutoCommit, Broadcast, process
  <2> QED
    BY <2>1, <2>2, <2>3, <2>4, <2>5, <2>6
<1> QED
  BY <1>1, <1>2, <1>3

LEMMA TakeStill ==
    ASSUME PagesInv, NEW t \in Topic, Take(t)
    PROVE  Still
<1>1. /\ consumer.position[t] + 1 \in 1..Len(log[t])
      /\ consumer'.message = log[t][consumer.position[t] + 1]
      /\ UNCHANGED <<sent, handler, log, rows>>
  BY TakeMoves DEF PagesInv, broker
<1>2. UNCHANGED <<clock, doubtful>>
  BY DEF Take
<1> QED
  BY <1>1, <1>2 DEF Still, Logged

\* The consumer stores a message that is not there under its id.
LEMMA ProcessPages ==
    ASSUME PagesInv, TypeInv', Process
    PROVE  PagesInv'
<1>1. PICK m, x : m = consumer.message /\ x = [message |-> m, id |-> m, at |-> sent[m].at]
  OBVIOUS
<1>2. /\ m \in Message /\ m # NoMessage /\ Logged(m) /\ Message' = Message
      /\ UNCHANGED <<clock, sent, log, handler, doubtful>>
  <2>1. /\ consumer.pc = "processing" /\ UNCHANGED <<sent, log, handler, doubtful>>
        /\ UNCHANGED clock
    BY DEF Process, Consumer, CreateIdempotent, broker, ghosts
  <2> QED
    BY <1>1, <2>1, Before, Sizes DEF PagesInv, HandInv, Message
<1>3. consumer'.message \in {m, NoMessage}
  <2>1. CASE consumer' = Polling
    BY <2>1, PollingIs DEF PagesInv
  <2>2. CASE consumer' = [consumer EXCEPT !.pc = "giving up"]
    BY <1>1, <2>2, ConsumerMoves DEF PagesInv
  <2>3. CASE consumer' = [consumer EXCEPT !.attempt = @ + 1]
    BY <1>1, <2>3, ConsumerTyped DEF ConsumerSpace, PagesInv
  <2> QED
    BY <2>1, <2>2, <2>3 DEF Process
<1>4. CASE UNCHANGED rows
  <2>1. Still
    BY <1>2, <1>3, <1>4 DEF Still, Logged
  <2> QED
    BY <2>1, StillPages
<1>5. CASE rows' = rows \cup {x} /\ ~\E r \in rows : r.id = m
  <2>1. x.message = m /\ x.id = m /\ x.at = sent[m].at
    BY <1>1
  <2>2. TimesInv'
    BY <1>2 DEF PagesInv, TimesInv
  <2>3. \A n : Logged(n)' <=> Logged(n)
    BY <1>2 DEF Logged
  <2>4. \A r \in rows : InPlace(r)' /\ (Consumed(r)' \/ Fallback(r)')
    BY <1>2, <2>3 DEF PagesInv, RowsInv, InPlace, Consumed, Fallback
  <2>5. InPlace(x)' /\ Consumed(x)'
    <3>1. /\ sent[m].at \in Nat /\ sent[m].at <= clock
          /\ \A n \in Message : n > m => sent[m].at < sent[n].at
      <4>1. \A n \in Message : n \in Nat
        BY DEF Message
      <4> QED
        BY <1>2, <4>1, Sizes DEF PagesInv, TimesInv
    <3> QED
      BY <1>2, <2>1, <2>3, <3>1 DEF InPlace, Consumed
  <2>6. \A r \in rows : r.at # x.at /\ ~(r.message = x.message /\ r.id = x.id)
    <3> SUFFICES ASSUME NEW r \in rows PROVE r.at # sent[m].at
      BY <1>5, <2>1
    <3>1. CASE Fallback(r)
      BY <1>2, <3>1 DEF Fallback
    <3>2. CASE Consumed(r)
      <4>1. r.message \in Message /\ r.message # m /\ r.at = sent[r.message].at
        BY <1>5, <3>2, RowTyped DEF Consumed, PagesInv
      <4>2. r.message < m \/ m < r.message
        BY <1>2, <4>1, Sizes DEF Message, PagesInv
      <4>3. sent[r.message].at \in Nat /\ sent[m].at \in Nat
        BY <1>2, <4>1, Sizes DEF PagesInv
      <4> QED
        BY <1>2, <4>1, <4>2, <4>3 DEF PagesInv, TimesInv
    <3> QED
      BY <3>1, <3>2 DEF PagesInv, RowsInv
  <2>7. RowsInv'
    <3>1. IsFiniteSet(rows')
      BY <1>5, FS_AddElement DEF PagesInv, RowsInv
    <3>2. \A r \in rows' : InPlace(r)' /\ (Consumed(r)' \/ Fallback(r)')
      BY <1>5, <2>4, <2>5
    <3>3. \A r, q \in rows' : r.at = q.at \/ (r.message = q.message /\ r.id = q.id) => r = q
      <4>1. \A r, q \in rows : r.at = q.at \/ (r.message = q.message /\ r.id = q.id) => r = q
        BY DEF PagesInv, RowsInv
      <4> QED
        BY <1>5, <2>6, <4>1
    <3> QED
      BY <3>1, <3>2, <3>3 DEF RowsInv
  <2>8. TurnInv'
    <3>1. \A c \in Socket : handler[c].pc = "producing" => handler[c].message # m
      BY <1>2 DEF PagesInv, TurnInv, Turn
    <3> QED
      BY <1>2, <1>5, <2>1, <2>3, <3>1 DEF PagesInv, TurnInv, Turn
  <2>9. HandInv'
    BY <1>2, <1>3, <2>3 DEF HandInv
  <2> QED
    BY <2>2, <2>7, <2>8, <2>9 DEF PagesInv
<1> QED
  BY <1>1, <1>4, <1>5 DEF Process, CreateIdempotent, Create

\* A message is received.
LEMMA ReceivePages ==
    ASSUME PagesInv, TypeInv', NEW c \in Socket, NEW t \in Topic, Receive(c, t)
    PROVE  PagesInv'
<1>1. PICK k, x : k = Len(sent) + 1 /\ x = [by |-> c, topic |-> t, at |-> clock + 1]
  OBVIOUS
<1>2. clock' = clock + 1 /\ UNCHANGED <<consumer, log, rows, doubtful>>
  BY DEF Receive, broker, ghosts
<1>3. /\ \A m \in Message : sent'[m] = sent[m]
      /\ sent'[k].by = c /\ sent'[k].at = clock + 1
      /\ Message' = Message \cup {k} /\ \A m \in Message : m \in Nat /\ m < k
  <2>1. sent \in Seq(Entry)
    BY DEF PagesInv, TypeInv, TypeOK, Entry
  <2>2. x \in Entry /\ Len(sent) \in Nat /\ sent' = Append(sent, x)
    BY <1>1, Sizes DEF PagesInv, Entry, Receive
  <2>3. /\ Len(sent') = k /\ sent'[k] = x /\ \A m \in 1..Len(sent) : sent'[m] = sent[m]
    BY <1>1, <2>1, <2>2, AppendKeeps
  <2>4. x.by = c /\ x.at = clock + 1
    BY <1>1
  <2>5. 1..k = 1..Len(sent) \cup {k} /\ \A m \in 1..Len(sent) : m \in Nat /\ m < k
    BY <1>1, <2>2
  <2> QED
    BY <2>3, <2>4, <2>5 DEF Message
<1>4. clock \in Nat /\ (\A m \in Message : sent[m].at \in Nat /\ sent[m].at <= clock) /\ k \in Nat
  BY <1>1, Sizes DEF PagesInv, TimesInv
<1>5. TimesInv'
  <2>1. \A m \in Message : sent'[m].at <= clock'
    BY <1>2, <1>3, <1>4
  <2>2. \A m, n \in Message : m < n => sent'[m].at < sent'[n].at
    BY <1>3 DEF PagesInv, TimesInv
  <2>3. \A m \in Message : sent'[m].at < sent'[k].at /\ ~(k < m)
    BY <1>3, <1>4
  <2>4. sent'[k].at <= clock' /\ ~(k < k)
    BY <1>2, <1>3, <1>4
  <2> QED
    BY <1>3, <2>1, <2>2, <2>3, <2>4 DEF TimesInv
<1>6. \A m : Logged(m)' <=> Logged(m)
  BY <1>2 DEF Logged
<1>7. \A r \in rows : InPlace(r)' /\ (Consumed(r)' \/ Fallback(r)')
  <2> SUFFICES ASSUME NEW r \in rows PROVE InPlace(r)' /\ (Consumed(r)' \/ Fallback(r)')
    OBVIOUS
  <2>1. r.message \in Message /\ r.at \in Nat /\ r.at <= clock /\ InPlace(r) /\ (Consumed(r) \/ Fallback(r))
    BY RowTyped DEF PagesInv, RowsInv, InPlace
  <2>2. r.at < sent'[k].at /\ r.at <= clock'
    BY <1>2, <1>3, <1>4, <2>1
  <2>3. InPlace(r)'
    BY <1>3, <2>1, <2>2 DEF InPlace
  <2>4. Consumed(r) => Consumed(r)'
    BY <1>3, <1>6, <2>1 DEF Consumed
  <2>5. Fallback(r) => Fallback(r)'
    BY <1>2, <1>3, <1>4, <1>6, <2>1, <2>2 DEF Fallback
  <2> QED
    BY <2>1, <2>3, <2>4, <2>5
<1>8. RowsInv'
  BY <1>2, <1>7 DEF PagesInv, RowsInv
<1>9. TurnInv'
  <2> SUFFICES ASSUME NEW d \in Socket, NEW m, m = handler'[d].message, handler'[d].pc = "producing"
               PROVE  Turn(d, m)'
    BY DEF TurnInv, Turn, Logged
  <2>1. CASE d = c
    <3>1. m = k
      BY <1>1, <2>1 DEF Receive, PagesInv, TypeInv, TypeOK
    <3>2. ~Logged(k)
      <4> SUFFICES ASSUME NEW y \in Topic, NEW i \in 1..Len(log[y]) PROVE log[y][i] # k
        BY DEF Logged
      <4>1. log[y][i] \in Message
        BY Sizes DEF PagesInv
      <4>2. log[y][i] < k
        BY <1>3, <4>1
      <4> QED
        BY <1>4, <4>2
    <3>3. \A r \in rows : r.message # k
      BY <1>3, RowTyped DEF PagesInv
    <3>4. \A n \in Message' : n <= k
      BY <1>3, <1>4
    <3> QED
      BY <1>2, <1>3, <1>6, <2>1, <3>1, <3>2, <3>3, <3>4 DEF Turn
  <2>2. CASE d # c
    <3>1. m = handler[d].message /\ handler[d].pc = "producing"
      BY <2>2 DEF Receive, PagesInv, TypeInv, TypeOK
    <3>2. m \in Message /\ Turn(d, m)
      BY <3>1 DEF PagesInv, TypeInv, HandsOK, TurnInv
    <3> QED
      BY <1>2, <1>3, <1>6, <2>2, <3>2 DEF Turn
  <2> QED
    BY <2>1, <2>2
<1>10. HandInv'
  BY <1>2, <1>6 DEF PagesInv, HandInv
<1> QED
  BY <1>5, <1>8, <1>9, <1>10 DEF PagesInv

\* What producing does to the topics.
LEMMA ProducesLogs ==
    ASSUME TypeInv, TypeInv', NEW c \in Socket, Produces(c)
    PROVE  \A n : /\ Logged(n) => Logged(n)'
                  /\ Logged(n)' => Logged(n) \/ n = handler[c].message
<1>1. PICK m : m = handler[c].message
  OBVIOUS
<1>2. m \in Message /\ (Appended(m) \/ UNCHANGED log)
  BY <1>1, ProducesMoves
<1>3. CASE UNCHANGED log
  BY <1>3 DEF Logged
<1>4. CASE Appended(m)
  <2>1. \A t \in Topic :
           /\ Len(log'[t]) = IF t = TopicOf(m) THEN Len(log[t]) + 1 ELSE Len(log[t])
           /\ \A i \in 1..Len(log[t]) : log'[t][i] = log[t][i]
    BY <1>2, <1>4, AppendedKeeps
  <2>2. \A t \in Topic : Len(log[t]) \in Nat /\ Len(log'[t]) \in Nat
    BY <2>1, Sizes
  <2>3. log'[TopicOf(m)][Len(log[TopicOf(m)]) + 1] = m
    BY <1>2, <1>4, AppendedKeeps
  <2>4. ASSUME NEW n, Logged(n) PROVE Logged(n)'
    <3>1. PICK t \in Topic : \E i \in 1..Len(log[t]) : log[t][i] = n
      BY <2>4 DEF Logged
    <3>2. PICK i \in 1..Len(log[t]) : log[t][i] = n
      BY <3>1
    <3>3. i \in 1..Len(log'[t]) /\ log'[t][i] = n
      BY <2>1, <2>2, <3>2
    <3> QED
      BY <3>3 DEF Logged
  <2>5. ASSUME NEW n, NEW t \in Topic, NEW i \in 1..Len(log'[t]), log'[t][i] = n
        PROVE  Logged(n) \/ n = m
    <3>1. CASE i \in 1..Len(log[t])
      BY <2>1, <2>5, <3>1 DEF Logged
    <3>2. CASE i \notin 1..Len(log[t])
      <4>1. t = TopicOf(m) /\ i = Len(log[t]) + 1
        BY <2>1, <2>2, <3>2
      <4> QED
        BY <2>3, <2>5, <4>1
    <3> QED
      BY <3>1, <3>2
  <2>6. \A n : Logged(n)' => Logged(n) \/ n = m
    BY <2>5 DEF Logged
  <2> QED
    BY <1>1, <2>4, <2>6
<1> QED
  BY <1>2, <1>3, <1>4

\* A handler produces a message, or stores what it could not produce.
LEMMA ProducesPages ==
    ASSUME PagesInv, TypeInv', NEW c \in Socket, Produces(c)
    PROVE  PagesInv'
<1>1. PICK m, x, T : /\ m = handler[c].message /\ x = [message |-> m, id |-> NoMessage, at |-> T]
                     /\ T = clock + 1
  OBVIOUS
<1>2. /\ m \in Message /\ Turn(c, m) /\ UNCHANGED <<sent, consumer>> /\ doubtful \subseteq doubtful'
      /\ x.message = m /\ x.id = NoMessage /\ x.at = T
      /\ Message' = Message
  <2>1. m \in Message /\ handler[c].pc = "producing" /\ UNCHANGED <<sent, consumer>> /\ doubtful \subseteq doubtful'
    BY <1>1, ProducesMoves DEF PagesInv
  <2> QED
    BY <1>1, <2>1 DEF PagesInv, TurnInv, Message
<1>3. \/ UNCHANGED <<clock, rows>>
      \/ clock' = T /\ rows' = rows \cup {x} /\ (UNCHANGED log \/ m \in doubtful')
  BY <1>1 DEF Produces, KafkaProduce, SaveMessage, NotProduced, ProduceFails, Create
<1>4. \A n : (Logged(n) => Logged(n)') /\ (Logged(n)' => Logged(n) \/ n = m)
  BY <1>1, ProducesLogs DEF PagesInv
<1>5. \A d \in Socket : handler'[d].pc = "producing" => d # c /\ handler'[d] = handler[d]
  <2>1. PICK pc \in {"showing", "crashed"} : Then(c, pc)
    BY ProducesMoves DEF PagesInv
  <2>2. \A d \in Socket : d # c => handler'[d] = handler[d]
    BY <2>1 DEF Then, PagesInv, TypeInv, TypeOK
  <2>3. handler'[c].pc = pc
    <3>1. ~At(c, "reading") /\ UNCHANGED sent
      BY ProducesMoves DEF PagesInv, At
    <3> QED
      BY <2>1, <3>1, ThenTyped DEF PagesInv
  <2> QED
    BY <2>2, <2>3
<1>6. /\ clock \in Nat /\ clock' \in Nat /\ clock <= clock' /\ T \in Nat /\ T > clock
      /\ \A n \in Message : sent[n].at \in Nat /\ sent[n].at <= clock
  BY <1>1, <1>3, Sizes DEF PagesInv, TimesInv
<1>7. TimesInv'
  <2>1. \A n \in Message : sent[n].at <= clock'
    BY <1>6
  <2> QED
    BY <1>2, <2>1 DEF PagesInv, TimesInv
<1>8. \A r \in rows : /\ r.message \in Message /\ r.message # m /\ r.at \in Nat /\ r.at <= clock
                      /\ InPlace(r)' /\ (Consumed(r)' \/ Fallback(r)')
  <2> SUFFICES ASSUME NEW r \in rows
               PROVE  /\ r.message \in Message /\ r.message # m /\ r.at \in Nat /\ r.at <= clock
                      /\ InPlace(r)' /\ (Consumed(r)' \/ Fallback(r)')
    OBVIOUS
  <2>1. /\ r.message \in Message /\ r.message # m /\ r.at \in Nat /\ r.at <= clock
        /\ InPlace(r) /\ (Consumed(r) \/ Fallback(r))
    BY <1>2, RowTyped DEF PagesInv, RowsInv, Turn, InPlace
  <2>2. r.at <= clock'
    BY <1>6, <2>1
  <2>3. InPlace(r)'
    BY <1>2, <2>1, <2>2 DEF InPlace
  <2>4. (Consumed(r) => Consumed(r)') /\ (Fallback(r) => Fallback(r)')
    BY <1>2, <1>4, <2>1 DEF Consumed, Fallback
  <2> QED
    BY <2>1, <2>3, <2>4
<1>9. rows' # rows => InPlace(x)' /\ Fallback(x)' /\ \A r \in rows : r.at # x.at
  <2> SUFFICES ASSUME rows' # rows
               PROVE  InPlace(x)' /\ Fallback(x)' /\ \A r \in rows : r.at # x.at
    OBVIOUS
  <2>1. clock' = T /\ (UNCHANGED log \/ m \in doubtful')
    BY <1>3
  <2>2. sent[m].at <= T /\ \A n \in Message : T # sent[n].at
    BY <1>2, <1>6
  <2>3. \A n \in Message : ~(n > m /\ sent[n].by = sent[m].by)
    BY <1>2 DEF Turn, Message
  <2>4. InPlace(x)'
    BY <1>2, <1>6, <2>1, <2>2, <2>3 DEF InPlace
  <2>5. Logged(m)' => m \in doubtful'
    BY <1>2, <2>1 DEF Turn, Logged
  <2>6. Fallback(x)'
    BY <1>2, <2>2, <2>5 DEF Fallback
  <2>7. \A r \in rows : r.at # x.at
    BY <1>2, <1>6, <1>8
  <2> QED
    BY <2>4, <2>6, <2>7
<1>10. RowsInv'
  <2>1. IsFiniteSet(rows')
    BY <1>3, FS_AddElement DEF PagesInv, RowsInv
  <2>2. \A r \in rows' : InPlace(r)' /\ (Consumed(r)' \/ Fallback(r)')
    BY <1>3, <1>8, <1>9
  <2>3. \A r, q \in rows' : r.at = q.at \/ (r.message = q.message /\ r.id = q.id) => r = q
    <3>1. \A r, q \in rows : r.at = q.at \/ (r.message = q.message /\ r.id = q.id) => r = q
      BY DEF PagesInv, RowsInv
    <3>2. \A r \in rows : r.message # x.message
      BY <1>2, <1>8
    <3> QED
      BY <1>3, <1>9, <3>1, <3>2
  <2> QED
    BY <2>1, <2>2, <2>3 DEF RowsInv
<1>11. TurnInv'
  <2> SUFFICES ASSUME NEW d \in Socket, NEW n, n = handler'[d].message, handler'[d].pc = "producing"
               PROVE  Turn(d, n)'
    BY DEF TurnInv, Turn, Logged
  <2>1. d # c /\ n = handler[d].message /\ handler[d].pc = "producing"
    BY <1>5
  <2>2. Turn(d, n) /\ n # m
    BY <1>2, <2>1 DEF PagesInv, TurnInv, Turn
  <2> QED
    BY <1>2, <1>3, <1>4, <2>2 DEF Turn
<1>12. HandInv'
  BY <1>2, <1>4 DEF PagesInv, HandInv
<1> QED
  BY <1>7, <1>10, <1>11, <1>12 DEF PagesInv

LEMMA PagesKept == PagesInv /\ [Next]_vars => PagesInv'
<1> SUFFICES ASSUME PagesInv, [Next]_vars PROVE PagesInv'
  OBVIOUS
<1>1. TypeInv'
  BY TypeKept DEF PagesInv
<1>2. CASE UNCHANGED vars
  <2>1. Still
    BY <1>2 DEF Still, Logged, PagesInv, HandInv, vars, process, broker, ghosts
  <2> QED
    BY <1>1, <2>1, StillPages
<1>3. CASE \/ Disconnected \/ Close \/ Startup \/ Stop \/ Cancel \/ Shutdown \/ Crash
           \/ CreateConsumer \/ SendToDlq \/ AutoCommit
           \/ \E c \in Socket : Broadcast(c)
  BY <1>1, <1>3, StillSteps, StillPages
<1> QED
  BY <1>1, <1>2, <1>3, ReceivePages, ProducesPages, ProcessPages, TakeStill, StillPages
     DEF Next, Produces

LEMMA InitPages == Init => PagesInv
<1> SUFFICES ASSUME Init PROVE PagesInv
  OBVIOUS
<1>1. Message = {}
  <2>1. Len(sent) = 0
    BY EmptySeq DEF Init
  <2> QED
    BY <2>1 DEF Message
<1>2. consumer.message = NoMessage
  BY DEF Init, Off
<1>3. RowsInv
  BY FS_EmptySet DEF Init, RowsInv
<1>4. TurnInv
  BY DEF Init, TurnInv, Idle
<1> QED
  BY <1>1, <1>2, <1>3, <1>4, InitTyped DEF PagesInv, TimesInv, HandInv

\* Some of the room's rows, by time, have what a connection sent in order and once.
LEMMA PageInOrder ==
    ASSUME PagesInv, NEW S \in SUBSET rows
    PROVE  InOrder(Sorted(S))
<1>1. /\ IsFiniteSet(S)
      /\ \A r \in S : r.message \in Message /\ r.at \in Nat /\ InPlace(r) /\ (Consumed(r) \/ Fallback(r))
      /\ \A r, q \in S : r.at = q.at \/ (r.message = q.message /\ r.id = q.id) => r = q
  BY RowTyped, FS_Subset DEF PagesInv, RowsInv
<1>2. Timed(S)
  BY <1>1 DEF Timed
<1>3. PICK page : page = Sorted(S)
  OBVIOUS
<1>4. /\ \A i \in DOMAIN page : page[i] \in S
      /\ \A i, j \in DOMAIN page : i < j => page[i].at < page[j].at
  BY <1>2, <1>3, SortedIs, SortedRises
<1> SUFFICES ASSUME NEW i \in DOMAIN page, NEW j \in DOMAIN page, i < j
             PROVE  /\ sent[page[i].message].by = sent[page[j].message].by
                          => page[i].message <= page[j].message
                    /\ page[i].message = page[j].message => page[i].message \in doubtful
  BY <1>3 DEF InOrder
<1>5. PICK r, q : r = page[i] /\ q = page[j]
  OBVIOUS
<1>6. r \in S /\ q \in S /\ r.at < q.at /\ r # q /\ r.at \in Nat /\ q.at \in Nat
  BY <1>1, <1>4, <1>5
<1>7. sent[r.message].by = sent[q.message].by => r.message <= q.message
  <2>1. /\ r.message \in Message /\ q.message \in Message /\ InPlace(r) /\ InPlace(q)
        /\ r.message \in Nat /\ q.message \in Nat /\ sent[r.message].at \in Nat
    BY <1>1, <1>6, Sizes DEF Message, PagesInv
  <2>2. SUFFICES ASSUME sent[r.message].by = sent[q.message].by, r.message > q.message PROVE FALSE
    BY <2>1
  <2>3. q.at < sent[r.message].at /\ sent[r.message].at <= r.at
    BY <2>1, <2>2 DEF InPlace
  <2> QED
    BY <1>6, <2>1, <2>3
<1>8. r.message = q.message => r.message \in doubtful
  <2> SUFFICES ASSUME r.message = q.message PROVE r.message \in doubtful
    OBVIOUS
  <2>1. (Consumed(r) \/ Fallback(r)) /\ (Consumed(q) \/ Fallback(q)) /\ r.id # q.id
    BY <1>1, <1>6
  <2> QED
    BY <2>1 DEF Consumed, Fallback
<1> QED
  BY <1>5, <1>7, <1>8

\* However a room message came to the table, late and repeatedly by way of its topic
\* or by the fallback, every page of the history and of a replay has what one
\* connection sent in the order it was sent, and twice only what the producer gave
\* up on and the broker had, for any sockets, messages, faults and retries.
THEOREM PagesInOrderCorrect == Spec => []PagesInOrder
<1>1. PagesInv => PagesInOrder
  <2> SUFFICES ASSUME PagesInv PROVE PagesInOrder
    OBVIOUS
  <2>1. \A limit : InOrder(GetRoomHistory(limit))
    BY PageInOrder DEF GetRoomHistory, RoomRows
  <2>2. \A since, limit : InOrder(GetByRoomSince(since, limit))
    BY PageInOrder DEF GetByRoomSince, RoomRows
  <2> QED
    BY <2>1, <2>2 DEF PagesInOrder
<1> QED
  BY <1>1, InitPages, PagesKept, PTL DEF Spec

=============================================================================
