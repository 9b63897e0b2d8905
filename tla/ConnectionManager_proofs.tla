--------------------- MODULE ConnectionManager_proofs ---------------------
(***************************************************************************)
(* Proofs about ConnectionManager for every set of users, rooms,           *)
(* connections and broadcasting goroutines.                                *)
(***************************************************************************)
EXTENDS ConnectionManager, SequenceTheorems, FiniteSetTheorems,
        WellFoundedInduction, TLAPS

----------------------------------------------------------------------------
(* Removing a user from a join order.                                      *)

Distinct(s) == \A i, j \in DOMAIN s : s[i] = s[j] => i = j

\* What RemoveFirst leaves of a sequence without repetitions: position k goes
\* and everything after it moves down by one.
LEMMA RemoveFirstShift ==
    ASSUME NEW S, NEW s \in Seq(S), Distinct(s), NEW k \in 1..Len(s)
    PROVE  LET t == RemoveFirst(s, s[k])
           IN  /\ t \in Seq(S)
               /\ Len(t) = Len(s) - 1
               /\ \A i \in 1..Len(t) : t[i] = IF i < k THEN s[i] ELSE s[i + 1]
<1> DEFINE I  == {i \in 1..Len(s) : s[i] = s[k]}
           lo == SubSeq(s, 1, k - 1)
           hi == SubSeq(s, k + 1, Len(s))
<1>1. DOMAIN s = 1..Len(s) /\ Len(s) \in Nat /\ \A i \in 1..Len(s) : s[i] \in S
  BY ElementOfSeq, LenProperties
<1>2. I = {k}
  BY <1>1 DEF Distinct
<1>3. Min(I) = k
  BY <1>1, <1>2 DEF Min
<1>4. RemoveFirst(s, s[k]) = lo \o hi
  BY <1>2, <1>3 DEF RemoveFirst, SelectInSeq, RemoveAt
<1>5. /\ lo \in Seq(S) /\ Len(lo) = k - 1
      /\ \A i \in 1..(k - 1) : lo[i] = s[i]
  <2>1. \A i \in 1..(k - 1) : s[i] \in S
    BY <1>1
  <2> QED
    BY <1>1, <2>1, SubSeqProperties, Z3
<1>6. /\ hi \in Seq(S) /\ Len(hi) = Len(s) - k
      /\ \A i \in 1..(Len(s) - k) : hi[i] = s[k + i]
  <2>1. \A i \in (k + 1)..Len(s) : s[i] \in S
    BY <1>1
  <2> QED
    BY <1>1, <2>1, SubSeqProperties, Z3
<1> HIDE DEF lo, hi
<1>7. /\ lo \o hi \in Seq(S)
      /\ Len(lo \o hi) = Len(s) - 1
      /\ \A i \in 1..(Len(s) - 1) : (lo \o hi)[i] =
            IF i <= k - 1 THEN lo[i] ELSE hi[i - (k - 1)]
  <2>1. /\ lo \o hi \in Seq(S)
        /\ Len(lo \o hi) = Len(lo) + Len(hi)
        /\ \A i \in 1..(Len(lo) + Len(hi)) : (lo \o hi)[i] =
              IF i <= Len(lo) THEN lo[i] ELSE hi[i - Len(lo)]
    BY <1>5, <1>6, ConcatProperties, Zenon
  <2>2. Len(lo) = k - 1 /\ Len(lo) + Len(hi) = Len(s) - 1
    BY <1>1, <1>5, <1>6
  <2> QED
    BY <2>1, <2>2, Zenon
<1> QED
  BY <1>1, <1>4, <1>5, <1>6, <1>7

\* RemoveFirst keeps a join order free of repetitions and removes exactly e.
LEMMA RemoveFirstProperties ==
    ASSUME NEW S, NEW s \in Seq(S), Distinct(s), NEW e
    PROVE  /\ RemoveFirst(s, e) \in Seq(S)
           /\ Distinct(RemoveFirst(s, e))
           /\ \A x : Contains(s, x) /\ x # e => Contains(RemoveFirst(s, e), x)
<1>1. DOMAIN s = 1..Len(s) /\ Len(s) \in Nat
  BY LenProperties
<1>2. CASE ~Contains(s, e)
  BY <1>2 DEF RemoveFirst, Contains
<1>3. CASE Contains(s, e)
  <2>1. PICK k \in 1..Len(s) : s[k] = e
    BY <1>3 DEF Contains
  <2> DEFINE t == RemoveFirst(s, e)
  <2>2. /\ t \in Seq(S)
        /\ Len(t) = Len(s) - 1
        /\ \A i \in 1..Len(t) : t[i] = IF i < k THEN s[i] ELSE s[i + 1]
    BY <2>1, RemoveFirstShift
  <2> HIDE DEF t
  <2>3. DOMAIN t = 1..Len(t)
    BY <2>2, LenProperties
  <2>4. Distinct(t)
    <3> SUFFICES ASSUME NEW i \in 1..Len(t), NEW j \in 1..Len(t), t[i] = t[j]
                 PROVE  i = j
      BY <2>3 DEF Distinct
    <3>1. \A a, b \in 1..Len(s) : s[a] = s[b] => a = b
      BY <1>1 DEF Distinct
    <3>2. PICK a \in 1..Len(s) : t[i] = s[a] /\ a = IF i < k THEN i ELSE i + 1
      BY <1>1, <2>2
    <3>3. PICK b \in 1..Len(s) : t[j] = s[b] /\ b = IF j < k THEN j ELSE j + 1
      BY <1>1, <2>2
    <3>4. a = b
      BY <3>1, <3>2, <3>3
    <3> QED
      BY <1>1, <2>2, <3>2, <3>3, <3>4
  <2>5. ASSUME NEW x, Contains(s, x), x # e
        PROVE  Contains(t, x)
    <3>1. PICK i \in 1..Len(s) : s[i] = x
      BY <2>5 DEF Contains
    <3>2. CASE i < k
      <4>1. i \in 1..Len(t) /\ t[i] = x
        BY <1>1, <2>2, <3>1, <3>2
      <4> QED
        BY <4>1 DEF Contains
    <3>3. CASE i > k
      <4>1. (i - 1) \in 1..Len(t) /\ t[i - 1] = x
        BY <1>1, <2>2, <3>1, <3>3
      <4> QED
        BY <4>1 DEF Contains
    <3> QED
      BY <1>1, <2>1, <2>5, <3>1, <3>2, <3>3
  <2> QED
    BY <2>2, <2>4, <2>5 DEF t
<1> QED
  BY <1>2, <1>3

\* Appending somebody new keeps a join order free of repetitions.
LEMMA AppendDistinct ==
    ASSUME NEW S, NEW s \in Seq(S), NEW e \in S, Distinct(s), ~Contains(s, e)
    PROVE  /\ Append(s, e) \in Seq(S)
           /\ Distinct(Append(s, e))
           /\ Contains(Append(s, e), e)
           /\ \A x : Contains(s, x) => Contains(Append(s, e), x)
<1> DEFINE t == Append(s, e)
<1>1. DOMAIN s = 1..Len(s) /\ Len(s) \in Nat
  BY LenProperties
<1>2. /\ t \in Seq(S) /\ Len(t) = Len(s) + 1
      /\ \A i \in 1..Len(s) : t[i] = s[i]
      /\ t[Len(s) + 1] = e
  BY AppendProperties
<1> HIDE DEF t
<1>3. DOMAIN t = 1..Len(t)
  BY <1>2, LenProperties
<1>4. Distinct(t)
  BY <1>1, <1>2, <1>3 DEF Distinct, Contains
<1>5. Contains(t, e) /\ \A x : Contains(s, x) => Contains(t, x)
  BY <1>1, <1>2 DEF Contains
<1> QED
  BY <1>2, <1>4, <1>5 DEF t

----------------------------------------------------------------------------
(* Type correctness.  Join orders need RemoveFirst to return a sequence of *)
(* users, which is shown for orders without repetitions: the two are       *)
(* proved together.  Here the gauges are only integers: that none goes     *)
(* below zero follows from what they count, with the inductive invariant.  *)

OrdersDistinct == \A r \in Room : Distinct(roomJoinOrder[r])

MapsOK ==
    /\ rooms         \in [Room -> SUBSET Conn]
    /\ roomKeys      \in SUBSET Room
    /\ connUser      \in [Conn -> User \cup {NoUser}]
    /\ userConns     \in [User -> SUBSET Conn]
    /\ lobbyConns    \in [Conn -> User \cup {NoUser}]
    /\ connMu        \in SUBSET Conn
    /\ roomJoinOrder \in [Room -> Seq(User)]
    /\ roomGauge     \in Int
    /\ lobbyGauge    \in Int
    /\ bcast         \in [Broadcaster -> [room   : Room,
                                          todo   : SUBSET Conn,
                                          failed : SUBSET Conn]]

TypeInv == MapsOK /\ OrdersDistinct

\* What DropUserFromOrder returns is a join order again.
LEMMA DropUserType ==
    ASSUME TypeInv, NEW r \in Room, NEW u, NEW conns
    PROVE  /\ DropUserFromOrder(r, u, conns) \in Seq(User)
           /\ Distinct(DropUserFromOrder(r, u, conns))
<1>1. roomJoinOrder[r] \in Seq(User) /\ Distinct(roomJoinOrder[r])
  BY DEF TypeInv, MapsOK, OrdersDistinct
<1>2. /\ RemoveFirst(roomJoinOrder[r], u) \in Seq(User)
      /\ Distinct(RemoveFirst(roomJoinOrder[r], u))
  BY <1>1, RemoveFirstProperties, Zenon
<1>3. <<>> \in Seq(User) /\ Distinct(<<>>)
  BY DEF Distinct
<1> QED
  BY <1>2, <1>3 DEF DropUserFromOrder

\* Forget keeps the types of the three maps it changes.
LEMMA ForgetType ==
    ASSUME MapsOK, NEW D, Forget(D)
    PROVE  /\ connUser' \in [Conn -> User \cup {NoUser}]
           /\ connMu' \in SUBSET Conn
           /\ userConns' \in [User -> SUBSET Conn]
BY DEF MapsOK, Forget

\* Cardinalities of sets of connections are numbers.
LEMMA ConnCardinality ==
    ASSUME NEW S \in SUBSET Conn
    PROVE  IsFiniteSet(S) /\ Cardinality(S) \in Nat
BY ConnAssumption, FS_Subset, FS_CardinalityType

LEMMA TypeInvInit == Init => TypeInv
BY DEF Init, TypeInv, MapsOK, OrdersDistinct, Distinct, IdleBcast

LEMMA TypeInvNext == TypeInv /\ [Next]_vars => TypeInv'
<1> SUFFICES ASSUME TypeInv, [Next]_vars
             PROVE  TypeInv'
  OBVIOUS
<1> USE DEF TypeInv
<1>1. ASSUME NEW r \in Room, NEW c \in Conn, NEW u \in User, ConnectRoom(r, c, u)
      PROVE  TypeInv'
  <2>1. roomJoinOrder[r] \in Seq(User) /\ Distinct(roomJoinOrder[r])
    BY DEF MapsOK, OrdersDistinct
  <2> DEFINE new == IF Contains(roomJoinOrder[r], u) THEN roomJoinOrder[r]
                    ELSE Append(roomJoinOrder[r], u)
  <2>2. new \in Seq(User) /\ Distinct(new)
    BY <2>1, AppendDistinct
  <2>3. roomJoinOrder' = [roomJoinOrder EXCEPT ![r] = new]
    BY <1>1 DEF ConnectRoom, MapsOK
  <2> HIDE DEF new
  <2>4. /\ roomJoinOrder' \in [Room -> Seq(User)]
        /\ OrdersDistinct'
    BY <2>2, <2>3 DEF MapsOK, OrdersDistinct
  <2> QED
    BY <1>1, <2>4 DEF ConnectRoom, MapsOK
<1>2. ASSUME NEW r \in Room, NEW c \in Conn, DisconnectRoom(r, c)
      PROVE  TypeInv'
  <2> DEFINE rest == rooms[r] \ {c}
             new  == IF \E d \in rest : connUser[d] = connUser[c]
                     THEN roomJoinOrder[r]
                     ELSE DropUserFromOrder(r, connUser[c], rest)
  <2>1. new \in Seq(User) /\ Distinct(new)
    BY DropUserType DEF MapsOK, OrdersDistinct
  <2>2. roomJoinOrder' = [roomJoinOrder EXCEPT ![r] = new]
    BY <1>2 DEF DisconnectRoom, MapsOK
  <2> HIDE DEF new
  <2>3. roomJoinOrder' \in [Room -> Seq(User)] /\ OrdersDistinct'
    BY <2>1, <2>2 DEF MapsOK, OrdersDistinct
  <2>4. Forget({c})
    BY <1>2 DEF DisconnectRoom
  <2> QED
    BY <1>2, <2>3, <2>4, ForgetType DEF DisconnectRoom, MapsOK
<1>3. ASSUME NEW r \in Room, NEW u \in User, CloseUserConnsInRoom(r, u)
      PROVE  TypeInv'
  <2> DEFINE gone == ConnsInRoom(r, u)
             new  == DropUserFromOrder(r, u, rooms[r] \ gone)
  <2>1. new \in Seq(User) /\ Distinct(new)
    BY DropUserType
  <2>2. roomJoinOrder' = [roomJoinOrder EXCEPT ![r] = new]
    BY <1>3 DEF CloseUserConnsInRoom
  <2> HIDE DEF new
  <2>3. roomJoinOrder' \in [Room -> Seq(User)] /\ OrdersDistinct'
    BY <2>1, <2>2 DEF MapsOK, OrdersDistinct
  <2>4. Forget(gone) /\ gone \in SUBSET Conn
    BY <1>3 DEF CloseUserConnsInRoom, ConnsInRoom, MapsOK
  <2>5. roomGauge' \in Int
    BY <1>3, <2>4, ConnCardinality DEF CloseUserConnsInRoom, MapsOK
  <2> QED
    BY <1>3, <2>3, <2>4, <2>5, ForgetType DEF CloseUserConnsInRoom, MapsOK
<1>4. ASSUME NEW r \in Room, CloseAllInRoom(r)
      PROVE  TypeInv'
  <2>1. Forget(rooms[r]) /\ rooms[r] \in SUBSET Conn
    BY <1>4 DEF CloseAllInRoom, MapsOK
  <2>2. roomJoinOrder' \in [Room -> Seq(User)] /\ OrdersDistinct'
    BY <1>4 DEF CloseAllInRoom, MapsOK, OrdersDistinct, Distinct
  <2>3. roomGauge' \in Int
    BY <1>4, <2>1, ConnCardinality DEF CloseAllInRoom, MapsOK
  <2> QED
    BY <1>4, <2>1, <2>2, <2>3, ForgetType DEF CloseAllInRoom, MapsOK
<1>5. ASSUME NEW c \in Conn, NEW u \in User, ConnectLobby(c, u)
      PROVE  TypeInv'
  BY <1>5 DEF ConnectLobby, MapsOK, OrdersDistinct
<1>6. ASSUME NEW c \in Conn, DisconnectLobby(c)
      PROVE  TypeInv'
  <2>1. /\ lobbyConns' \in [Conn -> User \cup {NoUser}]
        /\ lobbyGauge' \in Int
        /\ bcast' = bcast
    BY <1>6 DEF DisconnectLobby, MapsOK
  <2>2. CASE \E d \in Conn \ {c} : lobbyConns[d] = lobbyConns[c]
    <3>1. Forget({c}) /\ UNCHANGED <<rooms, roomKeys, roomJoinOrder, roomGauge>>
      BY <1>6, <2>2 DEF DisconnectLobby
    <3> QED
      BY <2>1, <3>1, ForgetType DEF MapsOK, OrdersDistinct
  <2>3. CASE ~ \E d \in Conn \ {c} : lobbyConns[d] = lobbyConns[c]
    <3> DEFINE u       == lobbyConns[c]
               gone    == {d \in Conn : connUser[d] = u}
               left(r) == rooms[r] \ gone
    <3>1. EvictUser(u, c)
      BY <1>6, <2>3 DEF DisconnectLobby
    <3>2. \A r \in Room : /\ DropUserFromOrder(r, u, left(r)) \in Seq(User)
                          /\ Distinct(DropUserFromOrder(r, u, left(r)))
      BY DropUserType
    <3>3. roomJoinOrder' \in [Room -> Seq(User)] /\ OrdersDistinct'
      BY <3>1, <3>2 DEF EvictUser, MapsOK, OrdersDistinct
    <3>4. Forget(gone \cup {c}) /\ roomGauge' = roomGauge - Cardinality(gone)
      BY <3>1 DEF EvictUser
    <3>5. roomGauge' \in Int
      BY <3>4, ConnCardinality DEF MapsOK
    <3>6. rooms' \in [Room -> SUBSET Conn] /\ roomKeys' \in SUBSET Room
      BY <3>1 DEF EvictUser, MapsOK
    <3> QED
      BY <2>1, <3>3, <3>4, <3>5, <3>6, ForgetType DEF MapsOK
  <2> QED
    BY <2>2, <2>3
<1>7. CASE CloseAll
  <2>1. RoomConns \in SUBSET Conn /\ LobbyConns \in SUBSET Conn
    BY DEF RoomConns, LobbyConns
  <2>2. roomGauge' \in Int /\ lobbyGauge' \in Int
    BY <1>7, <2>1, ConnCardinality DEF CloseAll, MapsOK
  <2>3. OrdersDistinct'
    BY <1>7 DEF CloseAll, OrdersDistinct, Distinct
  <2> QED
    BY <1>7, <2>2, <2>3 DEF CloseAll, MapsOK
<1>8. ASSUME NEW b \in Broadcaster, NEW r \in Room, NEW except, BroadcastSnapshot(b, r, except)
      PROVE  TypeInv'
  BY <1>8 DEF BroadcastSnapshot, MapsOK, OrdersDistinct
<1>9. ASSUME NEW b \in Broadcaster, NEW c \in Conn, NEW ok \in BOOLEAN, BroadcastWrite(b, c, ok)
      PROVE  TypeInv'
  <2>1. UNCHANGED <<rooms, roomKeys, connUser, userConns, lobbyConns, connMu,
                    roomJoinOrder, roomGauge, lobbyGauge>>
    BY <1>9 DEF BroadcastWrite
  <2>2. bcast' \in [Broadcaster -> [room : Room, todo : SUBSET Conn, failed : SUBSET Conn]]
    <3> DEFINE Rows == [room : Room, todo : SUBSET Conn, failed : SUBSET Conn]
    <3>1. PICK row : row = [bcast[b] EXCEPT !.todo   = @ \ {c},
                                            !.failed = IF ok THEN @ ELSE @ \cup {c}]
      OBVIOUS
    <3>2. bcast \in [Broadcaster -> Rows] /\ bcast[b] \in Rows
      BY DEF MapsOK
    <3>3. row \in Rows
      BY <3>1, <3>2
    <3> HIDE DEF Rows
    <3>4. bcast' = [bcast EXCEPT ![b] = row]
      BY <1>9, <3>1, <3>2 DEF BroadcastWrite, Rows
    <3> QED
      BY <3>2, <3>3, <3>4 DEF Rows
  <2>3. OrdersDistinct'
    BY <2>1 DEF OrdersDistinct
  <2> QED
    BY <2>1, <2>2, <2>3 DEF MapsOK
<1>10. ASSUME NEW b \in Broadcaster, BroadcastReap(b)
       PROVE  TypeInv'
  <2> DEFINE dead == {c \in bcast[b].failed : connUser[c] # NoUser}
  <2>1. Forget(dead) /\ dead \in SUBSET Conn
    BY <1>10 DEF BroadcastReap, MapsOK
  <2>2. roomGauge' \in Int
    <3>1. roomGauge' = roomGauge - Cardinality(dead)
      BY <1>10 DEF BroadcastReap
    <3> HIDE DEF dead
    <3> QED
      BY <2>1, <3>1, ConnCardinality DEF MapsOK
  <2>3. rooms' \in [Room -> SUBSET Conn]
    BY <1>10 DEF BroadcastReap, MapsOK
  <2>4. bcast' \in [Broadcaster -> [room : Room, todo : SUBSET Conn, failed : SUBSET Conn]]
    <3> DEFINE Rows == [room : Room, todo : SUBSET Conn, failed : SUBSET Conn]
    <3>1. PICK row : row = [bcast[b] EXCEPT !.failed = {}]
      OBVIOUS
    <3>2. bcast \in [Broadcaster -> Rows] /\ bcast[b] \in Rows
      BY DEF MapsOK
    <3>3. row \in Rows
      BY <3>1, <3>2
    <3> HIDE DEF Rows
    <3>4. bcast' = [bcast EXCEPT ![b] = row]
      BY <1>10, <3>1, <3>2 DEF BroadcastReap, Rows
    <3> QED
      BY <3>2, <3>3, <3>4 DEF Rows
  <2>5. UNCHANGED <<roomKeys, lobbyConns, roomJoinOrder, lobbyGauge>>
    BY <1>10 DEF BroadcastReap
  <2>6. OrdersDistinct'
    BY <2>5 DEF OrdersDistinct
  <2> HIDE DEF dead
  <2> QED
    BY <2>1, <2>2, <2>3, <2>4, <2>5, <2>6, ForgetType DEF MapsOK
<1>11. CASE UNCHANGED vars
  BY <1>11 DEF vars, MapsOK, OrdersDistinct
<1> QED
  BY <1>1, <1>2, <1>3, <1>4, <1>5, <1>6, <1>7, <1>8, <1>9, <1>10, <1>11 DEF Next

----------------------------------------------------------------------------
(* The inductive invariant: the maps agree with each other, and the gauges *)
(* and join orders agree with the maps.                                    *)

IInv ==
    /\ TypeInv
    /\ RoomsIndexed
    /\ UsersIndexed
    /\ BroadcastTargets
    /\ JoinOrderComplete
    /\ GaugesAgree

\* Six methods remove connections, each walking other maps.  What they have in
\* common: the room connections D and the lobby connections L go from every
\* map and from the gauges, and nobody who stays in a room loses the join order.
RemovalStep(D, L) ==
    /\ D \subseteq RoomConns /\ L \subseteq LobbyConns
    /\ \A r \in Room : rooms'[r] = rooms[r] \ D
    /\ Forget(D \cup L)
    /\ lobbyConns' = [c \in Conn |-> IF c \in L THEN NoUser ELSE lobbyConns[c]]
    /\ \A b \in Broadcaster :
          /\ bcast'[b].room = bcast[b].room
          /\ bcast'[b].todo \cup bcast'[b].failed
                \subseteq bcast[b].todo \cup bcast[b].failed
    /\ roomGauge'  = roomGauge - Cardinality(D)
    /\ lobbyGauge' = lobbyGauge - Cardinality(L)
    /\ \A r \in Room : \A c \in rooms'[r] :
          Contains(roomJoinOrder[r], connUser[c])
             => Contains(roomJoinOrder'[r], connUser[c])

\* Dropping user u from the order of a room keeps everybody else who stays.
LEMMA DropUserKeeps ==
    ASSUME TypeInv, NEW r \in Room, NEW u, NEW conns, NEW c \in conns,
           connUser[c] # u, Contains(roomJoinOrder[r], connUser[c])
    PROVE  Contains(DropUserFromOrder(r, u, conns), connUser[c])
<1>1. roomJoinOrder[r] \in Seq(User) /\ Distinct(roomJoinOrder[r])
  BY DEF TypeInv, MapsOK, OrdersDistinct
<1>2. \A x : Contains(roomJoinOrder[r], x) /\ x # u
                => Contains(RemoveFirst(roomJoinOrder[r], u), x)
  BY <1>1, RemoveFirstProperties, Zenon
<1> QED
  BY <1>2 DEF DropUserFromOrder

\* A removal keeps the whole invariant.
LEMMA RemovalPreserves ==
    ASSUME IInv, TypeInv', NEW D, NEW L, RemovalStep(D, L)
    PROVE  IInv'
<1> USE DEF IInv
<1>1. D \subseteq Conn /\ L \subseteq Conn /\ D \cap L = {}
  BY DEF RemovalStep, RoomConns, LobbyConns, RoomsIndexed
<1>2. \A c \in Conn : /\ connUser'[c] = IF c \in D THEN NoUser ELSE connUser[c]
                      /\ lobbyConns'[c] = IF c \in L THEN NoUser ELSE lobbyConns[c]
  BY <1>1 DEF RemovalStep, Forget, LobbyConns, RoomsIndexed, RoomConns
<1>3. RoomsIndexed'
  <2>1. \A r \in Room : rooms'[r] = rooms[r] \ D
    BY DEF RemovalStep
  <2> QED
    BY <1>1, <1>2, <2>1 DEF RoomsIndexed
<1>4. UsersIndexed'
  <2>1. \A u \in User : userConns'[u] = userConns[u] \ (D \cup L)
    BY DEF RemovalStep, Forget
  <2>2. connMu' = connMu \ (D \cup L)
    BY DEF RemovalStep, Forget
  <2>3. \A u \in User : u # NoUser
    BY NoUserAssumption
  <2>4. ASSUME NEW u \in User
        PROVE  userConns'[u] = {c \in Conn : connUser'[c] = u \/ lobbyConns'[c] = u}
    <3>1. userConns[u] = {c \in Conn : connUser[c] = u \/ lobbyConns[c] = u}
      BY DEF UsersIndexed
    <3>2. \A c \in D : lobbyConns[c] = NoUser
      BY <1>1 DEF RoomsIndexed, RemovalStep, RoomConns
    <3>3. \A c \in L : connUser[c] = NoUser
      BY <1>1 DEF RoomsIndexed, RemovalStep, LobbyConns
    <3> QED
      BY <1>1, <1>2, <2>1, <2>3, <3>1, <3>2, <3>3
  <2>5. connMu' = RoomConns' \cup LobbyConns'
    <3>1. connMu = RoomConns \cup LobbyConns
      BY DEF UsersIndexed
    <3>2. \A c \in RoomConns : lobbyConns[c] = NoUser
      BY DEF RoomsIndexed, RoomConns
    <3>3. D \subseteq RoomConns /\ L \subseteq LobbyConns
      BY DEF RemovalStep
    <3> QED
      BY <1>1, <1>2, <2>2, <3>1, <3>2, <3>3 DEF RoomConns, LobbyConns
  <2> QED
    BY <2>4, <2>5 DEF UsersIndexed
<1>5. BroadcastTargets'
  <2> SUFFICES ASSUME NEW b \in Broadcaster, NEW c \in bcast'[b].todo \cup bcast'[b].failed
               PROVE  /\ lobbyConns'[c] = NoUser
                      /\ connUser'[c] # NoUser => c \in rooms'[bcast'[b].room]
    BY DEF BroadcastTargets
  <2>1. c \in bcast[b].todo \cup bcast[b].failed /\ bcast'[b].room = bcast[b].room
    BY DEF RemovalStep
  <2>2. c \in Conn /\ bcast[b].room \in Room
    BY <2>1 DEF TypeInv, MapsOK
  <2>3. lobbyConns[c] = NoUser /\ (connUser[c] # NoUser => c \in rooms[bcast[b].room])
    BY <2>1 DEF BroadcastTargets
  <2> QED
    BY <1>2, <2>1, <2>2, <2>3 DEF RemovalStep
<1>6. JoinOrderComplete'
  <2>1. \A r \in Room : \A c \in rooms'[r] :
            /\ c \in Conn /\ c \in rooms[r]
            /\ connUser'[c] = connUser[c]
            /\ Contains(roomJoinOrder'[r], connUser[c])
    BY <1>2 DEF RemovalStep, JoinOrderComplete, TypeInv, MapsOK
  <2> QED
    BY <2>1 DEF JoinOrderComplete, TypeInv, OrdersDistinct, Distinct
<1>7. GaugesAgree'
  <2>1. RoomConns' = RoomConns \ D /\ LobbyConns' = LobbyConns \ L
    BY <1>1, <1>2 DEF RoomConns, LobbyConns
  <2>2. RoomConns \cap D = D /\ LobbyConns \cap L = L
    BY DEF RemovalStep
  <2>3. /\ IsFiniteSet(RoomConns) /\ Cardinality(RoomConns) \in Nat
        /\ IsFiniteSet(LobbyConns) /\ Cardinality(LobbyConns) \in Nat
    BY ConnCardinality DEF RoomConns, LobbyConns
  <2>4. /\ Cardinality(RoomConns \ D) = Cardinality(RoomConns) - Cardinality(D)
        /\ Cardinality(LobbyConns \ L) = Cardinality(LobbyConns) - Cardinality(L)
    <3>1. Cardinality(RoomConns \ D) = Cardinality(RoomConns) - Cardinality(RoomConns \cap D)
      BY <2>3, FS_Difference, Zenon
    <3>2. Cardinality(LobbyConns \ L) = Cardinality(LobbyConns) - Cardinality(LobbyConns \cap L)
      BY <2>3, FS_Difference, Zenon
    <3> QED
      BY <2>2, <3>1, <3>2, Zenon
  <2> QED
    BY <2>1, <2>4 DEF GaugesAgree, RemovalStep
<1> QED
  BY <1>3, <1>4, <1>5, <1>6, <1>7

\* The methods that remove connections.  In each, what is removed from the
\* registry is exactly what the method takes from the other maps.
LEMMA DisconnectRoomRemoves ==
    ASSUME IInv, NEW r \in Room, NEW c \in Conn, DisconnectRoom(r, c)
    PROVE  RemovalStep({c}, {})
<1> USE DEF IInv
<1> DEFINE rest == rooms[r] \ {c}
<1>1. /\ c \in rooms[r] /\ connUser[c] # NoUser
      /\ rooms' = [rooms EXCEPT ![r] = rest]
      /\ Forget({c})
      /\ roomGauge' = roomGauge - 1
      /\ UNCHANGED <<lobbyConns, lobbyGauge, bcast>>
  BY DEF DisconnectRoom
<1>2. \A q \in Room : rooms'[q] = rooms[q] \ {c}
  BY <1>1 DEF TypeInv, MapsOK, RoomsIndexed
<1>3. \A q \in Room : \A d \in rooms'[q] :
          Contains(roomJoinOrder[q], connUser[d])
             => Contains(roomJoinOrder'[q], connUser[d])
  <2> SUFFICES ASSUME NEW q \in Room, NEW d \in rooms'[q],
                      Contains(roomJoinOrder[q], connUser[d])
               PROVE  Contains(roomJoinOrder'[q], connUser[d])
    OBVIOUS
  <2>1. CASE q = r /\ ~ \E e \in rest : connUser[e] = connUser[c]
    <3>1. d \in rest /\ connUser[d] # connUser[c]
      BY <1>2, <2>1
    <3>2. roomJoinOrder'[q] = DropUserFromOrder(r, connUser[c], rest)
      BY <2>1 DEF DisconnectRoom, TypeInv, MapsOK
    <3> QED
      BY <2>1, <3>1, <3>2, DropUserKeeps
  <2>2. CASE q # r \/ \E e \in rest : connUser[e] = connUser[c]
    BY <2>2 DEF DisconnectRoom, TypeInv, MapsOK
  <2> QED
    BY <2>1, <2>2
<1>4. Cardinality({c}) = 1 /\ Cardinality({}) = 0
  BY FS_Singleton, FS_EmptySet
<1>5. lobbyGauge \in Int /\ lobbyConns' = [d \in Conn |-> IF d \in {} THEN NoUser ELSE lobbyConns[d]]
  BY <1>1 DEF TypeInv, MapsOK
<1> QED
  BY <1>1, <1>2, <1>3, <1>4, <1>5 DEF RemovalStep, RoomConns

LEMMA CloseUserConnsInRoomRemoves ==
    ASSUME IInv, NEW r \in Room, NEW u \in User, CloseUserConnsInRoom(r, u)
    PROVE  RemovalStep(ConnsInRoom(r, u), {})
<1> USE DEF IInv
<1> DEFINE gone == ConnsInRoom(r, u)
           rest == rooms[r] \ gone
<1>1. /\ rooms' = [rooms EXCEPT ![r] = rest]
      /\ roomJoinOrder' = [roomJoinOrder EXCEPT ![r] = DropUserFromOrder(r, u, rest)]
      /\ Forget(gone)
      /\ roomGauge' = roomGauge - Cardinality(gone)
      /\ UNCHANGED <<lobbyConns, lobbyGauge, bcast>>
  BY DEF CloseUserConnsInRoom
<1>2. gone \subseteq rooms[r] /\ \A c \in rooms[r] : c \in gone <=> connUser[c] = u
  BY DEF ConnsInRoom
<1>3. gone \subseteq RoomConns
  BY <1>2 DEF RoomConns, RoomsIndexed, TypeInv, MapsOK
<1> HIDE DEF gone
<1>4. \A q \in Room : rooms'[q] = rooms[q] \ gone
  BY <1>1, <1>2 DEF TypeInv, MapsOK, RoomsIndexed
<1>5. \A q \in Room : \A d \in rooms'[q] :
          Contains(roomJoinOrder[q], connUser[d])
             => Contains(roomJoinOrder'[q], connUser[d])
  <2> SUFFICES ASSUME NEW q \in Room, NEW d \in rooms'[q],
                      Contains(roomJoinOrder[q], connUser[d])
               PROVE  Contains(roomJoinOrder'[q], connUser[d])
    OBVIOUS
  <2>1. CASE q = r
    <3>1. d \in rest /\ connUser[d] # u
      BY <1>2, <1>4, <2>1
    <3>2. roomJoinOrder'[q] = DropUserFromOrder(r, u, rest)
      BY <1>1, <2>1 DEF TypeInv, MapsOK
    <3> QED
      BY <2>1, <3>1, <3>2, DropUserKeeps
  <2>2. CASE q # r
    BY <1>1, <2>2 DEF TypeInv, MapsOK
  <2> QED
    BY <2>1, <2>2
<1>6. Cardinality({}) = 0
  BY FS_EmptySet
<1>7. lobbyGauge \in Int /\ lobbyConns' = [d \in Conn |-> IF d \in {} THEN NoUser ELSE lobbyConns[d]]
  BY <1>1 DEF TypeInv, MapsOK
<1>8. RemovalStep(gone, {})
  <2>1. gone \cup {} = gone /\ lobbyGauge - 0 = lobbyGauge
    BY <1>7
  <2>2. Forget(gone \cup {}) /\ lobbyGauge' = lobbyGauge - Cardinality({})
    BY <1>1, <1>3, <1>6, <2>1
  <2>3. \A b \in Broadcaster :
           /\ bcast'[b].room = bcast[b].room
           /\ bcast'[b].todo \cup bcast'[b].failed \subseteq bcast[b].todo \cup bcast[b].failed
    BY <1>1
  <2> QED
    BY <1>1, <1>3, <1>4, <1>5, <1>7, <2>2, <2>3 DEF RemovalStep
<1> QED
  BY <1>8 DEF gone

LEMMA CloseAllInRoomRemoves ==
    ASSUME IInv, NEW r \in Room, CloseAllInRoom(r)
    PROVE  RemovalStep(rooms[r], {})
<1> USE DEF IInv
<1>1. rooms[r] \subseteq RoomConns
  BY DEF RoomConns, RoomsIndexed, TypeInv, MapsOK
<1>2. \A q \in Room : rooms'[q] = rooms[q] \ rooms[r]
  BY DEF CloseAllInRoom, TypeInv, MapsOK, RoomsIndexed
<1>3. \A q \in Room : \A d \in rooms'[q] : roomJoinOrder'[q] = roomJoinOrder[q]
  BY <1>2 DEF CloseAllInRoom, TypeInv, MapsOK
<1>4. Cardinality({}) = 0
  BY FS_EmptySet
<1>5. lobbyGauge \in Int /\ lobbyConns' = [d \in Conn |-> IF d \in {} THEN NoUser ELSE lobbyConns[d]]
  BY DEF CloseAllInRoom, TypeInv, MapsOK
<1> QED
  BY <1>1, <1>2, <1>3, <1>4, <1>5 DEF RemovalStep, CloseAllInRoom

\* The last lobby connection of a user takes every room connection with it;
\* any other one goes alone.
LEMMA DisconnectLobbyRemoves ==
    ASSUME IInv, NEW c \in Conn, DisconnectLobby(c)
    PROVE  \E D : RemovalStep(D, {c})
<1> USE DEF IInv
<1>1. /\ lobbyConns[c] # NoUser
      /\ lobbyConns' = [d \in Conn |-> IF d \in {c} THEN NoUser ELSE lobbyConns[d]]
      /\ lobbyGauge' = lobbyGauge - 1
      /\ bcast' = bcast
  BY DEF DisconnectLobby, TypeInv, MapsOK
<1>2. {c} \subseteq LobbyConns
  BY <1>1 DEF LobbyConns
<1>3. Cardinality({c}) = 1 /\ Cardinality({}) = 0
  BY FS_Singleton, FS_EmptySet
<1>4. CASE \E d \in Conn \ {c} : lobbyConns[d] = lobbyConns[c]
  <2>1. Forget({c}) /\ UNCHANGED <<rooms, roomKeys, roomJoinOrder, roomGauge>>
    BY <1>4 DEF DisconnectLobby
  <2>2. {} \cup {c} = {c} /\ \A r \in Room : rooms'[r] = rooms[r] \ {}
    BY <2>1 DEF TypeInv, MapsOK
  <2>3. roomGauge' = roomGauge - Cardinality({})
    BY <1>3, <2>1 DEF TypeInv, MapsOK
  <2>4. RemovalStep({}, {c})
    BY <1>1, <1>2, <1>3, <2>1, <2>2, <2>3 DEF RemovalStep
  <2> QED
    BY <2>4
<1>5. CASE ~ \E d \in Conn \ {c} : lobbyConns[d] = lobbyConns[c]
  <2> DEFINE u       == lobbyConns[c]
             gone    == {d \in Conn : connUser[d] = u}
             left(r) == rooms[r] \ gone
  <2>1. EvictUser(u, c)
    BY <1>5 DEF DisconnectLobby
  <2>2. /\ Forget(gone \cup {c})
        /\ roomGauge' = roomGauge - Cardinality(gone)
        /\ \A r \in Room : rooms'[r] = rooms[r] \ gone
    BY <2>1 DEF EvictUser
  <2>3. gone \subseteq RoomConns
    BY <1>1 DEF RoomConns
  <2>4. \A q \in Room : \A d \in rooms'[q] :
            Contains(roomJoinOrder[q], connUser[d])
               => Contains(roomJoinOrder'[q], connUser[d])
    <3> SUFFICES ASSUME NEW q \in Room, NEW d \in rooms'[q],
                        Contains(roomJoinOrder[q], connUser[d])
                 PROVE  Contains(roomJoinOrder'[q], connUser[d])
      OBVIOUS
    <3>1. d \in left(q) /\ connUser[d] # u
      BY <2>2 DEF TypeInv, MapsOK
    <3>2. roomJoinOrder'[q] = IF q \in roomKeys THEN DropUserFromOrder(q, u, left(q))
                              ELSE roomJoinOrder[q]
      BY <2>1 DEF EvictUser
    <3> HIDE DEF left, u
    <3> QED
      BY <3>1, <3>2, DropUserKeeps
  <2> HIDE DEF gone
  <2>5. RemovalStep(gone, {c})
    BY <1>1, <1>2, <1>3, <2>2, <2>3, <2>4 DEF RemovalStep
  <2> QED
    BY <2>5
<1> QED
  BY <1>4, <1>5

LEMMA CloseAllRemoves ==
    ASSUME IInv, CloseAll
    PROVE  RemovalStep(RoomConns, LobbyConns)
<1> USE DEF IInv
<1>1. \A r \in Room : rooms'[r] = rooms[r] \ RoomConns
  BY DEF CloseAll, RoomConns, RoomsIndexed, TypeInv, MapsOK
<1>2. Forget(RoomConns \cup LobbyConns)
  <2>1. connUser' = [c \in Conn |-> IF c \in RoomConns \cup LobbyConns
                                    THEN NoUser ELSE connUser[c]]
    BY DEF CloseAll, RoomConns
  <2>2. connMu' = connMu \ (RoomConns \cup LobbyConns)
    BY DEF CloseAll, UsersIndexed
  <2>3. \A u \in User : userConns[u] \ (RoomConns \cup LobbyConns) = {}
    BY NoUserAssumption DEF UsersIndexed, RoomConns, LobbyConns
  <2>4. userConns' = [u \in User |-> userConns[u] \ (RoomConns \cup LobbyConns)]
    BY <2>3 DEF CloseAll
  <2> QED
    BY <2>1, <2>2, <2>4 DEF Forget
<1>3. lobbyConns' = [c \in Conn |-> IF c \in LobbyConns THEN NoUser ELSE lobbyConns[c]]
  BY DEF CloseAll, LobbyConns
<1>4. \A r \in Room : rooms'[r] = {}
  BY DEF CloseAll
<1> QED
  BY <1>1, <1>2, <1>3, <1>4 DEF RemovalStep, CloseAll

\* Reaping removes connections of the broadcast's room only: BroadcastTargets.
LEMMA BroadcastReapRemoves ==
    ASSUME IInv, NEW b \in Broadcaster, BroadcastReap(b)
    PROVE  \E D : D \subseteq rooms[bcast[b].room] /\ RemovalStep(D, {})
<1> USE DEF IInv
<1> DEFINE r    == bcast[b].room
           dead == {c \in bcast[b].failed : connUser[c] # NoUser}
<1>1. /\ rooms' = [rooms EXCEPT ![r] = @ \ dead]
      /\ Forget(dead)
      /\ roomGauge' = roomGauge - Cardinality(dead)
      /\ bcast' = [bcast EXCEPT ![b].failed = {}]
      /\ UNCHANGED <<roomKeys, lobbyConns, roomJoinOrder, lobbyGauge>>
  BY DEF BroadcastReap
<1>2. r \in Room /\ dead \subseteq rooms[r] /\ dead \subseteq RoomConns
  BY DEF BroadcastTargets, TypeInv, MapsOK, RoomConns
<1>3. \A p \in Broadcaster :
          /\ bcast'[p].room = bcast[p].room
          /\ bcast'[p].todo \cup bcast'[p].failed
                \subseteq bcast[p].todo \cup bcast[p].failed
  BY <1>1 DEF TypeInv, MapsOK
<1> HIDE DEF dead, r
<1>4. \A q \in Room : rooms'[q] = rooms[q] \ dead
  BY <1>1, <1>2 DEF TypeInv, MapsOK, RoomsIndexed
<1>5. Cardinality({}) = 0
  BY FS_EmptySet
<1>6. lobbyGauge \in Int /\ lobbyConns' = [d \in Conn |-> IF d \in {} THEN NoUser ELSE lobbyConns[d]]
  BY <1>1 DEF TypeInv, MapsOK
<1>7. RemovalStep(dead, {})
  BY <1>1, <1>2, <1>3, <1>4, <1>5, <1>6 DEF RemovalStep
<1> QED
  BY <1>2, <1>7 DEF r

\* The methods that add a connection.  The pointer c must be unreferenced, or
\* a broadcast in flight could reap the new connection in the wrong room.
LEMMA ConnectRoomPreserves ==
    ASSUME IInv, TypeInv', NEW r \in Room, NEW c \in Conn, NEW u \in User,
           ConnectRoom(r, c, u)
    PROVE  IInv'
<1> USE DEF IInv
<1>1. /\ connUser[c] = NoUser /\ lobbyConns[c] = NoUser /\ u # NoUser
      /\ \A b \in Broadcaster : c \notin bcast[b].todo \cup bcast[b].failed
      /\ rooms'    = [rooms EXCEPT ![r] = @ \cup {c}]
      /\ connUser' = [connUser EXCEPT ![c] = u]
      /\ UNCHANGED <<lobbyConns, lobbyGauge, bcast>>
  BY NoUserAssumption DEF ConnectRoom, Unreferenced
<1>2. RoomsIndexed'
  BY <1>1 DEF RoomsIndexed, TypeInv, MapsOK
<1>3. UsersIndexed'
  BY <1>1 DEF ConnectRoom, UsersIndexed, RoomConns, LobbyConns, TypeInv, MapsOK
<1>4. BroadcastTargets'
  BY <1>1 DEF BroadcastTargets, TypeInv, MapsOK
<1>5. JoinOrderComplete'
  <2>1. roomJoinOrder[r] \in Seq(User) /\ Distinct(roomJoinOrder[r])
    BY DEF TypeInv, MapsOK, OrdersDistinct
  <2> DEFINE new == IF Contains(roomJoinOrder[r], u) THEN roomJoinOrder[r]
                    ELSE Append(roomJoinOrder[r], u)
  <2>2. Contains(new, u) /\ \A x : Contains(roomJoinOrder[r], x) => Contains(new, x)
    BY <2>1, AppendDistinct
  <2>3. roomJoinOrder' = [roomJoinOrder EXCEPT ![r] = new]
    BY DEF ConnectRoom, TypeInv, MapsOK
  <2> HIDE DEF new
  <2>4. \A q \in Room : \A d \in rooms'[q] : Contains(roomJoinOrder'[q], connUser'[d])
    <3> SUFFICES ASSUME NEW q \in Room, NEW d \in rooms'[q]
                 PROVE  Contains(roomJoinOrder'[q], connUser'[d])
      OBVIOUS
    <3>1. CASE d = c
      <4>1. q = r
        BY <1>1, <3>1 DEF TypeInv, MapsOK, RoomsIndexed
      <4>2. roomJoinOrder'[q] = new /\ connUser'[d] = u
        BY <1>1, <2>3, <3>1, <4>1 DEF TypeInv, MapsOK
      <4> QED
        BY <2>2, <4>2
    <3>2. CASE d # c
      <4>1. d \in rooms[q] /\ d \in Conn /\ connUser'[d] = connUser[d]
        BY <1>1, <3>2 DEF TypeInv, MapsOK
      <4>2. Contains(roomJoinOrder[q], connUser[d])
        BY <4>1 DEF JoinOrderComplete
      <4>3. roomJoinOrder'[q] = IF q = r THEN new ELSE roomJoinOrder[q]
        BY <2>3 DEF TypeInv, MapsOK
      <4> QED
        BY <2>2, <4>1, <4>2, <4>3
    <3> QED
      BY <3>1, <3>2
  <2> QED
    BY <2>4 DEF JoinOrderComplete, TypeInv, OrdersDistinct, Distinct
<1>6. GaugesAgree'
  <2>1. RoomConns' = RoomConns \cup {c} /\ LobbyConns' = LobbyConns /\ c \notin RoomConns
    BY <1>1 DEF RoomConns, LobbyConns, TypeInv, MapsOK
  <2>2. IsFiniteSet(RoomConns)
    BY ConnCardinality DEF RoomConns
  <2>3. Cardinality(RoomConns \cup {c}) = Cardinality(RoomConns) + 1
    BY <2>1, <2>2, FS_AddElement
  <2> QED
    BY <2>1, <2>3 DEF GaugesAgree, ConnectRoom
<1> QED
  BY <1>2, <1>3, <1>4, <1>5, <1>6

LEMMA ConnectLobbyPreserves ==
    ASSUME IInv, TypeInv', NEW c \in Conn, NEW u \in User, ConnectLobby(c, u)
    PROVE  IInv'
<1> USE DEF IInv
<1>1. /\ connUser[c] = NoUser /\ lobbyConns[c] = NoUser /\ u # NoUser
      /\ \A b \in Broadcaster : c \notin bcast[b].todo \cup bcast[b].failed
      /\ lobbyConns' = [lobbyConns EXCEPT ![c] = u]
      /\ UNCHANGED <<rooms, roomKeys, connUser, roomJoinOrder, roomGauge, bcast>>
  BY NoUserAssumption DEF ConnectLobby, Unreferenced
<1>2. RoomsIndexed'
  BY <1>1 DEF RoomsIndexed, TypeInv, MapsOK
<1>3. UsersIndexed'
  BY <1>1 DEF ConnectLobby, UsersIndexed, RoomConns, LobbyConns, TypeInv, MapsOK
<1>4. BroadcastTargets'
  BY <1>1 DEF BroadcastTargets, TypeInv, MapsOK
<1>5. JoinOrderComplete'
  BY <1>1 DEF JoinOrderComplete
<1>6. GaugesAgree'
  <2>1. LobbyConns' = LobbyConns \cup {c} /\ RoomConns' = RoomConns /\ c \notin LobbyConns
    BY <1>1 DEF RoomConns, LobbyConns, TypeInv, MapsOK
  <2>2. IsFiniteSet(LobbyConns)
    BY ConnCardinality DEF LobbyConns
  <2>3. Cardinality(LobbyConns \cup {c}) = Cardinality(LobbyConns) + 1
    BY <2>1, <2>2, FS_AddElement
  <2> QED
    BY <2>1, <2>3 DEF GaugesAgree, ConnectLobby
<1> QED
  BY <1>2, <1>3, <1>4, <1>5, <1>6

\* A broadcast's first two critical sections touch only its own state.
LEMMA BroadcastPreserves ==
    ASSUME IInv, TypeInv', NEW b \in Broadcaster,
           \/ \E r \in Room : \E except \in SUBSET Conn : BroadcastSnapshot(b, r, except)
           \/ \E c \in Conn : \E ok \in BOOLEAN : BroadcastWrite(b, c, ok)
    PROVE  IInv'
<1> USE DEF IInv
<1>1. UNCHANGED <<rooms, roomKeys, connUser, userConns, lobbyConns, connMu,
                  roomJoinOrder, roomGauge, lobbyGauge>>
  BY DEF BroadcastSnapshot, BroadcastWrite
<1>2. RoomsIndexed' /\ JoinOrderComplete'
  BY <1>1 DEF RoomsIndexed, JoinOrderComplete
<1>3. UsersIndexed' /\ GaugesAgree'
  BY <1>1 DEF UsersIndexed, GaugesAgree, RoomConns, LobbyConns
<1>4. BroadcastTargets'
  <2>1. ASSUME NEW r \in Room, NEW except \in SUBSET Conn, BroadcastSnapshot(b, r, except)
        PROVE  BroadcastTargets'
    <3>1. \A c \in rooms[r] : c \in Conn /\ connUser[c] # NoUser /\ lobbyConns[c] = NoUser
      BY DEF RoomsIndexed, TypeInv, MapsOK
    <3>2. bcast'[b] = [room |-> r, todo |-> rooms[r] \ except, failed |-> {}]
      BY <2>1 DEF BroadcastSnapshot, TypeInv, MapsOK
    <3>3. \A p \in Broadcaster : p # b => bcast'[p] = bcast[p]
      BY <2>1 DEF BroadcastSnapshot, TypeInv, MapsOK
    <3> QED
      BY <1>1, <3>1, <3>2, <3>3 DEF BroadcastTargets
  <2>2. ASSUME NEW c \in Conn, NEW ok \in BOOLEAN, BroadcastWrite(b, c, ok)
        PROVE  BroadcastTargets'
    <3>1. \A p \in Broadcaster :
              /\ bcast'[p].room = bcast[p].room
              /\ bcast'[p].todo \cup bcast'[p].failed
                    \subseteq bcast[p].todo \cup bcast[p].failed
      <4> DEFINE failed == IF ok THEN bcast[b].failed ELSE bcast[b].failed \cup {c}
      <4>1. c \in bcast[b].todo
        BY <2>2 DEF BroadcastWrite
      <4>2. bcast' = [bcast EXCEPT ![b].todo = bcast[b].todo \ {c}, ![b].failed = failed]
        BY <2>2 DEF BroadcastWrite, TypeInv, MapsOK
      <4>3. failed \subseteq bcast[b].failed \cup {c}
        OBVIOUS
      <4> HIDE DEF failed
      <4>4. bcast'[b] = [bcast[b] EXCEPT !.todo = bcast[b].todo \ {c}, !.failed = failed]
        BY <4>2 DEF TypeInv, MapsOK
      <4>5. /\ bcast'[b].room = bcast[b].room
            /\ bcast'[b].todo = bcast[b].todo \ {c}
            /\ bcast'[b].failed = failed
        BY <4>4 DEF TypeInv, MapsOK
      <4>6. \A p \in Broadcaster \ {b} : bcast'[p] = bcast[p]
        BY <4>2 DEF TypeInv, MapsOK
      <4> QED
        BY <4>1, <4>3, <4>5, <4>6
    <3> QED
      BY <1>1, <3>1 DEF BroadcastTargets
  <2> QED
    BY <2>1, <2>2
<1> QED
  BY <1>2, <1>3, <1>4

LEMMA IInvInit == Init => IInv
<1> SUFFICES ASSUME Init
             PROVE  IInv
  OBVIOUS
<1>1. RoomConns = {} /\ LobbyConns = {}
  BY DEF Init, RoomConns, LobbyConns
<1>2. RoomsIndexed /\ JoinOrderComplete /\ BroadcastTargets
  BY DEF Init, RoomsIndexed, JoinOrderComplete, BroadcastTargets, IdleBcast
<1>3. UsersIndexed
  BY <1>1, NoUserAssumption DEF Init, UsersIndexed
<1>4. GaugesAgree
  BY <1>1, FS_EmptySet DEF Init, GaugesAgree
<1> QED
  BY <1>2, <1>3, <1>4, TypeInvInit DEF IInv

LEMMA IInvNext == IInv /\ [Next]_vars => IInv'
<1> SUFFICES ASSUME IInv, [Next]_vars
             PROVE  IInv'
  OBVIOUS
<1>1. TypeInv'
  BY TypeInvNext DEF IInv
<1>2. ASSUME NEW r \in Room, NEW c \in Conn, NEW u \in User, ConnectRoom(r, c, u)
      PROVE  IInv'
  BY <1>1, <1>2, ConnectRoomPreserves
<1>3. ASSUME NEW c \in Conn, NEW u \in User, ConnectLobby(c, u)
      PROVE  IInv'
  BY <1>1, <1>3, ConnectLobbyPreserves
<1>4. ASSUME \/ \E r \in Room, c \in Conn : DisconnectRoom(r, c)
             \/ \E r \in Room, u \in User : CloseUserConnsInRoom(r, u)
             \/ \E r \in Room : CloseAllInRoom(r)
             \/ \E c \in Conn : DisconnectLobby(c)
             \/ CloseAll
             \/ \E b \in Broadcaster : BroadcastReap(b)
      PROVE  IInv'
  <2>1. \E D, L : RemovalStep(D, L)
    BY <1>4, DisconnectRoomRemoves, CloseUserConnsInRoomRemoves, CloseAllInRoomRemoves,
       DisconnectLobbyRemoves, CloseAllRemoves, BroadcastReapRemoves
  <2> QED
    BY <1>1, <2>1, RemovalPreserves
<1>5. ASSUME \/ \E b \in Broadcaster, r \in Room, except \in SUBSET Conn :
                   BroadcastSnapshot(b, r, except)
             \/ \E b \in Broadcaster, c \in Conn, ok \in BOOLEAN : BroadcastWrite(b, c, ok)
      PROVE  IInv'
  BY <1>1, <1>5, BroadcastPreserves
<1>6. CASE UNCHANGED vars
  BY <1>1, <1>6 DEF vars, IInv, RoomsIndexed, UsersIndexed, BroadcastTargets,
     JoinOrderComplete, GaugesAgree, RoomConns, LobbyConns
<1> QED
  BY <1>2, <1>3, <1>4, <1>5, <1>6 DEF Next

LEMMA IInvInvariant == Spec => []IInv
  BY IInvInit, IInvNext, PTL DEF Spec

\* Every map of Manager keeps its shape under every method (manager.go:35-60), and
\* no gauge goes below zero: each counts the connections of its maps.
THEOREM TypeCorrect == Spec => []TypeOK
<1>1. ASSUME IInv
      PROVE  roomGauge \in Nat /\ lobbyGauge \in Nat
  <2>1. RoomConns \in SUBSET Conn /\ LobbyConns \in SUBSET Conn
    BY DEF RoomConns, LobbyConns
  <2>2. Cardinality(RoomConns) \in Nat /\ Cardinality(LobbyConns) \in Nat
    BY <2>1, ConnCardinality
  <2> QED
    BY <1>1, <2>2 DEF IInv, GaugesAgree
<1>2. IInv => TypeOK
  BY <1>1 DEF IInv, TypeInv, MapsOK, TypeOK
<1> QED
  BY <1>2, IInvInvariant, PTL

\* The maps never disagree about where a connection is (manager.go:35-60).
THEOREM RoomsIndexedCorrect == Spec => []RoomsIndexed
<1>1. IInv => RoomsIndexed
  BY DEF IInv
<1> QED
  BY <1>1, IInvInvariant, PTL

\* The per-user connection set is neither short of a connection nor left with a
\* dead one (manager.go:195-205).
THEOREM UsersIndexedCorrect == Spec => []UsersIndexed
<1>1. IInv => UsersIndexed
  BY DEF IInv
<1> QED
  BY <1>1, IInvInvariant, PTL

\* A broadcast, however many run, never reaps a connection of another room
\* (manager_room.go:108-148, 191-209).
THEOREM BroadcastTargetsCorrect == Spec => []BroadcastTargets
<1>1. IInv => BroadcastTargets
  BY DEF IInv
<1> QED
  BY <1>1, IInvInvariant, PTL

\* Everybody connected to a room is in its join order, once
\* (manager_room.go:30-41).
THEOREM JoinOrderCorrect == Spec => []JoinOrderComplete
<1>1. IInv => JoinOrderComplete
  BY DEF IInv
<1> QED
  BY <1>1, IInvInvariant, PTL

\* The hand-moved gauges count exactly the live connections.
THEOREM GaugesCorrect == Spec => []GaugesAgree
<1>1. IInv => GaugesAgree
  BY DEF IInv
<1> QED
  BY <1>1, IInvInvariant, PTL

----------------------------------------------------------------------------
(* Admin succession.                                                       *)

\* A nonempty set of positions has a first one.
LEMMA FirstPosition ==
    ASSUME NEW S \in SUBSET Nat, S # {}
    PROVE  \E i \in S : \A j \in S : i <= j
<1>1. PICK i \in S : \A j \in S : ~(<<j, i>> \in OpToRel(<, Nat))
  BY NatLessThanWellFounded, WFMin
<1>2. \A j \in S : j \in Nat /\ i \in Nat /\ (<<j, i>> \in OpToRel(<, Nat) <=> j < i)
  BY DEF OpToRel
<1>3. \A j \in S : j \in Nat /\ i \in Nat /\ ~(j < i)
  BY <1>1, <1>2, Zenon
<1>4. \A j \in S : i <= j
  BY <1>3
<1> QED
  BY <1>4

\* The first live user of the join order is a user of the room other than ex,
\* and there is one whenever the room has such a user.
LEMMA NextUserExists ==
    ASSUME IInv, NEW r \in Room, NEW ex \in User
    PROVE  (NextUserInRoom(r, ex) # NoUser) <=> (UsersInRoom(r) \ {ex} # {})
<1> USE DEF IInv
<1> DEFINE S == Successors(r, ex)
<1>1. /\ roomJoinOrder[r] \in Seq(User)
      /\ DOMAIN roomJoinOrder[r] = 1..Len(roomJoinOrder[r])
      /\ Len(roomJoinOrder[r]) \in Nat
  BY LenProperties DEF TypeInv, MapsOK
<1>2. S \in SUBSET Nat
  BY <1>1 DEF Successors
<1>3. ASSUME S # {}
      PROVE  NextUserInRoom(r, ex) # NoUser /\ UsersInRoom(r) \ {ex} # {}
  <2> DEFINE first == CHOOSE i \in S : \A j \in S : i <= j
  <2>1. first \in S
    BY <1>2, <1>3, FirstPosition
  <2>2. NextUserInRoom(r, ex) = roomJoinOrder[r][first]
    BY <1>3 DEF NextUserInRoom
  <2>3. roomJoinOrder[r][first] \in User
    BY <1>1, <2>1, ElementOfSeq DEF Successors
  <2>4. PICK c \in rooms[r] : connUser[c] = roomJoinOrder[r][first]
    BY <2>1 DEF Successors, IsUserInRoom
  <2>5. connUser[c] # ex /\ connUser[c] # NoUser
    BY <2>1, <2>3, <2>4, NoUserAssumption DEF Successors
  <2> QED
    BY <2>2, <2>4, <2>5 DEF UsersInRoom
<1>4. ASSUME UsersInRoom(r) \ {ex} # {}
      PROVE  S # {}
  <2>1. PICK c \in rooms[r] : connUser[c] # ex
    BY <1>4 DEF UsersInRoom
  <2>2. PICK i \in 1..Len(roomJoinOrder[r]) : roomJoinOrder[r][i] = connUser[c]
    BY DEF JoinOrderComplete, Contains
  <2> QED
    BY <1>1, <2>1, <2>2 DEF Successors, IsUserInRoom
<1>5. S = {} => NextUserInRoom(r, ex) = NoUser
  BY DEF NextUserInRoom
<1> QED
  BY <1>3, <1>4, <1>5

\* Admin succession finds a candidate exactly when somebody else is connected
\* (GetNextUserInRoom, manager_room.go:341-358).
THEOREM SuccessorCorrect == Spec => []SuccessorExists
<1>1. IInv => SuccessorExists
  BY NextUserExists DEF SuccessorExists
<1> QED
  BY <1>1, IInvInvariant, PTL

----------------------------------------------------------------------------
(* ConnectionManager implements Registry.                                  *)

\* A removal takes the same connections from the abstract registry.
LEMMA RemovalRefines ==
    ASSUME IInv, NEW D, NEW L, RemovalStep(D, L)
    PROVE  /\ MemberEntries' = {e \in MemberEntries : e.conn \notin D}
           /\ LobbyEntries'  = {e \in LobbyEntries : e.conn \notin L}
<1>1. \A c \in Conn : c \in L => connUser[c] = NoUser
  BY DEF IInv, RoomsIndexed, RemovalStep, LobbyConns
<1>2. \A c \in Conn : connUser'[c] = IF c \in D THEN NoUser ELSE connUser[c]
  BY <1>1 DEF RemovalStep, Forget
<1>3. \A r \in Room : rooms'[r] = rooms[r] \ D
  BY DEF RemovalStep
<1>4. \A e \in [conn : Conn, user : User, room : Room] :
          e \in MemberEntries' <=> e \in MemberEntries /\ e.conn \notin D
  <2> SUFFICES ASSUME NEW e \in [conn : Conn, user : User, room : Room]
               PROVE  e \in MemberEntries' <=> e \in MemberEntries /\ e.conn \notin D
    OBVIOUS
  <2>1. e.conn \in Conn /\ e.room \in Room /\ e.user # NoUser
    BY NoUserAssumption
  <2> QED
    BY <1>2, <1>3, <2>1 DEF MemberEntries
<1>5. MemberEntries' = {e \in MemberEntries : e.conn \notin D}
  BY <1>4 DEF MemberEntries
<1>6. \A c \in Conn : lobbyConns'[c] = IF c \in L THEN NoUser ELSE lobbyConns[c]
  BY DEF RemovalStep
<1>7. LobbyEntries' = {e \in LobbyEntries : e.conn \notin L}
  <2>1. \A e \in [conn : Conn, user : User] :
            e \in LobbyEntries' <=> e \in LobbyEntries /\ e.conn \notin L
    BY <1>6, NoUserAssumption DEF LobbyEntries
  <2> QED
    BY <2>1 DEF LobbyEntries
<1> QED
  BY <1>5, <1>7

\* Connections removed from one room form a Drop of the abstract registry.
LEMMA RoomRemovalRefines ==
    ASSUME IInv, NEW r \in Room, NEW D, D \subseteq rooms[r], RemovalStep(D, {})
    PROVE  Abstract!Drop(r, {e \in MemberEntries : e.conn \in D})
<1>1. \A e \in MemberEntries : e.conn \in D => e.room = r
  BY DEF MemberEntries, IInv, RoomsIndexed
<1>2. {e \in MemberEntries : e.conn \in D} \subseteq Abstract!Members(r)
  BY <1>1 DEF Abstract!Members
<1>3. MemberEntries' = MemberEntries \ {e \in MemberEntries : e.conn \in D}
  BY RemovalRefines
<1>4. LobbyEntries' = LobbyEntries
  BY RemovalRefines
<1> QED
  BY <1>2, <1>3, <1>4 DEF Abstract!Drop

LEMMA ConnectRoomRefines ==
    ASSUME IInv, NEW r \in Room, NEW c \in Conn, NEW u \in User, ConnectRoom(r, c, u)
    PROVE  Abstract!Join(c, u, r)
<1> DEFINE new == [conn |-> c, user |-> u, room |-> r]
<1>1. /\ connUser[c] = NoUser /\ lobbyConns[c] = NoUser /\ u # NoUser
      /\ \A q \in Room : rooms'[q] = IF q = r THEN rooms[q] \cup {c} ELSE rooms[q]
      /\ \A d \in Conn : connUser'[d] = IF d = c THEN u ELSE connUser[d]
      /\ lobbyConns' = lobbyConns
  BY NoUserAssumption DEF ConnectRoom, Unreferenced, IInv, TypeInv, MapsOK
<1>2. \A q \in Room : c \notin rooms[q]
  BY <1>1 DEF IInv, RoomsIndexed
<1>3. ~Abstract!Registered(c)
  BY <1>1, NoUserAssumption DEF Abstract!Registered, MemberEntries, LobbyEntries
<1>4. MemberEntries' = MemberEntries \cup {new}
  <2>1. new \in [conn : Conn, user : User, room : Room]
    OBVIOUS
  <2>2. ASSUME NEW e \in [conn : Conn, user : User, room : Room]
        PROVE  e \in MemberEntries' <=> e \in MemberEntries \/ e = new
    <3>1. e.conn \in Conn /\ e.room \in Room /\ e.user \in User
      OBVIOUS
    <3>2. e = new <=> e.conn = c /\ e.user = u /\ e.room = r
      OBVIOUS
    <3>3. CASE e.conn = c
      BY <1>1, <1>2, <3>1, <3>2, <3>3 DEF MemberEntries
    <3>4. CASE e.conn # c
      <4>1. e # new /\ connUser'[e.conn] = connUser[e.conn]
        <5>1. PICK d \in Conn : d = e.conn
          BY <3>1
        <5> QED
          BY <1>1, <3>2, <3>4, <5>1
      <4>2. e.conn \in rooms'[e.room] <=> e.conn \in rooms[e.room]
        BY <1>1, <3>1, <3>4
      <4> QED
        BY <4>1, <4>2 DEF MemberEntries
    <3> QED
      BY <3>3, <3>4
  <2> QED
    BY <2>1, <2>2 DEF MemberEntries
<1>5. LobbyEntries' = LobbyEntries
  BY <1>1 DEF LobbyEntries
<1> QED
  BY <1>3, <1>4, <1>5 DEF Abstract!Join

LEMMA ConnectLobbyRefines ==
    ASSUME IInv, NEW c \in Conn, NEW u \in User, ConnectLobby(c, u)
    PROVE  Abstract!EnterLobby(c, u)
<1> DEFINE new == [conn |-> c, user |-> u]
<1>1. /\ connUser[c] = NoUser /\ lobbyConns[c] = NoUser
      /\ rooms' = rooms /\ connUser' = connUser
      /\ \A d \in Conn : lobbyConns'[d] = IF d = c THEN u ELSE lobbyConns[d]
  BY DEF ConnectLobby, Unreferenced, IInv, TypeInv, MapsOK
<1>2. ~Abstract!Registered(c)
  BY <1>1, NoUserAssumption DEF Abstract!Registered, MemberEntries, LobbyEntries
<1>3. LobbyEntries' = LobbyEntries \cup {new}
  <2>1. new \in [conn : Conn, user : User]
    OBVIOUS
  <2>2. ASSUME NEW e \in [conn : Conn, user : User]
        PROVE  e \in LobbyEntries' <=> e \in LobbyEntries \/ e = new
    <3>1. e.conn \in Conn /\ e.user \in User /\ e.user # NoUser
      BY NoUserAssumption
    <3>2. e = new <=> e.conn = c /\ e.user = u
      OBVIOUS
    <3> QED
      BY <1>1, <3>1, <3>2 DEF LobbyEntries
  <2> QED
    BY <2>1, <2>2 DEF LobbyEntries
<1>4. MemberEntries' = MemberEntries
  BY <1>1 DEF MemberEntries
<1> QED
  BY <1>2, <1>3, <1>4 DEF Abstract!EnterLobby

\* The last lobby connection takes the user's room connections with it, any
\* other lobby connection none: the two branches of DisconnectLobby.
LEMMA DisconnectLobbyRefines ==
    ASSUME IInv, NEW c \in Conn, DisconnectLobby(c)
    PROVE  \E e \in LobbyEntries : Abstract!ExitLobby(e)
<1> DEFINE u    == lobbyConns[c]
           e    == [conn |-> c, user |-> u]
           gone == {d \in Conn : connUser[d] = u}
<1>1. u \in User /\ e \in LobbyEntries
  BY DEF DisconnectLobby, LobbyEntries, IInv, TypeInv, MapsOK
<1>2. \A d \in Conn : lobbyConns'[d] = IF d = c THEN NoUser ELSE lobbyConns[d]
  BY DEF DisconnectLobby, IInv, TypeInv, MapsOK
<1>3. LobbyEntries' = LobbyEntries \ {e}
  <2>1. ASSUME NEW f \in [conn : Conn, user : User]
        PROVE  f \in LobbyEntries' <=> f \in LobbyEntries /\ f # e
    <3>1. f.conn \in Conn /\ f.user \in User /\ f.user # NoUser
      BY NoUserAssumption
    <3>2. f = e <=> f.conn = c /\ f.user = u
      OBVIOUS
    <3> QED
      BY <1>2, <3>1, <3>2 DEF LobbyEntries
  <2> QED
    BY <1>1, <2>1 DEF LobbyEntries
<1>4. (\E f \in LobbyEntries \ {e} : f.user = u)
         <=> \E d \in Conn \ {c} : lobbyConns[d] = lobbyConns[c]
  <2>1. ASSUME NEW f \in LobbyEntries \ {e}, f.user = u
        PROVE  f.conn \in Conn \ {c} /\ lobbyConns[f.conn] = lobbyConns[c]
    <3>1. f \in [conn : Conn, user : User] /\ lobbyConns[f.conn] = f.user
      BY DEF LobbyEntries
    <3>2. f.conn # c
      BY <2>1, <3>1
    <3> QED
      BY <2>1, <3>1, <3>2
  <2>2. ASSUME NEW d \in Conn \ {c}, lobbyConns[d] = lobbyConns[c]
        PROVE  [conn |-> d, user |-> u] \in LobbyEntries \ {e}
    BY <1>1, <2>2 DEF LobbyEntries
  <2> QED
    BY <2>1, <2>2
<1>5. MemberEntries' = IF \E f \in LobbyEntries \ {e} : f.user = u
                       THEN MemberEntries
                       ELSE {m \in MemberEntries : m.user # u}
  <2>1. CASE \E d \in Conn \ {c} : lobbyConns[d] = lobbyConns[c]
    <3>1. Forget({c}) /\ rooms' = rooms
      BY <2>1 DEF DisconnectLobby
    <3>2. connUser[c] = NoUser
      BY DEF DisconnectLobby, IInv, RoomsIndexed
    <3>3. connUser' = connUser
      BY <3>1, <3>2 DEF Forget, IInv, TypeInv, MapsOK
    <3>4. MemberEntries' = MemberEntries
      BY <3>1, <3>3 DEF MemberEntries
    <3> QED
      BY <1>4, <2>1, <3>4
  <2>2. CASE ~ \E d \in Conn \ {c} : lobbyConns[d] = lobbyConns[c]
    <3>1. /\ \A r \in Room : rooms'[r] = rooms[r] \ gone
          /\ Forget(gone \cup {c})
      BY <2>2 DEF DisconnectLobby, EvictUser
    <3>2. connUser[c] = NoUser
      BY DEF DisconnectLobby, IInv, RoomsIndexed
    <3>3. \A d \in Conn : connUser'[d] = IF d \in gone THEN NoUser ELSE connUser[d]
      BY <3>1, <3>2 DEF Forget
    <3>4. ASSUME NEW m \in [conn : Conn, user : User, room : Room]
          PROVE  m \in MemberEntries' <=> m \in MemberEntries /\ m.user # u
      <4>1. m.conn \in Conn /\ m.room \in Room /\ m.user # NoUser
        BY NoUserAssumption
      <4> QED
        BY <3>1, <3>3, <4>1 DEF MemberEntries
    <3>5. MemberEntries' = {m \in MemberEntries : m.user # u}
      BY <3>4 DEF MemberEntries
    <3> QED
      BY <1>4, <2>2, <3>5
  <2> QED
    BY <2>1, <2>2
<1>6. e.user = u
  OBVIOUS
<1>7. Abstract!ExitLobby(e)
  BY <1>1, <1>3, <1>5, <1>6 DEF Abstract!ExitLobby
<1> QED
  BY <1>1, <1>7

LEMMA RegistryInitRefines == Init => Abstract!RegistryInit
BY NoUserAssumption DEF Init, Abstract!RegistryInit, MemberEntries, LobbyEntries

LEMMA RegistryNextRefines ==
    IInv /\ [Next]_vars => [Abstract!RegistryNext]_(Abstract!registryVars)
<1> SUFFICES ASSUME IInv, [Next]_vars
             PROVE  \/ Abstract!RegistryNext
                    \/ MemberEntries' = MemberEntries /\ LobbyEntries' = LobbyEntries
  BY DEF Abstract!registryVars
<1>1. ASSUME NEW r \in Room, NEW D, D \subseteq rooms[r], RemovalStep(D, {})
      PROVE  Abstract!RegistryNext
  <2>1. Abstract!Drop(r, {e \in MemberEntries : e.conn \in D})
    BY <1>1, RoomRemovalRefines
  <2>2. {e \in MemberEntries : e.conn \in D} \in SUBSET Abstract!Members(r)
    BY <2>1 DEF Abstract!Drop
  <2> QED
    BY <2>1, <2>2 DEF Abstract!RegistryNext
<1>2. ASSUME NEW r \in Room, NEW c \in Conn, NEW u \in User, ConnectRoom(r, c, u)
      PROVE  Abstract!RegistryNext
  BY <1>2, ConnectRoomRefines DEF Abstract!RegistryNext
<1>3. ASSUME NEW r \in Room, NEW c \in Conn, DisconnectRoom(r, c)
      PROVE  Abstract!RegistryNext
  <2>1. {c} \subseteq rooms[r]
    BY <1>3 DEF DisconnectRoom
  <2> QED
    BY <1>1, <1>3, <2>1, DisconnectRoomRemoves
<1>4. ASSUME NEW r \in Room, NEW u \in User, CloseUserConnsInRoom(r, u)
      PROVE  Abstract!RegistryNext
  <2>1. ConnsInRoom(r, u) \subseteq rooms[r]
    BY DEF ConnsInRoom
  <2> QED
    BY <1>1, <1>4, <2>1, CloseUserConnsInRoomRemoves
<1>5. ASSUME NEW r \in Room, CloseAllInRoom(r)
      PROVE  Abstract!RegistryNext
  BY <1>1, <1>5, CloseAllInRoomRemoves
<1>6. ASSUME NEW c \in Conn, NEW u \in User, ConnectLobby(c, u)
      PROVE  Abstract!RegistryNext
  BY <1>6, ConnectLobbyRefines DEF Abstract!RegistryNext
<1>7. ASSUME NEW c \in Conn, DisconnectLobby(c)
      PROVE  Abstract!RegistryNext
  BY <1>7, DisconnectLobbyRefines DEF Abstract!RegistryNext
<1>8. CASE CloseAll
  <2>1. MemberEntries' = {} /\ LobbyEntries' = {}
    BY <1>8, NoUserAssumption DEF CloseAll, MemberEntries, LobbyEntries
  <2> QED
    BY <2>1 DEF Abstract!RegistryNext, Abstract!Shutdown
<1>9. ASSUME NEW b \in Broadcaster, BroadcastReap(b)
      PROVE  Abstract!RegistryNext
  <2>1. bcast[b].room \in Room
    BY DEF IInv, TypeInv, MapsOK
  <2> QED
    BY <1>1, <1>9, <2>1, BroadcastReapRemoves
<1>10. ASSUME \/ \E b \in Broadcaster, r \in Room, except \in SUBSET Conn :
                    BroadcastSnapshot(b, r, except)
              \/ \E b \in Broadcaster, c \in Conn, ok \in BOOLEAN : BroadcastWrite(b, c, ok)
              \/ UNCHANGED vars
       PROVE  MemberEntries' = MemberEntries /\ LobbyEntries' = LobbyEntries
  <2>1. UNCHANGED <<rooms, connUser, lobbyConns>>
    BY <1>10 DEF BroadcastSnapshot, BroadcastWrite, vars
  <2> QED
    BY <2>1 DEF MemberEntries, LobbyEntries
<1> QED
  BY <1>2, <1>3, <1>4, <1>5, <1>6, <1>7, <1>8, <1>9, <1>10 DEF Next

\* The Manager's maps implement the registry its callers rely on: no method,
\* and no interleaving with running broadcasts, can do anything else.
THEOREM ManagerImplementsRegistry == Spec => ImplementsRegistry
  BY RegistryInitRefines, RegistryNextRefines, IInvInvariant, PTL
     DEF Spec, ImplementsRegistry, Abstract!RegistrySpec
=============================================================================
