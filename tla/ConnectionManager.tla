------------------------- MODULE ConnectionManager -------------------------
(***************************************************************************)
(* The in-process WebSocket registry of chat-service: Manager in           *)
(* internal/ws/manager.go, manager_room.go and manager_lobby.go.           *)
(*                                                                         *)
(* Seven maps under one RWMutex describe the same set of connections.      *)
(* Every action below is one critical section of that mutex; what a        *)
(* method does after Unlock (closing sockets, lobby broadcasts, logout     *)
(* callbacks) belongs to the modules that call it.  BroadcastRoom is the   *)
(* one method with several critical sections: it snapshots the room,       *)
(* writes to each connection without the lock, then takes the lock again   *)
(* to drop the connections whose write failed.                             *)
(***************************************************************************)
EXTENDS Integers, FiniteSets, SequencesExt

CONSTANTS User,         \* user ids
          Room,         \* room ids
          Conn,         \* *websocket.Conn pointers, reused once unreferenced
          Broadcaster,  \* goroutines that may run BroadcastRoom concurrently
          NoUser        \* a connection absent from connUser / lobbyConns

ASSUME NoUserAssumption == NoUser \notin User
ASSUME ConnAssumption   == IsFiniteSet(Conn)

VARIABLES rooms,          \* room -> set of connections
          roomKeys,       \* keys present in the rooms map
          connUser,       \* room connection -> user
          userConns,      \* user -> room and lobby connections
          lobbyConns,     \* lobby connection -> user
          connMu,         \* connections that own a write mutex
          roomJoinOrder,  \* room -> users in order of arrival
          roomGauge,      \* metrics.WSConnectionsActive{room}
          lobbyGauge,     \* metrics.WSConnectionsActive{lobby}
          bcast           \* broadcaster -> its running BroadcastRoom call

vars == <<rooms, roomKeys, connUser, userConns, lobbyConns, connMu,
          roomJoinOrder, roomGauge, lobbyGauge, bcast>>

----------------------------------------------------------------------------
(* Queries.                                                                *)

RoomConns  == {c \in Conn : connUser[c] # NoUser}
LobbyConns == {c \in Conn : lobbyConns[c] # NoUser}

\* The connections of user u in room r, found through connUser.
ConnsInRoom(r, u) == {c \in rooms[r] : connUser[c] = u}

UsersInRoom(r)         == {connUser[c] : c \in rooms[r]} \ {NoUser}
IsUserInRoom(r, u)     == \E c \in rooms[r] : connUser[c] = u
HasLobbyConnection(u)  == \E c \in Conn : lobbyConns[c] = u
UserConnectionCount(u) == Cardinality(userConns[u])

\* Mutant: the liveness check of GetNextUserInRoom is missing.
SuccessorsStale(r, ex) ==
    {i \in DOMAIN roomJoinOrder[r] : roomJoinOrder[r][i] # ex}

\* GetNextUserInRoom: first user in join order, other than ex, who still has a
\* live connection in the room.
Successors(r, ex) ==
    {i \in DOMAIN roomJoinOrder[r] :
        /\ roomJoinOrder[r][i] # ex
        /\ IsUserInRoom(r, roomJoinOrder[r][i])}

NextUserInRoom(r, ex) ==
    IF Successors(r, ex) = {} THEN NoUser
    ELSE LET first == CHOOSE i \in Successors(r, ex) :
                        \A j \in Successors(r, ex) : i <= j
         IN  roomJoinOrder[r][first]

\* Mutant: connection objects are reused while a broadcast still holds them.
UnreferencedByMaps(c) ==
    /\ connUser[c] = NoUser
    /\ lobbyConns[c] = NoUser

\* A connection nothing refers to any more: its pointer may be a new socket.
Unreferenced(c) ==
    /\ connUser[c] = NoUser
    /\ lobbyConns[c] = NoUser
    /\ \A b \in Broadcaster : c \notin bcast[b].todo \cup bcast[b].failed

----------------------------------------------------------------------------
(* Helpers on the maps.                                                    *)

IdleBcast(r) == [room |-> r, todo |-> {}, failed |-> {}]

\* Mutant: the write mutexes leak.
ForgetLeaksMutex(D) ==
    /\ connUser'  = [c \in Conn |-> IF c \in D THEN NoUser ELSE connUser[c]]
    /\ connMu'    = connMu
    /\ userConns' = [u \in User |-> userConns[u] \ D]

\* Delete the connections D of any owner from connUser, connMu and userConns.
Forget(D) ==
    /\ connUser'  = [c \in Conn |-> IF c \in D THEN NoUser ELSE connUser[c]]
    /\ connMu'    = connMu \ D
    /\ userConns' = [u \in User |-> userConns[u] \ D]

\* Drop the key of a room left without connections, with its join order;
\* otherwise the user u goes from the join order.
DropUserFromOrder(r, u, conns) ==
    IF conns = {} THEN <<>> ELSE RemoveFirst(roomJoinOrder[r], u)

----------------------------------------------------------------------------
Init ==
    /\ rooms         = [r \in Room |-> {}]
    /\ roomKeys      = {}
    /\ connUser      = [c \in Conn |-> NoUser]
    /\ userConns     = [u \in User |-> {}]
    /\ lobbyConns    = [c \in Conn |-> NoUser]
    /\ connMu        = {}
    /\ roomJoinOrder = [r \in Room |-> <<>>]
    /\ roomGauge     = 0
    /\ lobbyGauge    = 0
    /\ bcast         \in [Broadcaster -> {IdleBcast(r) : r \in Room}]

ConnectRoom(r, c, u) ==
    /\ Unreferenced(c)
    /\ rooms'     = [rooms EXCEPT ![r] = @ \cup {c}]
    /\ roomKeys'  = roomKeys \cup {r}
    /\ connUser'  = [connUser EXCEPT ![c] = u]
    /\ connMu'    = connMu \cup {c}
    /\ userConns' = [userConns EXCEPT ![u] = @ \cup {c}]
    /\ roomJoinOrder' =
         [roomJoinOrder EXCEPT ![r] = IF Contains(@, u) THEN @ ELSE Append(@, u)]
    /\ roomGauge' = roomGauge + 1
    /\ UNCHANGED <<lobbyConns, lobbyGauge, bcast>>

\* Mutant: the user leaves the join order although another tab stays.
DisconnectRoomDropsOrder(r, c) ==
    /\ c \in rooms[r]
    /\ connUser[c] # NoUser
    /\ LET rest == rooms[r] \ {c}
       IN  /\ rooms'    = [rooms EXCEPT ![r] = rest]
           /\ roomKeys' = IF rest = {} THEN roomKeys \ {r} ELSE roomKeys
           /\ roomJoinOrder' =
                [roomJoinOrder EXCEPT ![r] = DropUserFromOrder(r, connUser[c], rest)]
    /\ Forget({c})
    /\ roomGauge' = roomGauge - 1
    /\ UNCHANGED <<lobbyConns, lobbyGauge, bcast>>

\* A call for a connection no longer in connUser returns at once.
DisconnectRoom(r, c) ==
    /\ c \in rooms[r]
    /\ connUser[c] # NoUser
    /\ LET u      == connUser[c]
           rest   == rooms[r] \ {c}
           others == \E d \in rest : connUser[d] = u
       IN  /\ rooms'    = [rooms EXCEPT ![r] = rest]
           /\ roomKeys' = IF rest = {} THEN roomKeys \ {r} ELSE roomKeys
           /\ roomJoinOrder' =
                [roomJoinOrder EXCEPT ![r] =
                    IF others THEN @ ELSE DropUserFromOrder(r, u, rest)]
    /\ Forget({c})
    /\ roomGauge' = roomGauge - 1
    /\ UNCHANGED <<lobbyConns, lobbyGauge, bcast>>

\* Kick, and eviction of a user's stale connections by a new one.
CloseUserConnsInRoom(r, u) ==
    LET gone == ConnsInRoom(r, u)
        rest == rooms[r] \ gone
    IN  /\ rooms'    = [rooms EXCEPT ![r] = rest]
        /\ roomKeys' = IF rest = {} THEN roomKeys \ {r} ELSE roomKeys
        /\ roomJoinOrder' =
             [roomJoinOrder EXCEPT ![r] = DropUserFromOrder(r, u, rest)]
        /\ Forget(gone)
        /\ roomGauge' = roomGauge - Cardinality(gone)
        /\ UNCHANGED <<lobbyConns, lobbyGauge, bcast>>

CloseAllInRoom(r) ==
    /\ Forget(rooms[r])
    /\ rooms'         = [rooms EXCEPT ![r] = {}]
    /\ roomKeys'      = roomKeys \ {r}
    /\ roomJoinOrder' = [roomJoinOrder EXCEPT ![r] = <<>>]
    /\ roomGauge'     = roomGauge - Cardinality(rooms[r])
    /\ UNCHANGED <<lobbyConns, lobbyGauge, bcast>>

ConnectLobby(c, u) ==
    /\ Unreferenced(c)
    /\ lobbyConns' = [lobbyConns EXCEPT ![c] = u]
    /\ connMu'     = connMu \cup {c}
    /\ userConns'  = [userConns EXCEPT ![u] = @ \cup {c}]
    /\ lobbyGauge' = lobbyGauge + 1
    /\ UNCHANGED <<rooms, roomKeys, connUser, roomJoinOrder, roomGauge, bcast>>

\* Mutant: the connections stay in the sets of their rooms.
EvictUserKeepsRooms(u, lobbyConn) ==
    LET gone == {c \in Conn : connUser[c] = u}
    IN  /\ Forget(gone \cup {lobbyConn})
        /\ roomGauge' = roomGauge - Cardinality(gone)
        /\ UNCHANGED <<rooms, roomKeys, roomJoinOrder>>

\* evictUserRoomConnsLocked: every room connection of u goes, and every room
\* of the map that is empty afterwards loses its key.
EvictUser(u, lobbyConn) ==
    LET gone    == {c \in Conn : connUser[c] = u}
        left(r) == rooms[r] \ gone
    IN  /\ rooms'    = [r \in Room |-> left(r)]
        /\ roomKeys' = {r \in roomKeys : left(r) # {}}
        /\ roomJoinOrder' =
             [r \in Room |-> IF r \in roomKeys
                             THEN DropUserFromOrder(r, u, left(r))
                             ELSE roomJoinOrder[r]]
        /\ Forget(gone \cup {lobbyConn})
        /\ roomGauge' = roomGauge - Cardinality(gone)

\* Mutant: closing one of several tabs evicts the user from every room.
DisconnectLobbyAlwaysEvicts(c) ==
    /\ lobbyConns[c] # NoUser
    /\ lobbyConns' = [lobbyConns EXCEPT ![c] = NoUser]
    /\ lobbyGauge' = lobbyGauge - 1
    /\ EvictUser(lobbyConns[c], c)
    /\ UNCHANGED bcast

\* The last lobby connection of a user takes all room connections with it.
DisconnectLobby(c) ==
    /\ lobbyConns[c] # NoUser
    /\ lobbyConns' = [lobbyConns EXCEPT ![c] = NoUser]
    /\ lobbyGauge' = lobbyGauge - 1
    /\ IF \E d \in Conn \ {c} : lobbyConns[d] = lobbyConns[c]
       THEN /\ Forget({c})
            /\ UNCHANGED <<rooms, roomKeys, roomJoinOrder, roomGauge>>
       ELSE EvictUser(lobbyConns[c], c)
    /\ UNCHANGED bcast

\* Server shutdown: every map is replaced by an empty one.
CloseAll ==
    /\ rooms'         = [r \in Room |-> {}]
    /\ roomKeys'      = {}
    /\ connUser'      = [c \in Conn |-> NoUser]
    /\ userConns'     = [u \in User |-> {}]
    /\ lobbyConns'    = [c \in Conn |-> NoUser]
    /\ connMu'        = {}
    /\ roomJoinOrder' = [r \in Room |-> <<>>]
    /\ roomGauge'     = roomGauge - Cardinality(RoomConns)
    /\ lobbyGauge'    = lobbyGauge - Cardinality(LobbyConns)
    /\ UNCHANGED bcast

\* BroadcastRoom and BroadcastRoomExcept, under RLock: the target connections.
BroadcastSnapshot(b, r, except) ==
    /\ bcast[b].todo = {} /\ bcast[b].failed = {}
    /\ bcast' = [bcast EXCEPT ![b] = [room   |-> r,
                                      todo   |-> rooms[r] \ except,
                                      failed |-> {}]]
    /\ UNCHANGED <<rooms, roomKeys, connUser, userConns, lobbyConns, connMu,
                   roomJoinOrder, roomGauge, lobbyGauge>>

\* safeWrite: fails when the connection lost its mutex, or when the socket does.
BroadcastWrite(b, c, ok) ==
    /\ c \in bcast[b].todo
    /\ ok => c \in connMu
    /\ bcast' = [bcast EXCEPT ![b].todo   = @ \ {c},
                              ![b].failed = IF ok THEN @ ELSE @ \cup {c}]
    /\ UNCHANGED <<rooms, roomKeys, connUser, userConns, lobbyConns, connMu,
                   roomJoinOrder, roomGauge, lobbyGauge>>

\* Mutant: a connection somebody else has removed by now is counted once more.
BroadcastReapUnchecked(b) ==
    /\ bcast[b].todo = {} /\ bcast[b].failed # {}
    /\ LET r == bcast[b].room
       IN  /\ rooms'     = [rooms EXCEPT ![r] = @ \ bcast[b].failed]
           /\ Forget(bcast[b].failed)
           /\ roomGauge' = roomGauge - Cardinality(bcast[b].failed)
    /\ bcast' = [bcast EXCEPT ![b].failed = {}]
    /\ UNCHANGED <<roomKeys, lobbyConns, roomJoinOrder, lobbyGauge>>

\* removeFailedConns: join order and room key are left as they are.
BroadcastReap(b) ==
    /\ bcast[b].todo = {} /\ bcast[b].failed # {}
    /\ LET r    == bcast[b].room
           dead == {c \in bcast[b].failed : connUser[c] # NoUser}
       IN  /\ rooms'     = [rooms EXCEPT ![r] = @ \ dead]
           /\ Forget(dead)
           /\ roomGauge' = roomGauge - Cardinality(dead)
    /\ bcast' = [bcast EXCEPT ![b].failed = {}]
    /\ UNCHANGED <<roomKeys, lobbyConns, roomJoinOrder, lobbyGauge>>

Next ==
    \/ \E r \in Room, c \in Conn, u \in User : ConnectRoom(r, c, u)
    \/ \E r \in Room, c \in Conn : DisconnectRoom(r, c)
    \/ \E r \in Room, u \in User : CloseUserConnsInRoom(r, u)
    \/ \E r \in Room : CloseAllInRoom(r)
    \/ \E c \in Conn, u \in User : ConnectLobby(c, u)
    \/ \E c \in Conn : DisconnectLobby(c)
    \/ CloseAll
    \/ \E b \in Broadcaster, r \in Room, except \in SUBSET Conn :
          Cardinality(except) <= 1 /\ BroadcastSnapshot(b, r, except)
    \/ \E b \in Broadcaster, c \in Conn, ok \in BOOLEAN : BroadcastWrite(b, c, ok)
    \/ \E b \in Broadcaster : BroadcastReap(b)

Spec == Init /\ [][Next]_vars

----------------------------------------------------------------------------
(* Properties.                                                             *)

\* The shape of every map of Manager (manager.go:35-60); no path that removes a
\* connection takes a gauge below zero.
TypeOK ==
    /\ rooms         \in [Room -> SUBSET Conn]
    /\ roomKeys      \in SUBSET Room
    /\ connUser      \in [Conn -> User \cup {NoUser}]
    /\ userConns     \in [User -> SUBSET Conn]
    /\ lobbyConns    \in [Conn -> User \cup {NoUser}]
    /\ connMu        \in SUBSET Conn
    /\ roomJoinOrder \in [Room -> Seq(User)]
    /\ roomGauge     \in Nat
    /\ lobbyGauge    \in Nat
    /\ bcast         \in [Broadcaster -> [room   : Room,
                                          todo   : SUBSET Conn,
                                          failed : SUBSET Conn]]

\* A room connection is filed under exactly one room and under its user, and a
\* lobby connection under no room: the three removal paths that walk different
\* maps (disconnect, eviction at logout, failed write) delete the same thing.
RoomsIndexed ==
    /\ \A r1, r2 \in Room : r1 # r2 => rooms[r1] \cap rooms[r2] = {}
    /\ \A c \in Conn : connUser[c] # NoUser <=> \E r \in Room : c \in rooms[r]
    /\ \A c \in Conn : lobbyConns[c] # NoUser => connUser[c] = NoUser

\* userConns holds exactly the live room and lobby connections of each user, so
\* that UserConnectionCount (manager.go:195-205) neither leaks a slot of the
\* per-user limit nor frees one too early, and connMu is the mutex of exactly
\* those connections (safeWrite, manager.go:174).
UsersIndexed ==
    /\ \A u \in User :
         userConns[u] = {c \in Conn : connUser[c] = u \/ lobbyConns[c] = u}
    /\ connMu = RoomConns \cup LobbyConns

\* Join order lists nobody twice and misses nobody who is connected
\* (manager_room.go:30-41), whatever path removed the other connections.
JoinOrderComplete ==
    \A r \in Room :
      /\ \A i, j \in DOMAIN roomJoinOrder[r] :
            roomJoinOrder[r][i] = roomJoinOrder[r][j] => i = j
      /\ \A c \in rooms[r] : Contains(roomJoinOrder[r], connUser[c])

\* Admin succession (GetNextUserInRoom, manager_room.go:341-358) finds somebody
\* exactly when another user is connected to the room: an admin's departure
\* never leaves a populated room without a candidate.
SuccessorExists ==
    \A r \in Room, ex \in User :
        (NextUserInRoom(r, ex) # NoUser) <=> (UsersInRoom(r) \ {ex} # {})

\* The gauges are moved by hand on seven paths and must agree with the maps
\* (metrics.WSConnectionsActive), also when a write failure, a kick and the
\* handler's own cleanup race to remove the same connection.
GaugesAgree ==
    /\ roomGauge  = Cardinality(RoomConns)
    /\ lobbyGauge = Cardinality(LobbyConns)

\* A broadcast only ever reaps connections of its own room: between its snapshot
\* and its second critical section no target can have moved elsewhere.
BroadcastTargets ==
    \A b \in Broadcaster : \A c \in bcast[b].todo \cup bcast[b].failed :
        /\ lobbyConns[c] = NoUser
        /\ connUser[c] # NoUser => c \in rooms[bcast[b].room]

\* The seven maps implement the abstract registry: each critical section adds
\* one connection, drops connections of one room, or, at a last lobby
\* disconnect, drops all of the user's at once (manager_lobby.go:77-90).
MemberEntries ==
    {e \in [conn : Conn, user : User, room : Room] :
        e.conn \in rooms[e.room] /\ connUser[e.conn] = e.user}
LobbyEntries ==
    {e \in [conn : Conn, user : User] : lobbyConns[e.conn] = e.user}

Abstract == INSTANCE Registry WITH inRoom <- MemberEntries, inLobby <- LobbyEntries

ImplementsRegistry == Abstract!RegistrySpec
=============================================================================
