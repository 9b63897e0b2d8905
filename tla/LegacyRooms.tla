------------------------------ MODULE LegacyRooms ------------------------------
(***************************************************************************)
(* The rooms of the legacy backend (v1/backend): one process, whose        *)
(* connection manager keeps every WebSocket in memory, whose admins and    *)
(* mutes are rows of a database, and whose handlers are coroutines of one  *)
(* event loop.  A handler runs alone up to its next await, so an action    *)
(* here is what it does between two awaits.                                *)
(*                                                                         *)
(* All that a broadcast does to the state of the process happens when its  *)
(* channel is relayed: the sockets to which the message could not be sent  *)
(* are disconnected.  Other workers publish on the same channels, so a     *)
(* relay needs no broadcast of this process: it is an action of its own,   *)
(* and a handler's broadcasts, chat and private messages among them, show  *)
(* only in where the handler may be interrupted.                           *)
(***************************************************************************)
EXTENDS Integers, FiniteSets, SequencesExt

CONSTANTS User, Room,
          WebSocket,      \* bound: each carries one connection
          Lobby,          \* the channel of the lobby
          Nobody, Nowhere

ASSUME LegacyAssumption ==
    /\ IsFiniteSet(WebSocket)
    /\ Nobody \notin User /\ Nowhere \notin Room
    /\ Lobby \notin User \cup Room /\ User \cap Room = {}

VARIABLES mgr,         \* the ConnectionManager
          db,          \* rooms.is_active, room_admins and muted_users
          endpoint,    \* socket -> how far its handler has come, for whom and where
          link,        \* socket -> "up", or who ended it: "lost" (client), "closed" (server)
          orphaned     \* rooms in which a departure is not followed by a succession

roomsVars == <<mgr, db, endpoint, link, orphaned>>

\* A room's list of sockets is a set here: nothing depends on its order.
Manager == [rooms        : [Room -> SUBSET WebSocket],
            socketToUser : [WebSocket -> User \cup {Nobody}],
            userToSocket : [User -> SUBSET WebSocket],
            joinOrder    : [Room -> Seq(User)],
            kicked       : [User -> Nat],
            lobby        : [WebSocket -> User \cup {Nobody}]]

Database == [active : SUBSET Room, admins : [Room -> SUBSET User], muted : [Room -> SUBSET User]]

\* "crashed" and "stray": an exception ended the endpoint of a room or of the
\* lobby, and its disconnect will not run.
Progress == {"new", "accepting", "greeting", "open", "kicking", "left", "amnesty", "lobby",
             "gone", "crashed", "stray"}

Endpoint == [pc : Progress, user : User \cup {Nobody}, room : Room \cup {Nowhere},
            targets : SUBSET WebSocket]

RoomsInit ==
    /\ mgr = [rooms        |-> [r \in Room |-> {}],
              socketToUser |-> [s \in WebSocket |-> Nobody],
              userToSocket |-> [u \in User |-> {}],
              joinOrder    |-> [r \in Room |-> <<>>],
              kicked       |-> [u \in User |-> 0],
              lobby        |-> [s \in WebSocket |-> Nobody]]
    /\ db = [active |-> Room, admins |-> [r \in Room |-> {}], muted |-> [r \in Room |-> {}]]
    /\ endpoint = [s \in WebSocket |-> [pc |-> "new", user |-> Nobody, room |-> Nowhere, targets |-> {}]]
    /\ link = [s \in WebSocket |-> "up"]
    /\ orphaned = {}

-----------------------------------------------------------------------------
(* The manager *)

GetUsersInRoom(m, r) == {m.socketToUser[s] : s \in m.rooms[r]}

\* The first of the join order, if there is one.
GetAdminSuccessor(m, r) == IF m.joinOrder[r] = <<>> THEN {} ELSE {Head(m.joinOrder[r])}

Connect(m, s, r, u) ==
    [m EXCEPT !.rooms[r]        = @ \cup {s},
              !.socketToUser[s] = u,
              !.userToSocket[u] = @ \cup {s},
              !.joinOrder[r]    = Append(@, u)]

\* Mutant: the name stays in the join order.
DisconnectKeepsOrder(m, s, r) ==
    [m EXCEPT !.rooms[r]        = @ \ {s},
              !.socketToUser[s] = Nobody,
              !.userToSocket    = [u \in User |-> @[u] \ {s}]]

\* A socket the manager does not know (any more) changes nothing.
Disconnect(m, s, r) ==
    [m EXCEPT !.rooms[r]        = @ \ {s},
              !.socketToUser[s] = Nobody,
              !.userToSocket    = [u \in User |-> @[u] \ {s}],
              !.joinOrder[r]    = RemoveFirst(@, m.socketToUser[s])]

ConnectLobby(m, s, u) ==
    [m EXCEPT !.lobby[s] = u, !.userToSocket[u] = @ \cup {s}]

DisconnectLobby(m, s) ==
    [m EXCEPT !.lobby[s]     = Nobody,
              !.userToSocket = [u \in User |-> @[u] \ {s}]]

-----------------------------------------------------------------------------
(* Relays *)

Addressed(c) == CASE c \in Room -> mgr.rooms[c]
                  [] c \in User -> mgr.userToSocket[c]
                  [] c = Lobby  -> {s \in WebSocket : mgr.lobby[s] # Nobody}

\* In the lobby, or in the one room that lists it.
DropDead(s, m) ==
    IF m.lobby[s] # Nobody
    THEN DisconnectLobby(m, s)
    ELSE Disconnect(m, s, CHOOSE r \in Room : s \in m.rooms[r])

DropAll(m, dead) == FoldSet(DropDead, m, dead)

\* Sending to a socket the server has closed fails; to one the client has left it may.
Relay(c) ==
    /\ \E dead \in SUBSET {s \in Addressed(c) : link[s] # "up"} :
          /\ {s \in Addressed(c) : link[s] = "closed"} \subseteq dead /\ dead # {}
          /\ mgr' = DropAll(mgr, dead)
    /\ UNCHANGED <<db, endpoint, link, orphaned>>

-----------------------------------------------------------------------------
(* Roles *)

IsAdmin(u, r) == u \in db.admins[r]

IsMuted(u, r) == u \in db.muted[r]

AddAdmin(d, u, r) == [d EXCEPT !.admins[r] = @ \cup {u}]

AddMute(d, u, r) == [d EXCEPT !.muted[r] = @ \cup {u}]

RemoveMute(d, u, r) == [d EXCEPT !.muted[r] = @ \ {u}]

\* The leaving admin steps down and every mute of the room is lifted.
Amnesty(d, u, r) == [d EXCEPT !.admins[r] = @ \ {u}, !.muted[r] = {}]

\* Mutant: the successor is looked for among the admins.
SucceedAgain(d, m, r) == [d EXCEPT !.admins[r] = @ \cup (GetAdminSuccessor(m, r) \cap @)]

Succeed(d, m, r) == [d EXCEPT !.admins[r] = @ \cup GetAdminSuccessor(m, r)]

-----------------------------------------------------------------------------
(* Connecting *)

GoesTo(s, pc) == endpoint' = [endpoint EXCEPT ![s].pc = pc]

Handshake(s, u, r) ==
    /\ endpoint[s].pc = "new"
    /\ r \in db.active /\ u \notin GetUsersInRoom(mgr, r)
    /\ endpoint' = [endpoint EXCEPT ![s].pc = "accepting", ![s].user = u, ![s].room = r]
    /\ UNCHANGED <<mgr, db, link, orphaned>>

\* Registering, and promoting whoever is alone.
Accept(s) ==
    LET u == endpoint[s].user
        r == endpoint[s].room
        m == Connect(mgr, s, r, u)
    IN  /\ endpoint[s].pc = "accepting" /\ GoesTo(s, "greeting")
        /\ mgr' = m
        /\ db' = IF m.rooms[r] = {s} THEN AddAdmin(db, u, r) ELSE db
        /\ UNCHANGED <<link, orphaned>>

AcceptFails(s) ==
    /\ endpoint[s].pc = "accepting" /\ link[s] = "lost" /\ GoesTo(s, "gone")
    /\ UNCHANGED <<mgr, db, link, orphaned>>

\* The history is sent, and the room told.
Greet(s) ==
    /\ endpoint[s].pc = "greeting" /\ link[s] # "closed" /\ GoesTo(s, "open")
    /\ UNCHANGED <<mgr, db, link, orphaned>>

Broken(s) == IF link[s] = "up" THEN "closed" ELSE link[s]

\* An exception that nothing catches: the server closes the connection, and
\* nobody disconnects the socket.
Crashes(s, pc) ==
    /\ GoesTo(s, pc)
    /\ link' = [link EXCEPT ![s] = Broken(s)]
    /\ UNCHANGED <<mgr, db>>

Abandons(s) == orphaned' = orphaned \cup {endpoint[s].room}

\* Sending the history is outside the try.
GreetFails(s) ==
    /\ endpoint[s].pc = "greeting" /\ link[s] # "up"
    /\ Crashes(s, "crashed") /\ Abandons(s)

\* The loop catches WebSocketDisconnect only.  A message that is not a JSON object
\* raises something else, and so does receiving from a socket that the server
\* closed while its handler was busy with a message.
ReceiveFails(s) ==
    /\ endpoint[s].pc = "open"
    /\ Crashes(s, "crashed") /\ Abandons(s)

EnterLobby(s, u) ==
    /\ endpoint[s].pc = "new"
    /\ endpoint' = [endpoint EXCEPT ![s].pc = "lobby", ![s].user = u]
    /\ mgr' = ConnectLobby(mgr, s, u)
    /\ UNCHANGED <<db, link, orphaned>>

LeaveLobby(s) ==
    /\ endpoint[s].pc = "lobby" /\ link[s] # "up" /\ GoesTo(s, "gone")
    /\ mgr' = DisconnectLobby(mgr, s)
    /\ UNCHANGED <<db, link, orphaned>>

\* A binary frame has no text to receive.
LobbyFails(s) ==
    /\ endpoint[s].pc = "lobby"
    /\ Crashes(s, "stray") /\ UNCHANGED orphaned

Drop(s) ==
    /\ endpoint[s].pc \notin {"new", "gone", "crashed", "stray"}
    /\ link[s] = "up" /\ link' = [link EXCEPT ![s] = "lost"]
    /\ UNCHANGED <<mgr, db, endpoint, orphaned>>

-----------------------------------------------------------------------------
(* Commands.  What the client sent before it left is still received. *)

Listening(s) == endpoint[s].pc = "open" /\ link[s] # "closed"

Commands(s, r) == Listening(s) /\ endpoint[s].room = r /\ r \in db.active

MuteUser(u, target, r) ==
    /\ target # u /\ ~IsAdmin(target, r) /\ IsAdmin(u, r) /\ ~IsMuted(target, r)
    /\ db' = AddMute(db, target, r)

UnmuteUser(u, target, r) ==
    /\ IsAdmin(u, r) /\ IsMuted(target, r)
    /\ db' = RemoveMute(db, target, r)

PromoteToAdmin(u, target, r) ==
    /\ target # u /\ IsAdmin(u, r) /\ ~IsAdmin(target, r) /\ ~IsMuted(target, r)
    /\ db' = AddAdmin(db, target, r)

HandleMute(s, target) ==
    /\ \E r \in Room : Commands(s, r) /\ MuteUser(endpoint[s].user, target, r)
    /\ UNCHANGED <<mgr, endpoint, link, orphaned>>

HandleUnmute(s, target) ==
    /\ \E r \in Room : Commands(s, r) /\ UnmuteUser(endpoint[s].user, target, r)
    /\ UNCHANGED <<mgr, endpoint, link, orphaned>>

HandlePromote(s, target) ==
    /\ \E r \in Room : Commands(s, r) /\ PromoteToAdmin(endpoint[s].user, target, r)
    /\ UNCHANGED <<mgr, endpoint, link, orphaned>>

\* Mutant: every kick adds to what is still to be taken.
KickAdds(s, target) ==
    \E r \in Room :
    LET found == mgr.rooms[r] \cap mgr.userToSocket[target]
    IN /\ Commands(s, r) /\ target # endpoint[s].user
       /\ IsAdmin(endpoint[s].user, r) /\ ~IsAdmin(target, r)
       /\ IF found = {}
          THEN UNCHANGED <<mgr, endpoint>>
          ELSE /\ mgr' = [mgr EXCEPT !.kicked[target] = @ + Cardinality(found)]
               /\ endpoint' = [endpoint EXCEPT ![s].pc = "kicking", ![s].targets = found]
       /\ UNCHANGED <<db, link, orphaned>>

Kick(s, target) ==
    \E r \in Room :
    LET found == mgr.rooms[r] \cap mgr.userToSocket[target]
    IN /\ Commands(s, r) /\ target # endpoint[s].user
       /\ IsAdmin(endpoint[s].user, r) /\ ~IsAdmin(target, r)
       /\ IF found = {}
          THEN UNCHANGED <<mgr, endpoint>>
          ELSE /\ mgr' = [mgr EXCEPT !.kicked[target] = Cardinality(found)]
               /\ endpoint' = [endpoint EXCEPT ![s].pc = "kicking", ![s].targets = found]
       /\ UNCHANGED <<db, link, orphaned>>

\* After the last target the kicker receives again, which fails if he was closed
\* himself.
AfterKick(s, rest) ==
    CASE rest # {}                        -> "kicking"
      [] rest = {} /\ link[s] = "closed" -> "crashed"
      [] rest = {} /\ link[s] # "closed" -> "open"

\* A target that has left already is not closed: telling it fails.
CloseTarget(s) ==
    \E x \in endpoint[s].targets :
    LET rest == endpoint[s].targets \ {x}
        pc   == AfterKick(s, rest)
    IN /\ endpoint[s].pc = "kicking"
       /\ link' = [link EXCEPT ![x] = Broken(x)]
       /\ endpoint' = [endpoint EXCEPT ![s].targets = rest, ![s].pc = pc]
       /\ IF pc = "crashed" THEN Abandons(s) ELSE UNCHANGED orphaned
       /\ UNCHANGED <<mgr, db>>

-----------------------------------------------------------------------------
(* Leaving *)

\* handle_admin_succession up to its first await, which lifting a mute is.
Succession(s, m) ==
    LET u == endpoint[s].user
        r == endpoint[s].room
    IN  /\ mgr' = m
        /\ \/ /\ u \notin db.admins[r]
              /\ GoesTo(s, "gone") /\ UNCHANGED db
           \/ /\ u \in db.admins[r] /\ db.muted[r] # {}
              /\ GoesTo(s, "amnesty") /\ db' = Amnesty(db, u, r)
           \/ /\ u \in db.admins[r] /\ db.muted[r] = {}
              /\ GoesTo(s, "gone") /\ db' = Succeed(Amnesty(db, u, r), m, r)
        /\ UNCHANGED <<link, orphaned>>

\* A kick is counted per user: the next of the user's connections to end, in
\* whichever room, takes it.
TakeKick(m, u) == m.kicked[u] > 0

\* Mutant: the test for the kick is lost.
TakesKickAlways(s) ==
    LET u == endpoint[s].user
        r == endpoint[s].room
    IN  /\ endpoint[s].pc = "open" /\ link[s] # "up"
        /\ mgr' = [Disconnect(mgr, s, r) EXCEPT !.kicked[u] = @ - 1]
        /\ db' = RemoveMute(db, u, r) /\ GoesTo(s, "gone")
        /\ orphaned' = IF u \in db.admins[r] THEN orphaned \cup {r} ELSE orphaned
        /\ UNCHANGED link

LeaveKicked(s) ==
    LET u == endpoint[s].user
        r == endpoint[s].room
    IN  /\ endpoint[s].pc = "open" /\ link[s] # "up" /\ TakeKick(mgr, u)
        /\ mgr' = [Disconnect(mgr, s, r) EXCEPT !.kicked[u] = @ - 1]
        /\ db' = RemoveMute(db, u, r) /\ GoesTo(s, "gone")
        /\ orphaned' = IF u \in db.admins[r] THEN orphaned \cup {r} ELSE orphaned
        /\ UNCHANGED link

\* Lifting the user's own mute is an await before the succession.
Leave(s) ==
    LET u == endpoint[s].user
        r == endpoint[s].room
        m == Disconnect(mgr, s, r)
    IN  /\ endpoint[s].pc = "open" /\ link[s] # "up" /\ ~TakeKick(mgr, u)
        /\ IF u \in db.muted[r]
           THEN /\ mgr' = m /\ db' = RemoveMute(db, u, r) /\ GoesTo(s, "left")
                /\ UNCHANGED <<link, orphaned>>
           ELSE Succession(s, m)

StepDown(s) == endpoint[s].pc = "left" /\ Succession(s, mgr)

FindSuccessor(s) ==
    /\ endpoint[s].pc = "amnesty" /\ GoesTo(s, "gone")
    /\ db' = Succeed(db, mgr, endpoint[s].room)
    /\ UNCHANGED <<mgr, link, orphaned>>

-----------------------------------------------------------------------------
(* The global admin *)

\* Every socket of the rooms is told and closed; joins that are under way are not.
CloseRooms(rooms) ==
    /\ db' = [db EXCEPT !.active = @ \ rooms]
    /\ link' = [s \in WebSocket |-> IF link[s] = "up" /\ \E r \in rooms : s \in mgr.rooms[r]
                                    THEN "closed" ELSE link[s]]
    /\ UNCHANGED <<mgr, endpoint, orphaned>>

\* Opening what is open changes nothing.
OpenRooms(rooms) ==
    /\ ~(rooms \subseteq db.active)
    /\ db' = [db EXCEPT !.active = @ \cup rooms]
    /\ UNCHANGED <<mgr, endpoint, link, orphaned>>

PromoteInConnectedRooms(u) ==
    LET promoted == {r \in Room : u \in GetUsersInRoom(mgr, r) /\ u \notin db.admins[r]}
    IN  /\ promoted # {}
        /\ db' = [db EXCEPT !.admins = [r \in Room |-> IF r \in promoted THEN @[r] \cup {u} ELSE @[r]]]
        /\ UNCHANGED <<mgr, endpoint, link, orphaned>>

RoomsNext ==
    \/ \E c \in Room \cup User \cup {Lobby} : Relay(c)
    \/ \E s \in WebSocket, u \in User, r \in Room : Handshake(s, u, r)
    \/ \E s \in WebSocket : Accept(s)
    \/ \E s \in WebSocket : AcceptFails(s)
    \/ \E s \in WebSocket : Greet(s)
    \/ \E s \in WebSocket : GreetFails(s)
    \/ \E s \in WebSocket : ReceiveFails(s)
    \/ \E s \in WebSocket, u \in User : EnterLobby(s, u)
    \/ \E s \in WebSocket : LeaveLobby(s)
    \/ \E s \in WebSocket : LobbyFails(s)
    \/ \E s \in WebSocket : Drop(s)
    \/ \E s \in WebSocket, u \in User : HandleMute(s, u)
    \/ \E s \in WebSocket, u \in User : HandleUnmute(s, u)
    \/ \E s \in WebSocket, u \in User : HandlePromote(s, u)
    \/ \E s \in WebSocket, u \in User : Kick(s, u)
    \/ \E s \in WebSocket : CloseTarget(s)
    \/ \E s \in WebSocket : LeaveKicked(s)
    \/ \E s \in WebSocket : Leave(s)
    \/ \E s \in WebSocket : StepDown(s)
    \/ \E s \in WebSocket : FindSuccessor(s)
    \/ \E r \in Room : CloseRooms({r})
    \/ CloseRooms(Room)
    \/ \E r \in Room : OpenRooms({r})
    \/ OpenRooms(Room)
    \/ \E u \in User : PromoteInConnectedRooms(u)

RoomsSpec == RoomsInit /\ [][RoomsNext]_roomsVars

-----------------------------------------------------------------------------
(* Properties *)

\* Types; the kick count of a user is a natural number.
RoomsTypeOK ==
    /\ mgr \in Manager /\ db \in Database
    /\ endpoint \in [WebSocket -> Endpoint] /\ link \in [WebSocket -> {"up", "lost", "closed"}]
    /\ orphaned \subseteq Room

\* A user's connections to a room.
Of(u, r) == {s \in mgr.rooms[r] : mgr.socketToUser[s] = u}

\* The five maps of the manager, each changed by connect, by disconnect and by
\* every relay that meets a dead socket, tell the same story: who is connected
\* where, how often each user stands in a room's join order, and whose sockets
\* a private message goes to.
MapsAgree ==
    /\ {s \in WebSocket : mgr.socketToUser[s] # Nobody} = UNION {mgr.rooms[r] : r \in Room}
    /\ \A r \in Room : \A u \in User :
          Cardinality(Of(u, r)) = Cardinality({i \in DOMAIN mgr.joinOrder[r] : mgr.joinOrder[r][i] = u})
    /\ \A u \in User : mgr.userToSocket[u] =
          (UNION {Of(u, r) : r \in Room}) \cup {s \in WebSocket : mgr.lobby[s] = u}

\* Whose endpoint has yet to run its disconnect.
Registered == {"greeting", "open", "kicking"}

\* A user never has more kicks to take than connections whose disconnect is still
\* to come: a kick does not wait for a connection that the user has not made yet,
\* to be taken for its departure.  An endpoint of his that crashed takes no kick.
KicksAreOwed ==
    \A u \in User :
       \/ mgr.kicked[u] <= Cardinality({s \in WebSocket : endpoint[s].user = u /\ endpoint[s].pc \in Registered})
       \/ \E s \in WebSocket : endpoint[s].user = u /\ endpoint[s].pc = "crashed"

\* Nobody is in the middle of leaving the room.
NobodyLeaving(r) ==
    \A s \in WebSocket : endpoint[s].room = r =>
       /\ endpoint[s].pc \notin {"left", "amnesty"}
       /\ endpoint[s].pc \in Registered => link[s] = "up"

\* A room in which somebody is connected has a connected admin, once everybody
\* who left it has left, unless an endpoint crashed there or an admin's
\* departure was taken for a kick.
RoomHasAdmin ==
    \A r \in Room \ orphaned :
       NobodyLeaving(r) /\ mgr.rooms[r] # {} => GetUsersInRoom(mgr, r) \cap db.admins[r] # {}

=============================================================================
