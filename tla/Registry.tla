------------------------------ MODULE Registry ------------------------------
(***************************************************************************)
(* What the connection manager of chat-service promises its callers: the   *)
(* room connections and the lobby connections, each with its user, and how *)
(* one call may change them.  ConnectionManager implements this with seven *)
(* maps; RoomPresence builds the handlers on top of it.                    *)
(***************************************************************************)
EXTENDS Integers, FiniteSets

CONSTANTS User, Room, Conn

VARIABLES inRoom,   \* room connections: records [conn, user, room]
          inLobby   \* lobby connections: records [conn, user]

registryVars == <<inRoom, inLobby>>

RoomEntry  == [conn : Conn, user : User, room : Room]
LobbyEntry == [conn : Conn, user : User]

Registered(c) == (\E e \in inRoom : e.conn = c) \/ (\E e \in inLobby : e.conn = c)
Members(r)    == {e \in inRoom : e.room = r}
UsersIn(r)    == {e.user : e \in Members(r)}
HasLobby(u)   == \E e \in inLobby : e.user = u

\* Connections of u of either kind, the number the per-user limit looks at.
ConnCount(u) == Cardinality({e \in inRoom : e.user = u})
                  + Cardinality({e \in inLobby : e.user = u})

----------------------------------------------------------------------------
RegistryInit == inRoom = {} /\ inLobby = {}

\* A connection enters a room.
Join(c, u, r) ==
    /\ ~Registered(c)
    /\ inRoom' = inRoom \cup {[conn |-> c, user |-> u, room |-> r]}
    /\ UNCHANGED inLobby

\* Some connections of one room go: a disconnect, a kick, a closed room, or
\* the connections a broadcast could not write to.
Drop(r, gone) ==
    /\ gone \subseteq Members(r)
    /\ inRoom' = inRoom \ gone
    /\ UNCHANGED inLobby

EnterLobby(c, u) ==
    /\ ~Registered(c)
    /\ inLobby' = inLobby \cup {[conn |-> c, user |-> u]}
    /\ UNCHANGED inRoom

\* A lobby connection goes; the user's last one takes the room connections
\* with it in the same step.
ExitLobby(e) ==
    /\ e \in inLobby
    /\ inLobby' = inLobby \ {e}
    /\ inRoom'  = IF \E f \in inLobby \ {e} : f.user = e.user
                  THEN inRoom
                  ELSE {m \in inRoom : m.user # e.user}

Shutdown == inRoom' = {} /\ inLobby' = {}

RegistryNext ==
    \/ \E c \in Conn, u \in User, r \in Room : Join(c, u, r)
    \/ \E r \in Room : \E gone \in SUBSET Members(r) : Drop(r, gone)
    \/ \E c \in Conn, u \in User : EnterLobby(c, u)
    \/ \E e \in inLobby : ExitLobby(e)
    \/ Shutdown

RegistrySpec == RegistryInit /\ [][RegistryNext]_registryVars

----------------------------------------------------------------------------
\* Each connection is registered at most once, as a room or a lobby connection.
RegistryTypeOK ==
    /\ inRoom \subseteq RoomEntry
    /\ inLobby \subseteq LobbyEntry
    /\ \A e, f \in inRoom : e.conn = f.conn => e = f
    /\ \A e, f \in inLobby : e.conn = f.conn => e = f
    /\ \A e \in inRoom, f \in inLobby : e.conn # f.conn
=============================================================================
