--------------------------- MODULE MCRoomPresence ---------------------------
(* Connections, their owners and the kick rights of the TLC runs.          *)
EXTENDS RoomPresence

CONSTANTS alice, bob, a2, b1, b2, lb, r1, r2

\* b1, b2 and lb are bob's connections, all others alice's.
ConnOwner == [c \in Conn |-> IF c \in {b1, b2, lb} THEN bob ELSE alice]

\* bob is an administrator of every room, alice is not.
BobKicksAlice == {<<bob, alice>>}

\* A reachable state to start from: every connection but a2 has joined room r or
\* the lobby, and all join announcements are out.
Joined == RoomSlot \ {a2}

JoinedInit(r) ==
    /\ target        = [c \in Conn |-> r]
    /\ inRoom        = {[conn |-> c, user |-> Owner[c], room |-> target[c]] : c \in Joined}
    /\ inLobby       = {[conn |-> c, user |-> Owner[c]] : c \in LobbySlot}
    /\ pc            = [t \in Thread |-> IF t[1] = "ws" /\ t[2] \in Joined THEN "reading"
                                         ELSE IF t[1] = "lobby" THEN "open" ELSE "off"]
    /\ victim        = [c \in RoomSlot |-> Owner[c]]
    /\ list          = [t \in Thread |-> {}]
    /\ todo          = [c \in LobbySlot |-> {}]
    /\ kickedUsers   = {}
    /\ leftUsers     = {}
    /\ pendingLeaves = [k \in Key |-> NoTimer]
    /\ active        = Room
    /\ closing       = {}
    /\ view          = [q \in Room |-> UsersIn(q)]
    /\ owed          = {}
    /\ kicked        = {}

JoinedSpec == JoinedInit(r1) /\ [][Next]_vars

\* Bounds of the presence run.  The connections of a behaviour are all for one
\* room: r1, which alice has to herself, or r2, where bob is present and kicks
\* her.  Alice's second connection is used in r1 only, and not while the room is
\* being closed or is closed.
In(r) == \A c \in Conn : target[c] = r

ScenesInit == (Init /\ In(r1)) \/ JoinedInit(r2)

Unused(c) == \A name \in {"ws", "join", "timer"} : pc[<<name, c>>] = "off"

Bounds ==
    /\ UNCHANGED target
    /\ In(r1) => pc'[<<"ws", b1>>] = "off"
    /\ In(r2) => /\ pc'[<<"ws", a2>>] = "off"
                 /\ pc'[<<"ws", b1>>] \in {"reading", "kickMark", "kickClose", "kickRead", "kickSend"}
                 /\ UNCHANGED active
    /\ active # Room \/ closing # {} => pc'[<<"ws", a2>>] = "off"
    /\ active' # active => Unused(a2)

ScenesSpec == ScenesInit /\ [][Next]_vars

\* Bound of the liveness run: clients lose their connection or log out, but
\* nobody sends "leave".  No step the server takes by itself is cut off.
NoLeaveSpec == Init /\ [][Next /\ leftUsers' = {}]_vars /\ Fairness
=============================================================================
