---------------------------- MODULE RoomPresence ----------------------------
(***************************************************************************)
(* Presence of users in rooms: WSHandler of chat-service                   *)
(* (internal/handler/websocket.go, ws_lifecycle.go, lifecycle_state.go,    *)
(* handleKick of ws_admin.go) and LobbyHandler (lobby.go), on top of the   *)
(* connection registry.                                                    *)
(*                                                                         *)
(* A slot is a websocket connection with the goroutines that serve it; it  *)
(* is reused for a new connection once all of them have returned:          *)
(*   <<"ws", c>>     HandleRoomWS: handshake, readLoop, handleDisconnect   *)
(*   <<"join", c>>   the goroutine that runs handleJoin                    *)
(*   <<"timer", c>>  the grace-period goroutine c's disconnect started     *)
(*   <<"lobby", c>>  HandleLobbyWS, with the full-logout callbacks         *)
(* Between two steps of a goroutine any other may run: each step is one    *)
(* access to shared state (manager, lifecycleState maps, room state).      *)
(***************************************************************************)
EXTENDS Registry

CONSTANTS LobbySlot,    \* connections used for the lobby, the others for rooms
          Owner,        \* connection -> the user who opens it
          MaxConns,     \* maxConnectionsPerUser (websocket.go)
          CanKick,      \* pairs <<admin, target>> that pass handleKick's checks
          Closable      \* rooms a global admin may close and open

RoomSlot == Conn \ LobbySlot
Key      == Room \X User         \* the "room:user" keys of lifecycleState
Thread   == ({"ws", "join", "timer"} \X RoomSlot) \cup ({"lobby"} \X LobbySlot)
NoTimer  == "none"

ASSUME SlotAssumption ==
    /\ LobbySlot \subseteq Conn
    /\ Owner \in [Conn -> User]
    /\ MaxConns \in Nat \ {0}
    /\ CanKick \subseteq User \X User
    /\ Closable \subseteq Room
    /\ NoTimer \notin Conn

VARIABLES pc,            \* thread -> where it stands; "off" when not running
          target,        \* connection -> the room its goroutine works on
          victim,        \* room slot -> the user its kick command names
          list,          \* thread -> user list read for its next broadcast
          todo,          \* lobby slot -> drained rooms still to announce
          kickedUsers,   \* lifecycleState.kickedUsers
          leftUsers,     \* lifecycleState.leftUsers
          pendingLeaves, \* lifecycleState.pendingLeaves: key -> timer's slot
          active,        \* rooms with is_active set in the database
          closing,       \* rooms between SetActive(false) and CloseAllInRoom
          view,          \* room -> user list of the last room-state broadcast
          owed,          \* history: departures no broadcast has shown yet
          kicked         \* history: keys of which a kick was ordered

vars == <<inRoom, inLobby, pc, target, victim, kicked, list, todo, kickedUsers,
          leftUsers, pendingLeaves, active, closing, view, owed>>

lifecycle == <<kickedUsers, leftUsers, pendingLeaves>>
locals    == <<target, victim, kicked, list, todo>>

U(t)      == Owner[t[2]]
R(t)      == target[t[2]]
KeyOf(t)  == <<R(t), U(t)>>
InRoom(r, u) == u \in UsersIn(r)
Present   == {<<e.room, e.user>> : e \in inRoom}

Goto(t, from, to) == pc[t] = from /\ pc' = [pc EXCEPT ![t] = to]

\* Bookkeeping of owed: a key leaves the set when the user is back or when a
\* broadcast in the room shows a list without the user.
Departures(shown) == owed' = ((owed \ shown) \cup Present) \ Present'
NoBroadcast == Departures({}) /\ UNCHANGED view

\* BroadcastRoom of a room state: clients replace their list by the one sent.
\* Connections whose write fails are dropped from the registry.
SendState(r, users) ==
    /\ \E dead \in SUBSET Members(r) : Drop(r, dead)
    /\ view' = [view EXCEPT ![r] = users]
    /\ Departures({k \in Key : k[1] = r /\ k[2] \notin users})

----------------------------------------------------------------------------
Init ==
    /\ RegistryInit
    /\ pc            = [t \in Thread |-> "off"]
    /\ target        \in [Conn -> Room]
    /\ victim        = [c \in RoomSlot |-> Owner[c]]
    /\ list          = [t \in Thread |-> {}]
    /\ todo          = [c \in LobbySlot |-> {}]
    /\ kickedUsers   = {}
    /\ leftUsers     = {}
    /\ pendingLeaves = [k \in Key |-> NoTimer]
    /\ active        = Room
    /\ closing       = {}
    /\ view          = [r \in Room |-> {}]
    /\ owed          = {}
    /\ kicked        = {}

----------------------------------------------------------------------------
(* HandleRoomWS: the handshake.                                            *)

\* Token, auth-service and is_active checks passed; then the lobby check.
Request(t, r) ==
    /\ t[1] = "ws" /\ pc[<<"join", t[2]>>] = "off" /\ pc[<<"timer", t[2]>>] = "off"
    /\ Goto(t, "off", "lobbyCheck")
    /\ r \in active
    /\ target' = [target EXCEPT ![t[2]] = r]
    /\ UNCHANGED <<inRoom, inLobby, victim, kicked, list, todo, lifecycle, active, closing, view, owed>>

CheckLobby(t) ==
    /\ t[1] = "ws"
    /\ Goto(t, "lobbyCheck", IF HasLobby(U(t)) THEN "evict" ELSE "off")
    /\ UNCHANGED <<inRoom, inLobby, locals, lifecycle, active, closing, view, owed>>

EvictStale(t) ==
    /\ t[1] = "ws"
    /\ Goto(t, "evict", "limit")
    /\ Drop(R(t), {e \in Members(R(t)) : e.user = U(t)})
    /\ NoBroadcast
    /\ UNCHANGED <<locals, lifecycle, active, closing>>

\* 429 when the limit is reached; otherwise Upgrade, which may fail.
CheckLimit(t) ==
    /\ t[1] = "ws"
    /\ \/ ConnCount(U(t)) < MaxConns /\ Goto(t, "limit", "connect")
       \/ Goto(t, "limit", "off")
    /\ UNCHANGED <<inRoom, inLobby, locals, lifecycle, active, closing, view, owed>>

\* ConnectRoom, then "go handleJoin" and readLoop.
Connect(t) ==
    /\ t[1] = "ws" /\ pc[t] = "connect"
    /\ Join(t[2], U(t), R(t))
    /\ pc' = [pc EXCEPT ![t] = "reading", ![<<"join", t[2]>>] = "joinCancel"]
    /\ NoBroadcast
    /\ UNCHANGED <<locals, lifecycle, active, closing>>

----------------------------------------------------------------------------
(* lifecycleState.                                                         *)

\* cancelPendingLeave: a timer still waiting ends; one that fired goes on.
Cancelled(keys, p) ==
    [t \in Thread |->
        IF /\ t[1] = "timer" /\ p[t] = "wait"
           /\ \E k \in keys : pendingLeaves[k] = t[2]
        THEN "off" ELSE p[t]]

ClearPending(keys) ==
    pendingLeaves' = [k \in Key |-> IF k \in keys THEN NoTimer ELSE pendingLeaves[k]]

CancelPending(t, from, to) ==
    /\ pc[t] = from
    /\ pc' = [Cancelled({KeyOf(t)}, pc) EXCEPT ![t] = to]
    /\ ClearPending({KeyOf(t)})
    /\ UNCHANGED <<inRoom, inLobby, locals, kickedUsers, leftUsers, active, closing, view, owed>>

\* GetUsernamesInRoom, before the admin and mute lists are fetched.
ReadUsers(t, from, to) ==
    /\ Goto(t, from, to)
    /\ list' = [list EXCEPT ![t] = UsersIn(R(t))]
    /\ UNCHANGED <<inRoom, inLobby, target, victim, kicked, todo, lifecycle, active, closing, view, owed>>

Broadcast(t, from, to) ==
    /\ Goto(t, from, to)
    /\ SendState(R(t), list[t])
    /\ list' = [list EXCEPT ![t] = {}]
    /\ UNCHANGED <<target, victim, kicked, todo, lifecycle, active, closing>>

\* handleJoin.
HandleJoin(t) ==
    /\ t[1] = "join"
    /\ \/ CancelPending(t, "joinCancel", "joinRead")
       \/ ReadUsers(t, "joinRead", "joinSend")
       \/ Broadcast(t, "joinSend", "off")

\* broadcastLeave, from handleDisconnect or a timer ("leave..."), and from
\* handleLeave ("exit..."), after which readLoop returns to handleDisconnect.
BroadcastLeave(t) ==
    /\ t[1] \in {"ws", "timer"}
    /\ \/ CancelPending(t, "leaveCancel", "leaveRead")
       \/ ReadUsers(t, "leaveRead", "leaveSend")
       \/ Broadcast(t, "leaveSend", "off")
       \/ CancelPending(t, "exitCancel", "exitRead")
       \/ ReadUsers(t, "exitRead", "exitSend")
       \/ Broadcast(t, "exitSend", "disconnect")

----------------------------------------------------------------------------
(* readLoop.                                                               *)

\* The client closes, the read deadline passes, or the server closed the socket.
ReadFails(t) ==
    /\ t[1] = "ws"
    /\ Goto(t, "reading", "disconnect")
    /\ UNCHANGED <<inRoom, inLobby, locals, lifecycle, active, closing, view, owed>>

\* "leave": markLeft.  A frame read before the socket was closed still counts.
LeaveCommand(t) ==
    /\ t[1] = "ws"
    /\ Goto(t, "reading", "exitDisconnect")
    /\ leftUsers' = leftUsers \cup {KeyOf(t)}
    /\ UNCHANGED <<inRoom, inLobby, locals, kickedUsers, pendingLeaves, active, closing, view, owed>>

\* DisconnectRoom and Close, in handleLeave and in handleDisconnect.
Disconnect(t, from, to) ==
    /\ Goto(t, from, to)
    /\ Drop(R(t), {e \in Members(R(t)) : e.conn = t[2]})
    /\ NoBroadcast
    /\ UNCHANGED <<locals, lifecycle, active, closing>>

HandleLeave(t) ==
    /\ t[1] = "ws"
    /\ \/ Disconnect(t, "exitDisconnect", "exitCheck")
       \/ /\ Goto(t, "exitCheck",
                  IF InRoom(R(t), U(t)) THEN "disconnect" ELSE "exitCancel")
          /\ UNCHANGED <<inRoom, inLobby, locals, lifecycle, active, closing, view, owed>>

\* Mutant: wasLeft tests the flag without deleting it.
TestFlagsKeepsLeft(t) ==
    /\ t[1] = "ws"
    /\ \/ /\ KeyOf(t) \in kickedUsers
          /\ Goto(t, "kickedCheck", "off")
          /\ kickedUsers' = kickedUsers \ {KeyOf(t)}
       \/ /\ KeyOf(t) \notin kickedUsers
          /\ Goto(t, "kickedCheck", "leftCheck")
          /\ UNCHANGED kickedUsers
       \/ /\ Goto(t, "leftCheck", IF KeyOf(t) \in leftUsers THEN "off" ELSE "roomCheck")
          /\ UNCHANGED kickedUsers
    /\ UNCHANGED <<inRoom, inLobby, locals, leftUsers, pendingLeaves, active,
                   closing, view, owed>>

\* handleDisconnect: wasKicked || wasLeft consumes the first flag it finds.
TestFlags(t) ==
    /\ t[1] = "ws"
    /\ \/ /\ KeyOf(t) \in kickedUsers
          /\ Goto(t, "kickedCheck", "off")
          /\ kickedUsers' = kickedUsers \ {KeyOf(t)}
          /\ UNCHANGED leftUsers
       \/ /\ KeyOf(t) \notin kickedUsers
          /\ Goto(t, "kickedCheck", "leftCheck")
          /\ UNCHANGED <<kickedUsers, leftUsers>>
       \/ /\ KeyOf(t) \in leftUsers
          /\ Goto(t, "leftCheck", "off")
          /\ leftUsers' = leftUsers \ {KeyOf(t)}
          /\ UNCHANGED kickedUsers
       \/ /\ KeyOf(t) \notin leftUsers
          /\ Goto(t, "leftCheck", "roomCheck")
          /\ UNCHANGED <<kickedUsers, leftUsers>>
    /\ UNCHANGED <<inRoom, inLobby, locals, pendingLeaves, active, closing, view, owed>>

\* Another connection of the user: nothing to do.  No lobby: leave at once.
DecideLeave(t) ==
    /\ t[1] = "ws"
    /\ \/ Goto(t, "roomCheck", IF InRoom(R(t), U(t)) THEN "off" ELSE "graceCheck")
       \/ Goto(t, "graceCheck", IF HasLobby(U(t)) THEN "schedule" ELSE "leaveCancel")
    /\ UNCHANGED <<inRoom, inLobby, locals, lifecycle, active, closing, view, owed>>

\* scheduleGracePeriodLeave: the cancel function of an earlier timer of the
\* same key is overwritten, not called.
ScheduleLeave(t) ==
    /\ t[1] = "ws" /\ pc[t] = "schedule"
    /\ pendingLeaves' = [pendingLeaves EXCEPT ![KeyOf(t)] = t[2]]
    /\ pc' = [pc EXCEPT ![t] = "off", ![<<"timer", t[2]>>] = "wait"]
    /\ UNCHANGED <<inRoom, inLobby, locals, kickedUsers, leftUsers, active, closing, view, owed>>

\* Mutant: the flags are tested before DisconnectRoom, which they then skip.
HandleDisconnectFlagsFirst(t) ==
    \/ /\ t[1] = "ws"
       /\ Goto(t, "disconnect", "kickedCheck")
       /\ UNCHANGED <<inRoom, inLobby, locals, lifecycle, active, closing, view, owed>>
    \/ TestFlags(t)
    \/ DecideLeave(t)
    \/ ScheduleLeave(t)

HandleDisconnect(t) ==
    \/ t[1] = "ws" /\ Disconnect(t, "disconnect", "kickedCheck")
    \/ TestFlags(t)
    \/ DecideLeave(t)
    \/ ScheduleLeave(t)

\* Mutant: clearPendingLeave is missing.
GraceTimerNoClear(t) ==
    /\ t[1] = "timer"
    /\ \/ Goto(t, "wait", "clear")
       \/ Goto(t, "clear", "timerCheck")
       \/ Goto(t, "timerCheck", IF InRoom(R(t), U(t)) THEN "off" ELSE "leaveCancel")
    /\ UNCHANGED <<inRoom, inLobby, locals, lifecycle, active, closing, view, owed>>

\* The grace period is over: clearPendingLeave deletes whatever the key holds.
GraceTimer(t) ==
    /\ t[1] = "timer"
    /\ \/ Goto(t, "wait", "clear") /\ UNCHANGED pendingLeaves
       \/ Goto(t, "clear", "timerCheck") /\ ClearPending({KeyOf(t)})
       \/ /\ Goto(t, "timerCheck",
                  IF InRoom(R(t), U(t)) THEN "off" ELSE "leaveCancel")
          /\ UNCHANGED pendingLeaves
    /\ UNCHANGED <<inRoom, inLobby, locals, kickedUsers, leftUsers, active, closing, view, owed>>

----------------------------------------------------------------------------
(* handleKick, in the readLoop of the admin who sent the command.          *)

\* The target is found in the room; the "kicked" message goes out.
KickCommand(t, v) ==
    /\ t[1] = "ws"
    /\ <<U(t), v>> \in CanKick /\ v # U(t) /\ InRoom(R(t), v)
    /\ Goto(t, "reading", "kickMark")
    /\ victim' = [victim EXCEPT ![t[2]] = v]
    /\ kicked' = kicked \cup {<<R(t), v>>}
    /\ UNCHANGED <<inRoom, inLobby, target, list, todo, lifecycle, active, closing, view, owed>>

\* Mutant: markKicked is given the admin instead of the target.
HandleKickMarksAdmin(t) ==
    /\ t[1] = "ws"
    /\ \/ /\ Goto(t, "kickMark", "kickClose")
          /\ kickedUsers' = kickedUsers \cup {KeyOf(t)}
          /\ UNCHANGED <<inRoom, inLobby, locals, leftUsers, pendingLeaves, active, closing, view, owed>>
       \/ /\ Goto(t, "kickClose", "kickRead")
          /\ Drop(R(t), {e \in Members(R(t)) : e.user = victim[t[2]]})
          /\ NoBroadcast
          /\ UNCHANGED <<locals, lifecycle, active, closing>>
       \/ ReadUsers(t, "kickRead", "kickSend")
       \/ Broadcast(t, "kickSend", "reading")

\* markKicked, a pause of 50 ms, CloseUserConnsInRoom, then the new user list.
HandleKick(t) ==
    /\ t[1] = "ws"
    /\ \/ /\ Goto(t, "kickMark", "kickClose")
          /\ kickedUsers' = kickedUsers \cup {<<R(t), victim[t[2]]>>}
          /\ UNCHANGED <<inRoom, inLobby, locals, leftUsers, pendingLeaves, active, closing, view, owed>>
       \/ /\ Goto(t, "kickClose", "kickRead")
          /\ Drop(R(t), {e \in Members(R(t)) : e.user = victim[t[2]]})
          /\ NoBroadcast
          /\ UNCHANGED <<locals, lifecycle, active, closing>>
       \/ ReadUsers(t, "kickRead", "kickSend")
       \/ Broadcast(t, "kickSend", "reading")

\* BroadcastRoom of any other message (chat, typing, system, chat_closed) drops
\* the connections that cannot be written to.
BroadcastMessage(r) ==
    /\ \E dead \in SUBSET Members(r) : dead # {} /\ Drop(r, dead)
    /\ NoBroadcast
    /\ UNCHANGED <<pc, locals, lifecycle, active, closing>>

----------------------------------------------------------------------------
(* LobbyHandler.                                                           *)

\* The limit check, the upgrade and ConnectLobby.
LobbyRequest(t) ==
    /\ t[1] = "lobby"
    /\ ConnCount(U(t)) < MaxConns
    /\ Goto(t, "off", "lobbyConnect")
    /\ UNCHANGED <<inRoom, inLobby, locals, lifecycle, active, closing, view, owed>>

LobbyConnect(t) ==
    /\ t[1] = "lobby"
    /\ Goto(t, "lobbyConnect", "open")
    /\ EnterLobby(t[2], U(t))
    /\ NoBroadcast
    /\ UNCHANGED <<locals, lifecycle, active, closing>>

\* A "logout" frame, or a lost socket and lobbyOfflineGrace: DisconnectLobby.
\* The callbacks run only when it was the user's last lobby connection.
LobbyClose(t) ==
    /\ t[1] = "lobby"
    /\ ExitLobby([conn |-> t[2], user |-> U(t)])
    /\ Goto(t, "open", IF \E e \in inLobby : e.user = U(t) /\ e.conn # t[2]
                       THEN "off" ELSE "flush")
    /\ NoBroadcast
    /\ UNCHANGED <<locals, lifecycle, active, closing>>

\* Mutant: the timers are cancelled but their rooms are not collected.
DrainPendingForgets(t) ==
    /\ t[1] = "lobby" /\ pc[t] = "flush"
    /\ LET keys == {k \in Key : k[2] = U(t) /\ pendingLeaves[k] # NoTimer}
       IN  /\ pc' = [Cancelled(keys, pc) EXCEPT ![t] = "flushNext"]
           /\ ClearPending(keys)
    /\ UNCHANGED <<inRoom, inLobby, locals, kickedUsers, leftUsers, active,
                   closing, view, owed>>

\* drainPendingLeaves under its mutex: cancel and collect the rooms.
DrainPending(t) ==
    /\ t[1] = "lobby" /\ pc[t] = "flush"
    /\ LET keys == {k \in Key : k[2] = U(t) /\ pendingLeaves[k] # NoTimer}
       IN  /\ pc' = [Cancelled(keys, pc) EXCEPT ![t] = "flushNext"]
           /\ ClearPending(keys)
           /\ todo' = [todo EXCEPT ![t[2]] = {k[1] : k \in keys}]
    /\ UNCHANGED <<inRoom, inLobby, target, victim, kicked, list, kickedUsers, leftUsers,
                   active, closing, view, owed>>

\* The loop of flushPendingLeaves over the drained rooms.
NextFlush(t) ==
    /\ t[1] = "lobby"
    /\ \/ \E r \in todo[t[2]] :
             /\ Goto(t, "flushNext", "flushCancel")
             /\ target' = [target EXCEPT ![t[2]] = r]
             /\ todo'   = [todo EXCEPT ![t[2]] = @ \ {r}]
       \/ /\ todo[t[2]] = {}
          /\ Goto(t, "flushNext", "off")
          /\ UNCHANGED <<target, todo>>
    /\ UNCHANGED <<inRoom, inLobby, victim, kicked, list, lifecycle, active, closing, view, owed>>

\* flushPendingLeaves, called by DisconnectLobby outside the manager's lock.
FlushPendingLeaves(t) ==
    \/ DrainPending(t)
    \/ NextFlush(t)
    \/ /\ t[1] = "lobby"
       /\ \/ CancelPending(t, "flushCancel", "flushRead")
          \/ ReadUsers(t, "flushRead", "flushSend")
          \/ Broadcast(t, "flushSend", "flushNext")

----------------------------------------------------------------------------
(* AdminHandler (admin.go): closing and opening a room.                    *)

\* SetActive(false) in the database, then CloseAllInRoom.
CloseRoom(r) ==
    /\ r \in Closable
    /\ \/ /\ active'  = active \ {r}
          /\ closing' = closing \cup {r}
          /\ UNCHANGED <<inRoom, inLobby, view, owed>>
       \/ /\ r \in closing
          /\ closing' = closing \ {r}
          /\ Drop(r, Members(r))
          /\ NoBroadcast
          /\ UNCHANGED active
    /\ UNCHANGED <<pc, locals, lifecycle>>

OpenRoom(r) ==
    /\ r \in Closable
    /\ active' = active \cup {r}
    /\ UNCHANGED <<inRoom, inLobby, pc, locals, lifecycle, closing, view, owed>>

----------------------------------------------------------------------------
\* Steps only a client or an administrator decides on.
ClientStep ==
    \/ \E t \in Thread, r \in Room : Request(t, r)
    \/ \E t \in Thread : LeaveCommand(t)
    \/ \E t \in Thread, v \in User : KickCommand(t, v)
    \/ \E t \in Thread : LobbyRequest(t)
    \/ \E t \in Thread : LobbyClose(t)
    \/ \E t \in Thread : ReadFails(t)
    \/ \E r \in Room : BroadcastMessage(r) \/ CloseRoom(r) \/ OpenRoom(r)

\* Steps a goroutine of the server takes by itself once it is started.
ServerStep(t) ==
    /\ pc[t] \notin {"off", "reading", "open"}
    /\ \/ CheckLobby(t)
       \/ EvictStale(t)
       \/ CheckLimit(t)
       \/ Connect(t)
       \/ HandleJoin(t)
       \/ BroadcastLeave(t)
       \/ HandleLeave(t)
       \/ HandleDisconnect(t)
       \/ GraceTimer(t)
       \/ HandleKick(t)
       \/ LobbyConnect(t)
       \/ FlushPendingLeaves(t)

Next == ClientStep \/ \E t \in Thread : ServerStep(t)

Spec == Init /\ [][Next]_vars

\* Goroutines are scheduled and timers expire; a connection the server dropped
\* has been closed, so its read fails.  No client is required to do anything.
Fairness ==
    /\ \A t \in Thread : WF_vars(ServerStep(t))
    /\ \A c \in RoomSlot : WF_vars(~Registered(c) /\ ReadFails(<<"ws", c>>))

FairSpec == Spec /\ Fairness

----------------------------------------------------------------------------
(* Properties.                                                             *)

\* Where a thread can stand.
Place == {"off", "open", "reading", "lobbyCheck", "evict", "limit", "connect",
          "joinCancel", "joinRead", "joinSend",
          "leaveCancel", "leaveRead", "leaveSend",
          "exitDisconnect", "exitCheck", "exitCancel", "exitRead", "exitSend",
          "disconnect", "kickedCheck", "leftCheck", "roomCheck", "graceCheck", "schedule",
          "wait", "clear", "timerCheck", "kickMark", "kickClose", "kickRead", "kickSend",
          "lobbyConnect", "flush", "flushNext", "flushCancel", "flushRead", "flushSend"}

\* Every variable has its type, no connection is registered twice, and nobody is
\* flagged as kicked from a room (lifecycle_state.go:29-34) whom no admin of it
\* ordered out: the flag would swallow his own departure.
TypeOK ==
    /\ RegistryTypeOK
    /\ pc            \in [Thread -> Place]
    /\ target        \in [Conn -> Room]
    /\ victim        \in [RoomSlot -> User]
    /\ list          \in [Thread -> SUBSET User]
    /\ todo          \in [LobbySlot -> SUBSET Room]
    /\ kickedUsers   \subseteq kicked
    /\ leftUsers     \subseteq Key
    /\ pendingLeaves \in [Key -> RoomSlot \cup {NoTimer}]
    /\ active        \subseteq Room
    /\ closing       \subseteq Room
    /\ view          \in [Room -> SUBSET User]
    /\ owed          \subseteq Key
    /\ kicked        \subseteq Key

\* No goroutine of user k[2], and no kick of that user from room k[1], is
\* still running.
Settled(k) ==
    /\ \A t \in Thread : U(t) = k[2] =>
          \/ pc[t] \in {"off", "open"}
          \/ pc[t] = "reading" /\ Registered(t[2])
    /\ \A c \in RoomSlot :
          pc[<<"ws", c>>] \in {"kickMark", "kickClose", "kickRead", "kickSend"}
             => <<target[c], victim[c]>> # k

\* A departure is never forgotten: as long as the room has not been shown a
\* list without the departed user, some goroutine of that user still has work
\* to do (handleDisconnect, handleLeave, the grace timer, handleJoin or the
\* logout flush), whatever order their checks and cancellations come in.  A
\* room that a kick of the user was ordered in is the exception: see
\* KickedDepartureHasOwner.
DepartureHasOwner == \A k \in owed : Settled(k) => k \in kicked

\* "Skip broadcasting if the user was kicked or intentionally left -- those
\* already broadcast their own leave messages" (ws_lifecycle.go:104-106): the
\* same of every user.
KickedDepartureHasOwner == \A k \in owed : ~Settled(k)

\* Every departure is shown to the room, or the user comes back
\* (ws_lifecycle.go:100-124), under fair scheduling of the server's goroutines.
DepartureShown == \A k \in Key : k \in owed ~> k \notin owed

\* A pending-leave entry belongs to a goroutine that has not run out: a
\* cancelled or finished timer never leaves an entry that would make a later
\* handleJoin take a first join for a reconnect (ws_lifecycle.go:23-24).
PendingHasTimer ==
    \A k \in Key : pendingLeaves[k] # NoTimer =>
        LET t == <<"timer", pendingLeaves[k]>>
        IN  KeyOf(t) = k /\ pc[t] \in {"wait", "clear"}

\* The kicked and left flags exist only to make the handleDisconnect of the
\* connection in question skip its announcement (ws_admin.go:55,
\* ws_lifecycle.go:69-70): once every goroutine is idle no flag is left over.
FlagsConsumed == \A k \in kickedUsers \cup leftUsers : Settled(k) => k \in kicked

\* The goroutines hand each other no stale note: what the next join or departure
\* of the user would read was written for it.
NothingLeftOver == PendingHasTimer /\ FlagsConsumed

\* Where the handler of a room connection still has DisconnectRoom to come.
Serving == {"reading", "exitDisconnect", "disconnect",
            "kickMark", "kickClose", "kickRead", "kickSend"}

\* No connection outlives its goroutine in the registry (a leak would use up the
\* user's connection limit and show a ghost): whoever is registered is served by
\* a handler that has its DisconnectRoom or DisconnectLobby still to come.
RegisteredIsServed ==
    /\ \A e \in inRoom : pc[<<"ws", e.conn>>] \in Serving
    /\ \A e \in inLobby : pc[<<"lobby", e.conn>>] = "open"
=============================================================================
