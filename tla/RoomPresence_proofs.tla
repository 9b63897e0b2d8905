------------------------- MODULE RoomPresence_proofs -------------------------
(***************************************************************************)
(* Proofs about module RoomPresence, for any users, rooms, connections and *)
(* permissions: its type invariant; that whoever is registered is served   *)
(* by a handler that still has to disconnect it; that a departure the room *)
(* was not shown is always some goroutine's to announce; and that no timer *)
(* entry or flag is left for a later connection to trip over.              *)
(***************************************************************************)
EXTENDS RoomPresence, TLAPS

----------------------------------------------------------------------------
(* Threads.                                                                *)

LEMMA ThreadParts ==
    \A t \in Thread :
        /\ t = <<t[1], t[2]>> /\ t[2] \in Conn
        /\ t[1] \in {"ws", "join", "timer", "lobby"}
        /\ t[1] = "lobby" => t[2] \in LobbySlot
        /\ t[1] # "lobby" => t[2] \in RoomSlot
BY SlotAssumption DEF Thread, RoomSlot

LEMMA ThreadOf ==
    /\ \A c \in RoomSlot : /\ <<"ws", c>> \in Thread /\ <<"join", c>> \in Thread
                           /\ <<"timer", c>> \in Thread /\ c \in Conn /\ c \notin LobbySlot
    /\ \A c \in LobbySlot : <<"lobby", c>> \in Thread /\ c \in Conn /\ c \notin RoomSlot
BY SlotAssumption DEF Thread, RoomSlot

----------------------------------------------------------------------------
(* The invariant.                                                          *)

\* An entry of the registry is the handler's own: its slot, its user, its room.
Belongs ==
    /\ \A e \in inRoom : /\ e.conn \in RoomSlot /\ e.user = Owner[e.conn]
                         /\ e.room = target[e.conn] /\ pc[<<"ws", e.conn>>] \in Serving
    /\ \A e \in inLobby : /\ e.conn \in LobbySlot /\ e.user = Owner[e.conn]
                          /\ pc[<<"lobby", e.conn>>] = "open"

\* The types of what is not the registry's.
OwnTypes ==
    /\ pc            \in [Thread -> Place]
    /\ target        \in [Conn -> Room]
    /\ victim        \in [RoomSlot -> User]
    /\ list          \in [Thread -> SUBSET User]
    /\ todo          \in [LobbySlot -> SUBSET Room]
    /\ kickedUsers   \subseteq Key
    /\ leftUsers     \subseteq Key
    /\ pendingLeaves \in [Key -> RoomSlot \cup {NoTimer}]
    /\ active        \subseteq Room
    /\ closing       \subseteq Room
    /\ view          \in [Room -> SUBSET User]
    /\ owed          \subseteq Key
    /\ kicked        \subseteq Key

IInv == RegistryTypeOK /\ OwnTypes /\ Belongs

LEMMA ThreadTyped ==
    ASSUME OwnTypes, NEW t \in Thread
    PROVE  U(t) \in User /\ R(t) \in Room /\ KeyOf(t) \in Key
BY ThreadParts, SlotAssumption DEF OwnTypes, U, R, KeyOf, Key

LEMMA ReadsTyped ==
    ASSUME RegistryTypeOK
    PROVE  /\ Present \subseteq Key
           /\ \A r \in Room : UsersIn(r) \subseteq User /\ Members(r) \subseteq inRoom
BY DEF RegistryTypeOK, RoomEntry, Present, Key, UsersIn, Members

----------------------------------------------------------------------------
(* What the steps do to the registry and to the history of departures.     *)

LEMMA DropKeeps ==
    ASSUME RegistryTypeOK, NEW r, NEW gone, Drop(r, gone)
    PROVE  RegistryTypeOK' /\ inRoom' \subseteq inRoom /\ UNCHANGED inLobby
BY DEF RegistryTypeOK, Drop

LEMMA OwedTyped ==
    ASSUME RegistryTypeOK, OwnTypes, NEW shown, Departures(shown)
    PROVE  owed' \subseteq Key
BY ReadsTyped DEF Departures, OwnTypes

LEMMA NoBroadcastTyped ==
    ASSUME RegistryTypeOK, OwnTypes, NoBroadcast
    PROVE  owed' \subseteq Key /\ view' \in [Room -> SUBSET User]
BY OwedTyped DEF NoBroadcast, OwnTypes

LEMMA SendStateKeeps ==
    ASSUME RegistryTypeOK, OwnTypes, NEW r \in Room, NEW users \in SUBSET User, SendState(r, users)
    PROVE  /\ RegistryTypeOK' /\ inRoom' \subseteq inRoom /\ UNCHANGED inLobby
           /\ owed' \subseteq Key /\ view' \in [Room -> SUBSET User]
<1>1. PICK dead \in SUBSET Members(r) : Drop(r, dead)
  BY DEF SendState
<1>2. owed' \subseteq Key
  BY OwedTyped DEF SendState
<1>3. view' \in [Room -> SUBSET User]
  BY DEF SendState, OwnTypes
<1> QED
  BY <1>1, <1>2, <1>3, DropKeeps

LEMMA GotoMoves ==
    ASSUME OwnTypes, NEW t \in Thread, NEW from, NEW to \in Place, Goto(t, from, to)
    PROVE  /\ pc' \in [Thread -> Place] /\ pc[t] = from
           /\ \A s \in Thread : pc'[s] = IF s = t THEN to ELSE pc[s]
BY DEF Goto, OwnTypes

\* A step after which every entry left is still served by its handler.
LEMMA BelongsFrame ==
    ASSUME Belongs, inRoom' \subseteq inRoom, inLobby' \subseteq inLobby,
           \A e \in inRoom' : /\ target'[e.conn] = target[e.conn]
                              /\ \/ pc'[<<"ws", e.conn>>] = pc[<<"ws", e.conn>>]
                                 \/ pc'[<<"ws", e.conn>>] \in Serving,
           \A e \in inLobby' : pc'[<<"lobby", e.conn>>] = pc[<<"lobby", e.conn>>]
    PROVE  Belongs'
BY DEF Belongs

\* A thread moves and entries may go: a handler that serves goes on serving.
LEMMA MoveKeeps ==
    ASSUME Belongs, OwnTypes, inRoom' \subseteq inRoom, UNCHANGED <<inLobby, target>>,
           NEW t \in Thread, NEW to,
           \A s \in Thread : s[1] # "timer" => pc'[s] = IF s = t THEN to ELSE pc[s],
           t[1] = "ws" => pc[t] \notin Serving \/ to \in Serving,
           t[1] = "lobby" => pc[t] # "open"
    PROVE  Belongs'
<1>1. ASSUME NEW e \in inRoom'
      PROVE  \/ pc'[<<"ws", e.conn>>] = pc[<<"ws", e.conn>>]
             \/ pc'[<<"ws", e.conn>>] \in Serving
  <2>1. e.conn \in RoomSlot /\ pc[<<"ws", e.conn>>] \in Serving
    BY <1>1 DEF Belongs
  <2>2. <<"ws", e.conn>> \in Thread /\ <<"ws", e.conn>>[1] = "ws"
    BY <2>1, ThreadOf
  <2>3. CASE <<"ws", e.conn>> = t
    BY <2>1, <2>2, <2>3
  <2>4. CASE <<"ws", e.conn>> # t
    BY <2>2, <2>4
  <2> QED
    BY <2>3, <2>4
<1>2. ASSUME NEW e \in inLobby
      PROVE  pc'[<<"lobby", e.conn>>] = pc[<<"lobby", e.conn>>]
  <2>1. e.conn \in LobbySlot /\ pc[<<"lobby", e.conn>>] = "open"
    BY <1>2 DEF Belongs
  <2>2. <<"lobby", e.conn>> \in Thread /\ <<"lobby", e.conn>>[1] = "lobby"
    BY <2>1, ThreadOf
  <2> QED
    BY <2>1, <2>2
<1> QED
  BY <1>1, <1>2, BelongsFrame

----------------------------------------------------------------------------
(* The steps that several handlers have.                                   *)

\* A move that a handler in charge of entries may make.
Allowed(t, from, to) ==
    /\ to \in Place
    /\ t[1] = "ws" => from \notin Serving \/ to \in Serving
    /\ t[1] = "lobby" => from # "open"

LEMMA GotoKeeps ==
    ASSUME IInv, NEW t \in Thread, NEW from, NEW to, Allowed(t, from, to), Goto(t, from, to),
           UNCHANGED <<registryVars, target>>
    PROVE  RegistryTypeOK' /\ Belongs' /\ pc' \in [Thread -> Place] /\ UNCHANGED target
<1>1. /\ pc' \in [Thread -> Place] /\ pc[t] = from
      /\ \A s \in Thread : pc'[s] = IF s = t THEN to ELSE pc[s]
  BY GotoMoves DEF Allowed, IInv
<1>2. RegistryTypeOK' /\ inRoom' = inRoom /\ inLobby' = inLobby
  BY DEF IInv, registryVars, RegistryTypeOK
<1>3. Belongs'
  BY <1>1, <1>2, MoveKeeps DEF Allowed, IInv
<1> QED
  BY <1>1, <1>2, <1>3

LEMMA ClearPendingTyped ==
    ASSUME OwnTypes, NEW keys, ClearPending(keys)
    PROVE  pendingLeaves' \in [Key -> RoomSlot \cup {NoTimer}]
BY DEF OwnTypes, ClearPending

\* Cancelling moves timers only.
LEMMA CancelledMoves ==
    ASSUME OwnTypes, NEW t \in Thread, NEW keys, NEW to \in Place,
           pc' = [Cancelled(keys, pc) EXCEPT ![t] = to]
    PROVE  /\ pc' \in [Thread -> Place]
           /\ \A s \in Thread : s[1] # "timer" => pc'[s] = IF s = t THEN to ELSE pc[s]
<1>1. Cancelled(keys, pc) \in [Thread -> Place]
  <2>1. \A s \in Thread : pc[s] \in Place /\ "off" \in Place
    BY DEF OwnTypes, Place
  <2> QED
    BY <2>1, Zenon DEF Cancelled
<1>2. \A s \in Thread : s[1] # "timer" => Cancelled(keys, pc)[s] = pc[s]
  BY DEF Cancelled
<1> QED
  BY <1>1, <1>2

LEMMA CancelPendingKeeps ==
    ASSUME IInv, NEW t \in Thread, NEW from, NEW to, Allowed(t, from, to),
           CancelPending(t, from, to)
    PROVE  IInv'
<1>1. /\ pc' \in [Thread -> Place] /\ pc[t] = from
      /\ \A s \in Thread : s[1] # "timer" => pc'[s] = IF s = t THEN to ELSE pc[s]
  BY CancelledMoves DEF CancelPending, Allowed, IInv
<1>2. /\ UNCHANGED <<inRoom, inLobby, locals, kickedUsers, leftUsers, active, closing, view, owed>>
      /\ pendingLeaves' \in [Key -> RoomSlot \cup {NoTimer}]
  BY ClearPendingTyped DEF CancelPending, IInv
<1>3. Belongs'
  BY <1>1, <1>2, MoveKeeps DEF Allowed, IInv, locals
<1>4. OwnTypes'
  BY <1>1, <1>2 DEF IInv, OwnTypes, locals
<1> QED
  BY <1>2, <1>3, <1>4 DEF IInv, RegistryTypeOK

LEMMA ReadUsersKeeps ==
    ASSUME IInv, NEW t \in Thread, NEW from, NEW to, Allowed(t, from, to), ReadUsers(t, from, to)
    PROVE  IInv'
<1>1. UNCHANGED <<inRoom, inLobby, target, victim, kicked, todo, lifecycle, active, closing, view, owed>>
      /\ Goto(t, from, to)
  BY DEF ReadUsers
<1>2. RegistryTypeOK' /\ Belongs' /\ pc' \in [Thread -> Place]
  BY <1>1, GotoKeeps DEF registryVars
<1>3. list' \in [Thread -> SUBSET User]
  BY ReadsTyped, ThreadTyped DEF ReadUsers, IInv, OwnTypes
<1> QED
  BY <1>1, <1>2, <1>3 DEF IInv, OwnTypes, lifecycle

LEMMA BroadcastKeeps ==
    ASSUME IInv, NEW t \in Thread, NEW from, NEW to, Allowed(t, from, to), Broadcast(t, from, to)
    PROVE  IInv'
<1>1. /\ pc' \in [Thread -> Place] /\ pc[t] = from
      /\ \A s \in Thread : pc'[s] = IF s = t THEN to ELSE pc[s]
      /\ UNCHANGED <<target, victim, kicked, todo, lifecycle, active, closing>>
  BY GotoMoves DEF Broadcast, Allowed, IInv
<1>2. R(t) \in Room /\ list[t] \in SUBSET User
  BY ThreadTyped DEF IInv, OwnTypes
<1>3. /\ RegistryTypeOK' /\ inRoom' \subseteq inRoom /\ UNCHANGED inLobby
      /\ owed' \subseteq Key /\ view' \in [Room -> SUBSET User]
  BY <1>2, SendStateKeeps DEF Broadcast, IInv
<1>4. list' \in [Thread -> SUBSET User]
  BY DEF Broadcast, IInv, OwnTypes
<1>5. Belongs'
  BY <1>1, <1>3, MoveKeeps DEF Allowed, IInv
<1> QED
  BY <1>1, <1>3, <1>4, <1>5 DEF IInv, OwnTypes, lifecycle

\* After DisconnectRoom the handler has no entry left.
LEMMA DisconnectKeeps ==
    ASSUME IInv, NEW t \in Thread, NEW from, NEW to \in Place, t[1] = "ws", Disconnect(t, from, to)
    PROVE  IInv'
<1>1. /\ pc' \in [Thread -> Place] /\ pc[t] = from
      /\ \A s \in Thread : pc'[s] = IF s = t THEN to ELSE pc[s]
      /\ UNCHANGED <<locals, lifecycle, active, closing>>
  BY GotoMoves DEF Disconnect, IInv
<1>2. /\ RegistryTypeOK' /\ inRoom' \subseteq inRoom /\ UNCHANGED inLobby
      /\ inRoom' = inRoom \ {e \in Members(R(t)) : e.conn = t[2]}
  BY DropKeeps DEF Disconnect, Drop, IInv
<1>3. owed' \subseteq Key /\ view' \in [Room -> SUBSET User]
  BY NoBroadcastTyped DEF Disconnect, IInv
<1>4. \A e \in inRoom' : e.conn \in RoomSlot /\ e.conn # t[2]
  BY <1>2 DEF IInv, Belongs, Members, R
<1>5. ASSUME NEW e \in inRoom' PROVE pc'[<<"ws", e.conn>>] = pc[<<"ws", e.conn>>]
  <2>1. <<"ws", e.conn>> \in Thread /\ <<"ws", e.conn>>[2] # t[2]
    BY <1>4, ThreadOf
  <2> QED
    BY <1>1, <2>1
<1>6. ASSUME NEW e \in inLobby PROVE pc'[<<"lobby", e.conn>>] = pc[<<"lobby", e.conn>>]
  <2>1. <<"lobby", e.conn>> \in Thread /\ <<"lobby", e.conn>> # t
    BY ThreadOf DEF IInv, Belongs
  <2> QED
    BY <1>1, <2>1
<1>7. Belongs'
  BY <1>1, <1>2, <1>5, <1>6, BelongsFrame DEF IInv, locals
<1> QED
  BY <1>1, <1>2, <1>3, <1>7 DEF IInv, OwnTypes, locals, lifecycle

----------------------------------------------------------------------------
(* The handshake.                                                          *)

LEMMA RequestKeeps ==
    ASSUME IInv, NEW t \in Thread, NEW r \in Room, Request(t, r)
    PROVE  IInv'
<1>1. /\ pc' \in [Thread -> Place] /\ pc[t] = "off"
      /\ \A s \in Thread : pc'[s] = IF s = t THEN "lobbyCheck" ELSE pc[s]
  BY GotoMoves DEF Request, IInv, Place
<1>2. /\ t[1] = "ws" /\ t[2] \in Conn
      /\ UNCHANGED <<inRoom, inLobby, victim, kicked, list, todo, lifecycle, active, closing, view, owed>>
      /\ target' = [target EXCEPT ![t[2]] = r]
  BY ThreadParts DEF Request
<1>3. target' \in [Conn -> Room] /\ \A c \in Conn : c # t[2] => target'[c] = target[c]
  BY <1>2 DEF IInv, OwnTypes
<1>4. ASSUME NEW e \in inRoom
      PROVE  pc'[<<"ws", e.conn>>] = pc[<<"ws", e.conn>>] /\ target'[e.conn] = target[e.conn]
  <2>1. e.conn \in RoomSlot /\ pc[<<"ws", e.conn>>] \in Serving
    BY DEF IInv, Belongs
  <2>2. <<"ws", e.conn>> \in Thread /\ e.conn \in Conn /\ <<"ws", e.conn>> # t
    BY <1>1, <2>1, ThreadOf DEF Serving
  <2>3. e.conn # t[2]
    BY <1>2, <2>2, ThreadParts
  <2> QED
    BY <1>1, <1>3, <2>2, <2>3
<1>5. ASSUME NEW e \in inLobby PROVE pc'[<<"lobby", e.conn>>] = pc[<<"lobby", e.conn>>]
  <2>1. <<"lobby", e.conn>> \in Thread /\ <<"lobby", e.conn>>[1] # t[1]
    BY <1>2, ThreadOf DEF IInv, Belongs
  <2> QED
    BY <1>1, <2>1
<1>6. Belongs'
  BY <1>2, <1>4, <1>5, BelongsFrame DEF IInv
<1> QED
  BY <1>1, <1>2, <1>3, <1>6 DEF IInv, OwnTypes, RegistryTypeOK, lifecycle

\* A step that only moves a thread.
LEMMA OnlyGotoKeeps ==
    ASSUME IInv, NEW t \in Thread, NEW from, NEW to, Allowed(t, from, to), Goto(t, from, to),
           UNCHANGED <<inRoom, inLobby, locals, active, closing, view, owed>>,
           kickedUsers' \subseteq Key, leftUsers' \subseteq Key,
           pendingLeaves' \in [Key -> RoomSlot \cup {NoTimer}]
    PROVE  IInv'
<1>1. RegistryTypeOK' /\ Belongs' /\ pc' \in [Thread -> Place]
  BY GotoKeeps DEF registryVars, locals
<1> QED
  BY <1>1 DEF IInv, OwnTypes, locals

LEMMA LifecycleTyped ==
    ASSUME IInv, UNCHANGED lifecycle
    PROVE  /\ kickedUsers' \subseteq Key /\ leftUsers' \subseteq Key
           /\ pendingLeaves' \in [Key -> RoomSlot \cup {NoTimer}]
BY DEF IInv, OwnTypes, lifecycle

LEMMA HandshakeKeeps ==
    ASSUME IInv, NEW t \in Thread, CheckLobby(t) \/ CheckLimit(t)
    PROVE  IInv'
<1>1. PICK from, to : /\ Goto(t, from, to) /\ from \in {"lobbyCheck", "limit"}
                      /\ to \in {"evict", "off", "connect"}
  BY DEF CheckLobby, CheckLimit
<1>2. Allowed(t, from, to)
  BY <1>1 DEF CheckLobby, CheckLimit, Allowed, Place, Serving
<1>3. UNCHANGED <<inRoom, inLobby, locals, lifecycle, active, closing, view, owed>>
  BY DEF CheckLobby, CheckLimit
<1> QED
  BY <1>1, <1>2, <1>3, LifecycleTyped, OnlyGotoKeeps

LEMMA EvictKeeps ==
    ASSUME IInv, NEW t \in Thread, EvictStale(t)
    PROVE  IInv'
<1>1. /\ pc' \in [Thread -> Place] /\ pc[t] = "evict"
      /\ \A s \in Thread : pc'[s] = IF s = t THEN "limit" ELSE pc[s]
      /\ UNCHANGED <<locals, lifecycle, active, closing>> /\ t[1] = "ws"
  BY GotoMoves DEF EvictStale, IInv, Place
<1>2. RegistryTypeOK' /\ inRoom' \subseteq inRoom /\ UNCHANGED inLobby
  BY DropKeeps DEF EvictStale, IInv
<1>3. owed' \subseteq Key /\ view' \in [Room -> SUBSET User]
  BY NoBroadcastTyped DEF EvictStale, IInv
<1>4. Belongs'
  BY <1>1, <1>2, MoveKeeps DEF IInv, locals, Serving
<1> QED
  BY <1>1, <1>2, <1>3, <1>4 DEF IInv, OwnTypes, locals, lifecycle

LEMMA ConnectKeeps ==
    ASSUME IInv, NEW t \in Thread, Connect(t)
    PROVE  IInv'
<1>1. /\ t[1] = "ws" /\ pc[t] = "connect" /\ t[2] \in RoomSlot /\ t[2] \in Conn
      /\ U(t) \in User /\ R(t) \in Room /\ t = <<"ws", t[2]>>
  BY ThreadParts, ThreadTyped DEF Connect, IInv, RoomSlot
<1>2. /\ ~Registered(t[2]) /\ UNCHANGED inLobby
      /\ inRoom' = inRoom \cup {[conn |-> t[2], user |-> U(t), room |-> R(t)]}
  BY DEF Connect, Join
<1>3. RegistryTypeOK'
  BY <1>1, <1>2 DEF IInv, RegistryTypeOK, Registered, RoomEntry
<1>4. /\ pc' \in [Thread -> Place]
      /\ \A s \in Thread : pc'[s] = IF s = t THEN "reading"
                                   ELSE IF s = <<"join", t[2]>> THEN "joinCancel" ELSE pc[s]
  <2>1. <<"join", t[2]>> \in Thread /\ <<"join", t[2]>>[1] # t[1]
    BY <1>1, ThreadOf
  <2> QED
    BY <2>1 DEF Connect, IInv, OwnTypes, Place
<1>5. /\ UNCHANGED <<locals, lifecycle, active, closing>>
      /\ owed' \subseteq Key /\ view' \in [Room -> SUBSET User]
  BY NoBroadcastTyped DEF Connect, IInv
<1>6. ASSUME NEW e \in inRoom'
      PROVE  /\ e.conn \in RoomSlot /\ e.user = Owner[e.conn]
             /\ e.room = target[e.conn] /\ pc'[<<"ws", e.conn>>] \in Serving
  <2>1. CASE e = [conn |-> t[2], user |-> U(t), room |-> R(t)]
    <3>1. <<"ws", e.conn>> = t
      BY <1>1, <2>1
    <3> QED
      BY <1>1, <1>4, <2>1, <3>1 DEF U, R, Serving
  <2>2. CASE e \in inRoom
    <3>1. <<"ws", e.conn>> \in Thread /\ <<"ws", e.conn>> # <<"join", t[2]>>
      BY <2>2, ThreadOf DEF IInv, Belongs
    <3>2. pc'[<<"ws", e.conn>>] \in {pc[<<"ws", e.conn>>], "reading"}
      BY <1>4, <3>1
    <3> QED
      BY <2>2, <3>2 DEF IInv, Belongs, Serving
  <2> QED
    BY <1>2, <2>1, <2>2
<1>7. ASSUME NEW e \in inLobby PROVE pc'[<<"lobby", e.conn>>] = pc[<<"lobby", e.conn>>]
  <2>1. /\ <<"lobby", e.conn>> \in Thread /\ <<"lobby", e.conn>> # t
        /\ <<"lobby", e.conn>> # <<"join", t[2]>>
    BY <1>1, ThreadOf DEF IInv, Belongs
  <2> QED
    BY <1>4, <2>1
<1>8. Belongs'
  BY <1>2, <1>5, <1>6, <1>7 DEF IInv, Belongs, locals
<1> QED
  BY <1>3, <1>4, <1>5, <1>8 DEF IInv, OwnTypes, locals, lifecycle

----------------------------------------------------------------------------
(* Joining, leaving and the end of the connection.                         *)

LEMMA HandleJoinKeeps ==
    ASSUME IInv, NEW t \in Thread, HandleJoin(t)
    PROVE  IInv'
<1>1. \A from, to : to \in {"joinRead", "joinSend", "off"} => Allowed(t, from, to)
  BY DEF HandleJoin, Allowed, Place
<1> QED
  BY <1>1, CancelPendingKeeps, ReadUsersKeeps, BroadcastKeeps DEF HandleJoin

LEMMA BroadcastLeaveKeeps ==
    ASSUME IInv, NEW t \in Thread, BroadcastLeave(t)
    PROVE  IInv'
<1>1. \A from, to :
         /\ from \in {"leaveCancel", "leaveRead", "leaveSend", "exitCancel", "exitRead", "exitSend"}
         /\ to \in {"leaveRead", "leaveSend", "off", "exitRead", "exitSend", "disconnect"}
         => Allowed(t, from, to)
  BY DEF BroadcastLeave, Allowed, Place, Serving
<1> QED
  BY <1>1, CancelPendingKeeps, ReadUsersKeeps, BroadcastKeeps DEF BroadcastLeave

LEMMA ReadLoopKeeps ==
    ASSUME IInv, NEW t \in Thread, ReadFails(t) \/ LeaveCommand(t)
    PROVE  IInv'
<1>1. PICK to \in {"disconnect", "exitDisconnect"} : Goto(t, "reading", to)
  BY DEF ReadFails, LeaveCommand
<1>2. Allowed(t, "reading", to)
  BY <1>1 DEF ReadFails, LeaveCommand, Allowed, Place, Serving
<1>3. UNCHANGED <<inRoom, inLobby, locals, pendingLeaves, active, closing, view, owed>>
      /\ kickedUsers' = kickedUsers /\ leftUsers' \in {leftUsers, leftUsers \cup {KeyOf(t)}}
  BY DEF ReadFails, LeaveCommand, lifecycle
<1>4. leftUsers' \subseteq Key
  BY <1>3, ThreadTyped DEF IInv, OwnTypes
<1>5. kickedUsers' \subseteq Key /\ pendingLeaves' \in [Key -> RoomSlot \cup {NoTimer}]
  BY <1>3 DEF IInv, OwnTypes
<1> QED
  BY <1>1, <1>2, <1>3, <1>4, <1>5, OnlyGotoKeeps

LEMMA HandleLeaveKeeps ==
    ASSUME IInv, NEW t \in Thread, HandleLeave(t)
    PROVE  IInv'
<1>1. CASE Disconnect(t, "exitDisconnect", "exitCheck")
  BY <1>1, DisconnectKeeps DEF HandleLeave, Place
<1>2. ASSUME NEW to \in {"disconnect", "exitCancel"}, Goto(t, "exitCheck", to),
             UNCHANGED <<inRoom, inLobby, locals, lifecycle, active, closing, view, owed>>
      PROVE  IInv'
  <2>1. Allowed(t, "exitCheck", to)
    BY DEF HandleLeave, Allowed, Place, Serving
  <2> QED
    BY <1>2, <2>1, LifecycleTyped, OnlyGotoKeeps
<1> QED
  BY <1>1, <1>2 DEF HandleLeave

LEMMA HandleDisconnectKeeps ==
    ASSUME IInv, NEW t \in Thread, HandleDisconnect(t)
    PROVE  IInv'
<1>1. CASE t[1] = "ws" /\ Disconnect(t, "disconnect", "kickedCheck")
  BY <1>1, DisconnectKeeps DEF Place
<1>2. CASE TestFlags(t) \/ DecideLeave(t)
  <2>1. PICK from, to : /\ Goto(t, from, to)
                        /\ from \in {"kickedCheck", "leftCheck", "roomCheck", "graceCheck"}
                        /\ to \in {"off", "leftCheck", "roomCheck", "graceCheck", "schedule",
                                   "leaveCancel"}
    BY <1>2 DEF TestFlags, DecideLeave
  <2>2. Allowed(t, from, to)
    BY <1>2, <2>1 DEF TestFlags, DecideLeave, Allowed, Place, Serving
  <2>3. /\ UNCHANGED <<inRoom, inLobby, locals, pendingLeaves, active, closing, view, owed>>
        /\ kickedUsers' \subseteq kickedUsers /\ leftUsers' \subseteq leftUsers
    BY <1>2 DEF TestFlags, DecideLeave, lifecycle
  <2>4. /\ kickedUsers' \subseteq Key /\ leftUsers' \subseteq Key
        /\ pendingLeaves' \in [Key -> RoomSlot \cup {NoTimer}]
    BY <2>3 DEF IInv, OwnTypes
  <2> QED
    BY <2>1, <2>2, <2>3, <2>4, OnlyGotoKeeps
<1>3. CASE ScheduleLeave(t)
  <2>1. /\ t[1] = "ws" /\ t[2] \in RoomSlot /\ pc[t] = "schedule" /\ KeyOf(t) \in Key
        /\ pendingLeaves' = [pendingLeaves EXCEPT ![KeyOf(t)] = t[2]]
        /\ UNCHANGED <<inRoom, inLobby, locals, kickedUsers, leftUsers, active, closing, view, owed>>
    BY <1>3, ThreadParts, ThreadTyped DEF ScheduleLeave, IInv
  <2>2. /\ pc' \in [Thread -> Place]
        /\ \A s \in Thread : s[1] # "timer" => pc'[s] = IF s = t THEN "off" ELSE pc[s]
    <3>1. <<"timer", t[2]>> \in Thread
      BY <2>1, ThreadOf
    <3> QED
      BY <1>3, <3>1 DEF ScheduleLeave, IInv, OwnTypes, Place
  <2>3. pendingLeaves' \in [Key -> RoomSlot \cup {NoTimer}]
    BY <2>1 DEF IInv, OwnTypes
  <2>4. Belongs'
    BY <2>1, <2>2, MoveKeeps DEF IInv, locals, Serving
  <2> QED
    BY <2>1, <2>2, <2>3, <2>4 DEF IInv, OwnTypes, RegistryTypeOK, locals
<1> QED
  BY <1>1, <1>2, <1>3 DEF HandleDisconnect

LEMMA GraceTimerKeeps ==
    ASSUME IInv, NEW t \in Thread, GraceTimer(t)
    PROVE  IInv'
<1>1. PICK from, to : Goto(t, from, to) /\ to \in {"clear", "timerCheck", "off", "leaveCancel"}
  BY DEF GraceTimer
<1>2. Allowed(t, from, to)
  BY <1>1 DEF GraceTimer, Allowed, Place
<1>3. UNCHANGED <<inRoom, inLobby, locals, kickedUsers, leftUsers, active, closing, view, owed>>
  BY DEF GraceTimer
<1>4. pendingLeaves' \in [Key -> RoomSlot \cup {NoTimer}]
  BY ClearPendingTyped DEF GraceTimer, IInv, OwnTypes
<1>5. kickedUsers' \subseteq Key /\ leftUsers' \subseteq Key
  BY <1>3 DEF IInv, OwnTypes
<1> QED
  BY <1>1, <1>2, <1>3, <1>4, <1>5, OnlyGotoKeeps

----------------------------------------------------------------------------
(* Kicks, broadcasts, the lobby and the administrator.                     *)

LEMMA HandleKickKeeps ==
    ASSUME IInv, NEW t \in Thread, NEW v \in User, KickCommand(t, v) \/ HandleKick(t)
    PROVE  IInv'
<1>1. CASE KickCommand(t, v)
  <2>1. /\ Goto(t, "reading", "kickMark") /\ t[2] \in RoomSlot
        /\ UNCHANGED <<inRoom, inLobby, target, list, todo, lifecycle, active, closing, view, owed>>
    BY <1>1, ThreadParts DEF KickCommand
  <2>2. Allowed(t, "reading", "kickMark")
    BY <1>1 DEF KickCommand, Allowed, Place, Serving
  <2>3. RegistryTypeOK' /\ Belongs' /\ pc' \in [Thread -> Place]
    BY <2>1, <2>2, GotoKeeps DEF registryVars
  <2>4. victim' \in [RoomSlot -> User] /\ kicked' \subseteq Key
    <3>1. <<R(t), v>> \in Key
      BY ThreadTyped DEF IInv, Key
    <3> QED
      BY <1>1, <2>1, <3>1 DEF KickCommand, IInv, OwnTypes
  <2> QED
    BY <2>1, <2>3, <2>4 DEF IInv, OwnTypes, lifecycle
<1>2. CASE HandleKick(t)
  <2>1. t[1] = "ws" /\ t[2] \in RoomSlot /\ R(t) \in Room /\ victim[t[2]] \in User
    BY <1>2, ThreadParts, ThreadTyped DEF HandleKick, IInv, OwnTypes
  <2>2. \A from, to : to \in {"kickClose", "kickRead", "kickSend", "reading"} => Allowed(t, from, to)
    BY <2>1 DEF Allowed, Place, Serving
  <2>3. CASE /\ Goto(t, "kickMark", "kickClose")
             /\ kickedUsers' = kickedUsers \cup {<<R(t), victim[t[2]]>>}
             /\ UNCHANGED <<inRoom, inLobby, locals, leftUsers, pendingLeaves, active, closing,
                           view, owed>>
    <3>1. /\ kickedUsers' \subseteq Key /\ leftUsers' \subseteq Key
          /\ pendingLeaves' \in [Key -> RoomSlot \cup {NoTimer}]
      BY <2>1, <2>3 DEF IInv, OwnTypes, Key
    <3> QED
      BY <2>2, <2>3, <3>1, OnlyGotoKeeps
  <2>4. CASE /\ Goto(t, "kickClose", "kickRead")
             /\ Drop(R(t), {e \in Members(R(t)) : e.user = victim[t[2]]})
             /\ NoBroadcast
             /\ UNCHANGED <<locals, lifecycle, active, closing>>
    <3>1. /\ pc' \in [Thread -> Place]
          /\ \A s \in Thread : pc'[s] = IF s = t THEN "kickRead" ELSE pc[s]
      BY <2>4, GotoMoves DEF IInv, Place
    <3>2. RegistryTypeOK' /\ inRoom' \subseteq inRoom /\ UNCHANGED inLobby
      BY <2>4, DropKeeps DEF IInv
    <3>3. owed' \subseteq Key /\ view' \in [Room -> SUBSET User]
      BY <2>4, NoBroadcastTyped DEF IInv
    <3>4. Belongs'
      BY <2>1, <2>4, <3>1, <3>2, MoveKeeps DEF IInv, locals, Serving
    <3> QED
      BY <2>4, <3>1, <3>2, <3>3, <3>4 DEF IInv, OwnTypes, locals, lifecycle
  <2> QED
    BY <1>2, <2>2, <2>3, <2>4, ReadUsersKeeps, BroadcastKeeps DEF HandleKick
<1> QED
  BY <1>1, <1>2

\* Entries go and no thread moves.
LEMMA DropOnlyKeeps ==
    ASSUME IInv, RegistryTypeOK', inRoom' \subseteq inRoom, NoBroadcast,
           UNCHANGED <<inLobby, pc, locals, lifecycle>>,
           active' \subseteq Room, closing' \subseteq Room
    PROVE  IInv'
<1>1. owed' \subseteq Key /\ view' \in [Room -> SUBSET User]
  BY NoBroadcastTyped DEF IInv
<1>2. Belongs'
  BY BelongsFrame DEF IInv, locals
<1> QED
  BY <1>1, <1>2 DEF IInv, OwnTypes, locals, lifecycle

LEMMA RoomsKeep ==
    ASSUME IInv, NEW r \in Room, BroadcastMessage(r) \/ CloseRoom(r) \/ OpenRoom(r)
    PROVE  IInv'
<1>1. CASE BroadcastMessage(r)
  <2>1. PICK dead \in SUBSET Members(r) : Drop(r, dead)
    BY <1>1 DEF BroadcastMessage
  <2> QED
    BY <1>1, <2>1, DropKeeps, DropOnlyKeeps DEF BroadcastMessage, IInv, OwnTypes
<1>2. ASSUME UNCHANGED <<inRoom, inLobby, view, owed, pc, locals, lifecycle>>,
             active' \subseteq Room, closing' \subseteq Room
      PROVE  IInv'
  BY <1>2 DEF IInv, OwnTypes, RegistryTypeOK, Belongs, locals, lifecycle
<1>3. CASE CloseRoom(r)
  <2>1. active' \subseteq Room /\ closing' \subseteq Room
    BY <1>3 DEF CloseRoom, IInv, OwnTypes
  <2>2. CASE Drop(r, Members(r)) /\ NoBroadcast
    BY <1>3, <2>1, <2>2, DropKeeps, DropOnlyKeeps DEF CloseRoom, IInv, Drop
  <2> QED
    BY <1>2, <1>3, <2>1, <2>2 DEF CloseRoom
<1>4. CASE OpenRoom(r)
  BY <1>2, <1>4 DEF OpenRoom, IInv, OwnTypes
<1> QED
  BY <1>1, <1>3, <1>4

LEMMA LobbyOpensKeeps ==
    ASSUME IInv, NEW t \in Thread, LobbyRequest(t) \/ LobbyConnect(t)
    PROVE  IInv'
<1>1. CASE LobbyRequest(t)
  <2>1. Allowed(t, "off", "lobbyConnect")
    BY <1>1 DEF LobbyRequest, Allowed, Place
  <2> QED
    BY <1>1, <2>1, LifecycleTyped, OnlyGotoKeeps DEF LobbyRequest
<1>2. CASE LobbyConnect(t)
  <2>1. /\ t[1] = "lobby" /\ t[2] \in LobbySlot /\ t[2] \in Conn /\ U(t) \in User
        /\ t = <<"lobby", t[2]>>
    BY <1>2, ThreadParts, ThreadTyped DEF LobbyConnect, IInv
  <2>2. /\ ~Registered(t[2]) /\ UNCHANGED inRoom
        /\ inLobby' = inLobby \cup {[conn |-> t[2], user |-> U(t)]}
    BY <1>2 DEF LobbyConnect, EnterLobby
  <2>3. RegistryTypeOK'
    BY <2>1, <2>2 DEF IInv, RegistryTypeOK, Registered, LobbyEntry
  <2>4. /\ pc' \in [Thread -> Place]
        /\ \A s \in Thread : pc'[s] = IF s = t THEN "open" ELSE pc[s]
    BY <1>2, GotoMoves DEF LobbyConnect, IInv, Place
  <2>5. /\ UNCHANGED <<locals, lifecycle, active, closing>>
        /\ owed' \subseteq Key /\ view' \in [Room -> SUBSET User]
    BY <1>2, NoBroadcastTyped DEF LobbyConnect, IInv
  <2>6. ASSUME NEW e \in inLobby'
        PROVE  /\ e.conn \in LobbySlot /\ e.user = Owner[e.conn]
               /\ pc'[<<"lobby", e.conn>>] = "open"
    <3>1. CASE e = [conn |-> t[2], user |-> U(t)]
      <4>1. <<"lobby", e.conn>> = t
        BY <2>1, <3>1
      <4> QED
        BY <2>1, <2>4, <3>1, <4>1 DEF U
    <3>2. CASE e \in inLobby
      <4>1. <<"lobby", e.conn>> \in Thread /\ pc[<<"lobby", e.conn>>] = "open"
        BY <3>2, ThreadOf DEF IInv, Belongs
      <4> QED
        BY <2>4, <3>2, <4>1 DEF IInv, Belongs
    <3> QED
      BY <2>2, <3>1, <3>2
  <2>7. ASSUME NEW e \in inRoom PROVE pc'[<<"ws", e.conn>>] = pc[<<"ws", e.conn>>]
    <3>1. <<"ws", e.conn>> \in Thread /\ <<"ws", e.conn>>[1] # t[1]
      BY <2>1, ThreadOf DEF IInv, Belongs
    <3> QED
      BY <2>4, <3>1
  <2>8. Belongs'
    BY <2>2, <2>5, <2>6, <2>7 DEF IInv, Belongs, locals
  <2> QED
    BY <2>3, <2>4, <2>5, <2>8 DEF IInv, OwnTypes, locals, lifecycle
<1> QED
  BY <1>1, <1>2

\* DisconnectLobby takes the entry of the thread, so the thread may move on.
LEMMA LobbyCloseKeeps ==
    ASSUME IInv, NEW t \in Thread, LobbyClose(t)
    PROVE  IInv'
<1>1. PICK to \in {"off", "flush"} : Goto(t, "open", to)
  BY DEF LobbyClose
<1>2. t[1] = "lobby" /\ t[2] \in LobbySlot /\ t = <<"lobby", t[2]>>
  BY ThreadParts DEF LobbyClose
<1>3. /\ pc' \in [Thread -> Place] /\ pc[t] = "open"
      /\ \A s \in Thread : pc'[s] = IF s = t THEN to ELSE pc[s]
  BY <1>1, GotoMoves DEF IInv, Place
<1>4. /\ inLobby' = inLobby \ {[conn |-> t[2], user |-> U(t)]} /\ inRoom' \subseteq inRoom
      /\ [conn |-> t[2], user |-> U(t)] \in inLobby
  BY DEF LobbyClose, ExitLobby
<1>5. RegistryTypeOK'
  BY <1>4 DEF IInv, RegistryTypeOK
<1>6. /\ UNCHANGED <<locals, lifecycle, active, closing>>
      /\ owed' \subseteq Key /\ view' \in [Room -> SUBSET User]
  BY NoBroadcastTyped DEF LobbyClose, IInv
<1>7. ASSUME NEW e \in inRoom' PROVE pc'[<<"ws", e.conn>>] = pc[<<"ws", e.conn>>]
  <2>1. <<"ws", e.conn>> \in Thread /\ <<"ws", e.conn>>[1] # t[1]
    BY <1>2, <1>4, ThreadOf DEF IInv, Belongs
  <2> QED
    BY <1>3, <2>1
<1>8. ASSUME NEW e \in inLobby' PROVE pc'[<<"lobby", e.conn>>] = pc[<<"lobby", e.conn>>]
  <2>1. e \in inLobby /\ e.conn # t[2]
    BY <1>4 DEF IInv, RegistryTypeOK
  <2>2. <<"lobby", e.conn>> \in Thread /\ <<"lobby", e.conn>>[2] # t[2]
    BY <2>1, ThreadOf DEF IInv, Belongs
  <2> QED
    BY <1>3, <2>2
<1>9. Belongs'
  BY <1>4, <1>6, <1>7, <1>8, BelongsFrame DEF IInv, locals
<1> QED
  BY <1>3, <1>5, <1>6, <1>9 DEF IInv, OwnTypes, locals, lifecycle

LEMMA FlushKeeps ==
    ASSUME IInv, NEW t \in Thread, FlushPendingLeaves(t)
    PROVE  IInv'
<1>1. t[1] = "lobby" /\ t[2] \in LobbySlot /\ t[2] \in Conn
  BY ThreadParts, ThreadOf DEF FlushPendingLeaves, DrainPending, NextFlush
<1>2. \A from, to :
         /\ from # "open" /\ to \in {"flushNext", "flushCancel", "flushRead", "flushSend", "off"}
         => Allowed(t, from, to)
  BY <1>1 DEF Allowed, Place
<1>3. CASE DrainPending(t)
  <2>1. PICK keys \in SUBSET Key :
           /\ pc[t] = "flush" /\ pc' = [Cancelled(keys, pc) EXCEPT ![t] = "flushNext"]
           /\ ClearPending(keys)
           /\ todo' = [todo EXCEPT ![t[2]] = {k[1] : k \in keys}]
           /\ UNCHANGED <<inRoom, inLobby, target, victim, kicked, list, kickedUsers, leftUsers,
                         active, closing, view, owed>>
    BY <1>3 DEF DrainPending
  <2>2. /\ pc' \in [Thread -> Place]
        /\ \A s \in Thread : s[1] # "timer" => pc'[s] = IF s = t THEN "flushNext" ELSE pc[s]
    <3>1. PICK to : to = "flushNext"
      OBVIOUS
    <3>2. to \in Place
      BY <3>1 DEF Place
    <3>3. OwnTypes /\ pc' = [Cancelled(keys, pc) EXCEPT ![t] = to]
      BY <2>1, <3>1 DEF IInv
    <3> QED
      BY <3>1, <3>2, <3>3, CancelledMoves
  <2>3. pendingLeaves' \in [Key -> RoomSlot \cup {NoTimer}]
    BY <2>1, ClearPendingTyped DEF IInv
  <2>4. {k[1] : k \in keys} \in SUBSET Room
    BY DEF Key
  <2>5. todo' \in [LobbySlot -> SUBSET Room]
    BY <2>1, <2>4 DEF IInv, OwnTypes
  <2>6. Belongs'
    BY <1>1, <2>1, <2>2, MoveKeeps DEF IInv
  <2> QED
    BY <2>1, <2>2, <2>3, <2>5, <2>6 DEF IInv, OwnTypes, RegistryTypeOK
<1>4. CASE NextFlush(t)
  <2>1. PICK to \in {"flushCancel", "off"} : Goto(t, "flushNext", to)
    BY <1>4 DEF NextFlush
  <2>2. /\ pc' \in [Thread -> Place] /\ pc[t] = "flushNext"
        /\ \A s \in Thread : pc'[s] = IF s = t THEN to ELSE pc[s]
    BY <2>1, GotoMoves DEF IInv, Place
  <2>3. /\ target' \in [Conn -> Room] /\ todo' \in [LobbySlot -> SUBSET Room]
        /\ \A c \in Conn : c # t[2] => target'[c] = target[c]
    BY <1>1, <1>4 DEF NextFlush, IInv, OwnTypes
  <2>4. UNCHANGED <<inRoom, inLobby, victim, kicked, list, lifecycle, active, closing, view, owed>>
    BY <1>4 DEF NextFlush
  <2>5. ASSUME NEW e \in inRoom
        PROVE  target'[e.conn] = target[e.conn] /\ pc'[<<"ws", e.conn>>] = pc[<<"ws", e.conn>>]
    <3>1. /\ <<"ws", e.conn>> \in Thread /\ <<"ws", e.conn>>[1] # t[1]
          /\ e.conn \in Conn /\ e.conn # t[2]
      BY <1>1, ThreadOf DEF IInv, Belongs
    <3> QED
      BY <2>2, <2>3, <3>1
  <2>6. ASSUME NEW e \in inLobby PROVE pc'[<<"lobby", e.conn>>] = pc[<<"lobby", e.conn>>]
    <3>1. <<"lobby", e.conn>> \in Thread /\ <<"lobby", e.conn>> # t
      BY <2>2, ThreadOf DEF IInv, Belongs
    <3> QED
      BY <2>2, <3>1
  <2>7. Belongs'
    BY <2>4, <2>5, <2>6, BelongsFrame DEF IInv
  <2> QED
    BY <2>2, <2>3, <2>4, <2>7 DEF IInv, OwnTypes, RegistryTypeOK, lifecycle
<1> QED
  BY <1>2, <1>3, <1>4, CancelPendingKeeps, ReadUsersKeeps, BroadcastKeeps DEF FlushPendingLeaves

----------------------------------------------------------------------------
(* The theorems about types and registered connections.                    *)

LEMMA InitServed == Init => IInv
<1> SUFFICES ASSUME Init PROVE IInv
  OBVIOUS
<1>1. RegistryTypeOK /\ Belongs
  BY DEF Init, RegistryInit, RegistryTypeOK, Belongs
<1>2. OwnTypes
  BY SlotAssumption DEF Init, OwnTypes, Place, RoomSlot
<1> QED
  BY <1>1, <1>2 DEF IInv

LEMMA ClientStepKeeps ==
    ASSUME IInv, ClientStep
    PROVE  IInv'
BY RequestKeeps, ReadLoopKeeps, HandleKickKeeps, LobbyOpensKeeps, LobbyCloseKeeps, RoomsKeep
   DEF ClientStep

LEMMA ServerStepKeeps ==
    ASSUME IInv, NEW t \in Thread, ServerStep(t)
    PROVE  IInv'
<1>1. User # {}
  BY ThreadTyped DEF IInv
<1> QED
  BY <1>1, HandshakeKeeps, EvictKeeps, ConnectKeeps, HandleJoinKeeps, BroadcastLeaveKeeps,
     HandleLeaveKeeps, HandleDisconnectKeeps, GraceTimerKeeps, HandleKickKeeps, LobbyOpensKeeps,
     FlushKeeps
     DEF ServerStep

LEMMA ServedKept == IInv /\ [Next]_vars => IInv'
<1>1. ASSUME IInv, UNCHANGED vars PROVE IInv'
  BY <1>1 DEF vars, IInv, OwnTypes, RegistryTypeOK, Belongs
<1> QED
  BY <1>1, ClientStepKeeps, ServerStepKeeps DEF Next

\* No connection outlives its goroutine in the registry, whatever the order in
\* which handshakes, kicks, logouts, broadcasts and disconnects interleave.
THEOREM RegisteredIsServedCorrect == Spec => []RegisteredIsServed
<1>1. IInv => RegisteredIsServed
  BY DEF IInv, Belongs, RegisteredIsServed
<1> QED
  BY <1>1, InitServed, ServedKept, PTL DEF Spec

----------------------------------------------------------------------------
(* Who owes a departure its announcement.                                  *)

\* Where a thread is bound to show its room a list read later than now, and where
\* it is about to send the list it has.
Certain == {"exitDisconnect", "exitCheck", "exitCancel", "exitRead", "roomCheck", "graceCheck",
            "schedule", "leaveCancel", "leaveRead", "wait", "clear", "timerCheck",
            "joinCancel", "joinRead", "flushCancel", "flushRead"}

Sending == {"exitSend", "leaveSend", "joinSend", "flushSend"}

\* Where a handler may still find a flag that makes it return silently.
Wary == {"disconnect", "kickedCheck", "leftCheck", "exitSend"}

\* Where a handler reads, or kicks somebody.
Attending == {"reading", "kickMark", "kickClose", "kickRead", "kickSend"}

\* Thread t will announce the departure k.
Sure(t, k) ==
    \/ KeyOf(t) = k /\ pc[t] \in Certain
    \/ KeyOf(t) = k /\ pc[t] \in Sending /\ k[2] \notin list[t]
    \/ t[1] = "lobby" /\ U(t) = k[2] /\ k[1] \in todo[t[2]]

\* Thread t will announce it unless it finds a flag.
Unsure(t, k) ==
    /\ t[1] = "ws" /\ KeyOf(t) = k
    /\ pc[t] \in Wary \/ (pc[t] \in Attending /\ ~Registered(t[2]))

\* Thread s has set the left flag of k, or could have.
SetterPlace == Wary \cup {"exitDisconnect", "exitCheck", "exitCancel", "exitRead"}

Setter(s, k) ==
    /\ s[1] = "ws" /\ KeyOf(s) = k /\ pc[s] \in SetterPlace
    /\ pc[s] # "exitDisconnect" => ~Registered(s[2])

\* A departure is somebody's: a left flag silences one handler, not two.
Held(k) ==
    \/ \E t \in Thread : Sure(t, k)
    \/ \E t \in Thread : /\ Unsure(t, k)
                         /\ k \in leftUsers => \E s \in Thread : s # t /\ Unsure(s, k)

OwedInv == \A k \in owed : k \notin Present /\ (k \in kicked \/ Held(k))

LeftInv == \A k \in leftUsers : k \in kicked \/ \E s \in Thread : Setter(s, k)

KickInv ==
    /\ kickedUsers \subseteq kicked
    /\ \A c \in RoomSlot : pc[<<"ws", c>>] = "kickMark" => <<target[c], victim[c]>> \in kicked

TodoInv ==
    \A c \in LobbySlot : todo[c] # {} =>
        pc[<<"lobby", c>>] \in {"flushNext", "flushCancel", "flushRead", "flushSend"}

\* A slot's handshake begins when its other goroutines have returned.
Handshake == {"lobbyCheck", "evict", "limit", "connect"}

FreshInv ==
    \A c \in RoomSlot :
        /\ pc[<<"ws", c>>] # "off" => pc[<<"timer", c>>] = "off"
        /\ pc[<<"ws", c>>] \in Handshake => pc[<<"join", c>>] = "off"

HandInv == IInv /\ KickInv /\ TodoInv /\ FreshInv /\ PendingHasTimer /\ LeftInv /\ OwedInv

LEMMA StaysUnregistered ==
    ASSUME IInv', inRoom' \subseteq inRoom, NEW c \in RoomSlot, ~Registered(c)
    PROVE  ~Registered(c)'
BY SlotAssumption DEF IInv, Belongs, Registered, RoomSlot

LEMMA RoomEntryIs ==
    ASSUME IInv, NEW e \in inRoom
    PROVE  LET w == <<"ws", e.conn>>
           IN  /\ w \in Thread /\ w[1] = "ws" /\ w[2] = e.conn /\ e.conn \in RoomSlot
               /\ KeyOf(w) = <<e.room, e.user>> /\ pc[w] \in Serving /\ Registered(w[2])
BY ThreadOf DEF IInv, Belongs, KeyOf, U, R, Registered

\* A step that leaves every departure to somebody.
LEMMA OwedStep ==
    ASSUME HandInv, IInv', kicked \subseteq kicked',
           \A k \in owed' : /\ k \notin Present'
                            /\ k \in owed \/ (k \in Present /\ inRoom' \subseteq inRoom),
           \A k \in owed' \ kicked' :
               k \in leftUsers' => k \in leftUsers \/ \E r \in Thread : Sure(r, k)',
           \A k \in (owed \cap owed') \ kicked', s \in Thread :
               Sure(s, k) => \E r \in Thread : Sure(r, k)',
           \A k \in owed' \ kicked', s \in Thread :
               Unsure(s, k) \/ Setter(s, k) => Unsure(s, k)' \/ \E r \in Thread : Sure(r, k)',
           \A s \in Thread : s[1] = "ws" /\ pc[s] \in Serving =>
               /\ target'[s[2]] = target[s[2]]
               /\ pc'[s] \in Serving \cup {"exitCheck", "kickedCheck"}
               /\ pc[s] = "exitDisconnect" => pc'[s] \in Certain
    PROVE  OwedInv'
<1> SUFFICES ASSUME NEW k \in owed', k \notin kicked'
             PROVE  Held(k)'
  BY DEF OwedInv
<1>s. SUFFICES ASSUME ~ \E r \in Thread : Sure(r, k)'
               PROVE  Held(k)'
  BY DEF Held
<1>k. k \notin kicked /\ (k \in leftUsers' => k \in leftUsers)
  BY <1>s
<1>1. CASE k \in owed
  <2>1. PICK t \in Thread : /\ Unsure(t, k)
                            /\ k \in leftUsers => \E s \in Thread : s # t /\ Unsure(s, k)
    BY <1>1, <1>s, <1>k DEF HandInv, OwedInv, Held
  <2>2. Unsure(t, k)'
    BY <1>s, <2>1
  <2>3. k \in leftUsers' => \E s \in Thread : s # t /\ Unsure(s, k)'
    BY <1>s, <1>k, <2>1
  <2> QED
    BY <2>2, <2>3 DEF Held
<1>2. CASE k \notin owed
  <2>1. k \in Present /\ k \notin Present' /\ inRoom' \subseteq inRoom
    BY <1>2
  <2>2. PICK e \in inRoom : k = <<e.room, e.user>>
    BY <2>1 DEF Present
  <2> DEFINE w == <<"ws", e.conn>>
  <2>3. /\ w \in Thread /\ w[1] = "ws" /\ w[2] = e.conn /\ e.conn \in RoomSlot
        /\ KeyOf(w) = k /\ pc[w] \in Serving /\ Registered(w[2])
    BY <2>2, RoomEntryIs DEF HandInv
  <2> HIDE DEF w
  <2>4. KeyOf(w)' = k
    BY <2>3 DEF KeyOf, U, R
  <2>5. ~Registered(w[2])'
    <3>1. \A f \in inRoom' : f.conn # e.conn
      BY <2>1, <2>2 DEF HandInv, IInv, RegistryTypeOK, Present
    <3>2. \A f \in inLobby' : f.conn # e.conn
      BY <2>3 DEF IInv, Belongs, RoomSlot
    <3> QED
      BY <2>3, <3>1, <3>2 DEF Registered
  <2>6. pc'[w] \in Serving \cup {"exitCheck", "kickedCheck"}
    BY <2>3
  <2>7. Unsure(w, k)'
    BY <1>s, <2>3, <2>4, <2>5, <2>6 DEF Sure, Unsure, Serving, Certain, Wary, Attending
  <2>8. CASE k \notin leftUsers'
    BY <2>3, <2>7, <2>8 DEF Held
  <2>9. CASE k \in leftUsers'
    <3>1. PICK s \in Thread : Setter(s, k)
      BY <1>k, <2>9 DEF HandInv, LeftInv
    <3>2. Unsure(s, k)'
      BY <1>s, <3>1
    <3>3. s # w
      <4>1. ASSUME s = w PROVE FALSE
        <5>1. pc[w] = "exitDisconnect"
          BY <2>3, <3>1, <4>1 DEF Setter
        <5>2. pc'[w] \in Certain
          BY <2>3, <5>1
        <5> QED
          BY <1>s, <2>3, <2>4, <5>2 DEF Sure
      <4> QED
        BY <4>1
    <3> QED
      BY <2>3, <2>7, <3>2, <3>3 DEF Held
  <2> QED
    BY <2>8, <2>9
<1> QED
  BY <1>1, <1>2

----------------------------------------------------------------------------
(* One thread moves.                                                       *)

Flushing == {"flushNext", "flushCancel", "flushRead", "flushSend"}

\* A move that leaves nothing behind that another thread relies on.
Orderly(t, from, to) ==
    /\ t[1] # "lobby" => from # "off"
    /\ to \in Handshake => from \in Handshake
    /\ from \in Flushing => to \in Flushing \/ todo[t[2]] = {}
    /\ t[1] = "ws" =>
        /\ from \in Serving => to \in Serving \cup {"exitCheck", "kickedCheck"}
        /\ from = "exitDisconnect" => to = "exitCheck"
        /\ from \in Attending => to \in Attending \cup {"disconnect", "exitDisconnect"}

\* The thread's own departure stays with it, or has been announced, or a flag
\* says that nobody need announce it.
HandsOn(t, from, to) ==
    LET k == KeyOf(t)
    IN  /\ k \in (owed \cap owed') \ kicked' =>
               (from \in Certain \/ (from \in Sending /\ U(t) \notin list[t])
                => to \in Certain \/ (to \in Sending /\ U(t) \notin list'[t]))
        /\ t[1] = "ws" /\ from \in SetterPlace /\ k \notin kicked' =>
               \/ to \in SetterPlace \ {"exitDisconnect"}
               \/ to \in Certain /\ k \notin leftUsers'
        /\ t[1] = "ws" /\ from = "exitDisconnect" => ~Registered(t[2])'

Moves(t, from, to) ==
    /\ pc[t] = from
    /\ \A s \in Thread : pc'[s] = IF s = t THEN to ELSE pc[s]

LEMMA MoveOwed ==
    ASSUME HandInv, IInv', NEW t \in Thread, NEW from, NEW to,
           Moves(t, from, to), Orderly(t, from, to), HandsOn(t, from, to),
           inRoom' \subseteq inRoom, UNCHANGED <<target, todo, leftUsers>>,
           kicked \subseteq kicked', \A s \in Thread : s # t => list'[s] = list[s],
           \A k \in owed' : k \notin Present' /\ k \in owed \cup Present
    PROVE  OwedInv' /\ LeftInv'
<1>1. \A s \in Thread : KeyOf(s)' = KeyOf(s) /\ U(s)' = U(s)
  BY DEF KeyOf, U, R
<1>2. \A s \in Thread : s[1] = "ws" /\ ~Registered(s[2]) => ~Registered(s[2])'
  BY ThreadParts, StaysUnregistered
<1>3. ASSUME NEW k \in (owed \cap owed') \ kicked', NEW s \in Thread, Sure(s, k)
      PROVE  Sure(s, k)'
  <2>1. CASE s # t
    BY <1>1, <1>3, <2>1 DEF Sure, Moves
  <2>2. CASE s = t /\ KeyOf(s) = k
    <3>1. k[2] = U(t)
      BY <2>2 DEF KeyOf
    <3> QED
      BY <1>1, <1>3, <2>2, <3>1 DEF Sure, Moves, HandsOn, KeyOf
  <2>3. CASE s = t /\ KeyOf(s) # k
    BY <1>1, <1>3, <2>3 DEF Sure
  <2> QED
    BY <2>1, <2>2, <2>3
<1>4. ASSUME NEW k \in leftUsers, k \notin kicked', NEW s \in Thread, Setter(s, k)
      PROVE  Setter(s, k)'
  <2>1. CASE s # t
    BY <1>1, <1>2, <1>4, <2>1 DEF Setter, Moves
  <2>2. CASE s = t
    <3>1. s[1] = "ws" /\ KeyOf(s)' = k /\ pc[s] \in SetterPlace /\ pc'[s] = to
      BY <1>1, <1>4, <2>2 DEF Setter, Moves
    <3>2. to \in SetterPlace \ {"exitDisconnect"}
      BY <1>4, <2>2, <3>1 DEF HandsOn, Moves, Setter
    <3>3. ~Registered(s[2])'
      BY <1>2, <1>4, <2>2, <3>1 DEF HandsOn, Moves, Setter
    <3> QED
      BY <3>1, <3>2, <3>3 DEF Setter
  <2> QED
    BY <2>1, <2>2
<1>5. ASSUME NEW k, k \notin kicked', NEW s \in Thread, Unsure(s, k) \/ Setter(s, k)
      PROVE  Unsure(s, k)' \/ Sure(s, k)'
  <2>0. s[1] = "ws" /\ KeyOf(s) = k /\ KeyOf(s)' = k
    BY <1>1, <1>5 DEF Unsure, Setter
  <2>1. CASE pc[s] \in SetterPlace
    <3>1. pc'[s] \in SetterPlace \/ pc'[s] \in Certain
      BY <1>5, <2>0, <2>1 DEF Moves, HandsOn
    <3> QED
      BY <2>0, <3>1 DEF Unsure, Sure, SetterPlace, Wary, Certain
  <2>2. CASE pc[s] \in Attending /\ ~Registered(s[2])
    <3>1. pc'[s] \in Attending \cup {"disconnect", "exitDisconnect"}
      BY <2>0, <2>2 DEF Moves, Orderly
    <3> QED
      BY <1>2, <2>0, <2>2, <3>1 DEF Unsure, Sure, Wary, Certain
  <2> QED
    BY <1>5, <2>1, <2>2 DEF Unsure, Setter, SetterPlace
<1>6. \A s \in Thread : s[1] = "ws" /\ pc[s] \in Serving =>
               /\ target'[s[2]] = target[s[2]]
               /\ pc'[s] \in Serving \cup {"exitCheck", "kickedCheck"}
               /\ pc[s] = "exitDisconnect" => pc'[s] \in Certain
  BY DEF Moves, Orderly, Certain
<1>7. OwedInv'
  BY <1>3, <1>5, <1>6, OwedStep
<1>8. LeftInv'
  BY <1>4 DEF HandInv, LeftInv
<1> QED
  BY <1>7, <1>8

LEMMA FreshStep ==
    ASSUME HandInv, NEW t \in Thread, NEW from, NEW to, Moves(t, from, to), Orderly(t, from, to)
    PROVE  FreshInv'
<1> SUFFICES ASSUME NEW c \in RoomSlot
             PROVE  /\ pc'[<<"ws", c>>] # "off" => pc'[<<"timer", c>>] = "off"
                    /\ pc'[<<"ws", c>>] \in Handshake => pc'[<<"join", c>>] = "off"
  BY DEF FreshInv
<1>1. <<"ws", c>> \in Thread /\ <<"join", c>> \in Thread /\ <<"timer", c>> \in Thread
  BY ThreadOf
<1>2. /\ pc[<<"ws", c>>] # "off" => pc[<<"timer", c>>] = "off"
      /\ pc[<<"ws", c>>] \in Handshake => pc[<<"join", c>>] = "off"
  BY DEF HandInv, FreshInv
<1>3. CASE t = <<"ws", c>>
  BY <1>1, <1>2, <1>3 DEF Moves, Orderly
<1>4. CASE t = <<"timer", c>>
  BY <1>1, <1>2, <1>4 DEF Moves, Orderly
<1>5. CASE t = <<"join", c>>
  <2>1. pc[<<"ws", c>>] \notin Handshake
    BY <1>1, <1>2, <1>5 DEF Moves, Orderly
  <2> QED
    BY <1>1, <1>2, <1>5, <2>1 DEF Moves
<1>6. CASE t \notin {<<"ws", c>>, <<"timer", c>>, <<"join", c>>}
  BY <1>1, <1>2, <1>6 DEF Moves
<1> QED
  BY <1>3, <1>4, <1>5, <1>6

LEMMA TodoStep ==
    ASSUME HandInv, NEW t \in Thread, NEW from, NEW to, Moves(t, from, to), Orderly(t, from, to),
           UNCHANGED todo
    PROVE  TodoInv'
BY ThreadOf DEF HandInv, TodoInv, Moves, Orderly, Flushing

\* The notes of the lifecycle state are left alone.
Notes == <<victim, kicked, kickedUsers, pendingLeaves>>

LEMMA KickFrame ==
    ASSUME HandInv, NEW t \in Thread, NEW from, NEW to, Moves(t, from, to),
           UNCHANGED <<target, victim>>, kicked \subseteq kicked', kickedUsers' \subseteq kicked',
           to # "kickMark"
    PROVE  KickInv'
BY ThreadOf DEF HandInv, KickInv, Moves

LEMMA TimerFrame ==
    ASSUME HandInv, IInv', NEW t \in Thread, NEW from, NEW to, Moves(t, from, to),
           UNCHANGED <<target, pendingLeaves>>,
           t[1] = "timer" /\ from \in {"wait", "clear"} => to = "clear"
    PROVE  PendingHasTimer'
<1> SUFFICES ASSUME NEW k \in Key, NEW p, p = pendingLeaves[k], p # NoTimer
             PROVE  KeyOf(<<"timer", p>>)' = k /\ pc'[<<"timer", p>>] \in {"wait", "clear"}
  BY DEF PendingHasTimer
<1>1. <<"timer", p>> \in Thread
  BY ThreadOf DEF HandInv, IInv, OwnTypes
<1>2. KeyOf(<<"timer", p>>) = k /\ pc[<<"timer", p>>] \in {"wait", "clear"}
  BY DEF HandInv, PendingHasTimer
<1>3. KeyOf(<<"timer", p>>)' = k
  BY <1>2 DEF KeyOf, U, R
<1>4. pc'[<<"timer", p>>] \in {"wait", "clear"}
  BY <1>1, <1>2 DEF Moves
<1> QED
  BY <1>3, <1>4

\* A thread moves and no note is written.
LEMMA QuietMove ==
    ASSUME HandInv, IInv', NEW t \in Thread, NEW from, NEW to,
           Moves(t, from, to), Orderly(t, from, to), HandsOn(t, from, to), to # "kickMark",
           t[1] = "timer" /\ from \in {"wait", "clear"} => to = "clear",
           inRoom' \subseteq inRoom, UNCHANGED <<target, todo, leftUsers, Notes>>,
           \A s \in Thread : s # t => list'[s] = list[s],
           \A k \in owed' : k \notin Present' /\ k \in owed \cup Present
    PROVE  HandInv'
<1>1. OwedInv' /\ LeftInv'
  BY MoveOwed DEF Notes
<1>2. FreshInv' /\ TodoInv' /\ PendingHasTimer'
  BY FreshStep, TodoStep, TimerFrame DEF Notes
<1>3. KickInv'
  BY KickFrame DEF HandInv, KickInv, Notes
<1> QED
  BY <1>1, <1>2, <1>3 DEF HandInv

----------------------------------------------------------------------------
(* What the steps do to the history, again.                                *)

LEMMA DeparturesSplit ==
    ASSUME NEW shown, Departures(shown)
    PROVE  \A k \in owed' : k \notin Present' /\ k \in owed \cup Present
BY DEF Departures

LEMMA SameDepartures ==
    ASSUME HandInv, UNCHANGED <<inRoom, owed>>
    PROVE  \A k \in owed' : k \notin Present' /\ k \in owed \cup Present
BY DEF HandInv, OwedInv, Present

LEMMA GotoIs ==
    ASSUME HandInv, NEW t \in Thread, NEW from, NEW to, Goto(t, from, to)
    PROVE  Moves(t, from, to)
BY DEF Goto, Moves, HandInv, IInv, OwnTypes

\* A step that only moves a thread.
LEMMA WalkKeeps ==
    ASSUME HandInv, IInv', NEW t \in Thread, NEW from, NEW to,
           Goto(t, from, to), Orderly(t, from, to), HandsOn(t, from, to), to # "kickMark",
           t[1] = "timer" /\ from \in {"wait", "clear"} => to = "clear",
           UNCHANGED <<inRoom, inLobby, locals, lifecycle, owed>>
    PROVE  HandInv'
<1>1. Moves(t, from, to)
  BY GotoIs
<1>2. \A k \in owed' : k \notin Present' /\ k \in owed \cup Present
  BY SameDepartures
<1> QED
  BY <1>1, <1>2, QuietMove DEF locals, lifecycle, Notes

----------------------------------------------------------------------------
(* Reading a list, sending it, disconnecting, cancelling.                  *)

ReadMoves == {<<"joinRead", "joinSend">>, <<"leaveRead", "leaveSend">>, <<"exitRead", "exitSend">>,
              <<"kickRead", "kickSend">>, <<"flushRead", "flushSend">>}

SendMoves == {<<"joinSend", "off">>, <<"leaveSend", "off">>, <<"exitSend", "disconnect">>,
              <<"kickSend", "reading">>, <<"flushSend", "flushNext">>}

\* Whoever is owed an announcement is not on the list that is read now.
LEMMA ReadHands ==
    ASSUME HandInv, IInv', NEW t \in Thread, NEW from, NEW to, <<from, to>> \in ReadMoves,
           ReadUsers(t, from, to)
    PROVE  HandInv'
<1>1. Moves(t, from, to)
  BY GotoIs DEF ReadUsers
<1>2. Orderly(t, from, to) /\ to # "kickMark" /\ from \notin {"wait", "clear"}
  BY DEF ReadMoves, Orderly, Handshake, Flushing, Serving, Attending
<1>3. \A s \in Thread : s # t => list'[s] = list[s]
  BY DEF ReadUsers, HandInv, IInv, OwnTypes
<1>4. HandsOn(t, from, to)
  <2>1. ASSUME KeyOf(t) \in owed PROVE U(t) \notin list'[t]
    <3>1. KeyOf(t) \notin Present
      BY <2>1 DEF HandInv, OwedInv
    <3>2. list'[t] = UsersIn(R(t))
      BY DEF ReadUsers, HandInv, IInv, OwnTypes
    <3> QED
      BY <3>1, <3>2 DEF Present, KeyOf, UsersIn, Members
  <2>2. from \in Certain => to \in Sending
    BY DEF ReadMoves, Certain, Sending
  <2>3. from \notin Sending /\ from # "exitDisconnect"
    BY DEF ReadMoves, Sending
  <2>4. from \in SetterPlace => to \in SetterPlace \ {"exitDisconnect"}
    BY DEF ReadMoves, SetterPlace, Wary
  <2> QED
    BY <2>1, <2>2, <2>3, <2>4 DEF HandsOn
<1>5. \A k \in owed' : k \notin Present' /\ k \in owed \cup Present
  BY SameDepartures DEF ReadUsers
<1> QED
  BY <1>1, <1>2, <1>3, <1>4, <1>5, QuietMove DEF ReadUsers, lifecycle, Notes

\* A list without the user pays the debt.
LEMMA SendHands ==
    ASSUME HandInv, IInv', NEW t \in Thread, NEW from, NEW to, <<from, to>> \in SendMoves,
           Broadcast(t, from, to)
    PROVE  HandInv'
<1>1. Moves(t, from, to)
  BY GotoIs DEF Broadcast
<1>2. Orderly(t, from, to) /\ to # "kickMark" /\ from \notin {"wait", "clear"}
  BY DEF SendMoves, Orderly, Handshake, Flushing, Serving, Attending
<1>3. \A s \in Thread : s # t => list'[s] = list[s]
  BY DEF Broadcast, HandInv, IInv, OwnTypes
<1>4. /\ inRoom' \subseteq inRoom
      /\ Departures({k \in Key : k[1] = R(t) /\ k[2] \notin list[t]})
  BY DEF Broadcast, SendState, Drop
<1>5. \A k \in owed' : k \notin Present' /\ k \in owed \cup Present
  BY <1>4, DeparturesSplit
<1>6. HandsOn(t, from, to)
  <2>1. ASSUME U(t) \notin list[t] PROVE KeyOf(t) \notin owed \cap owed'
    <3>1. KeyOf(t) \in Key /\ KeyOf(t)[1] = R(t) /\ KeyOf(t)[2] = U(t)
      BY ThreadTyped DEF HandInv, IInv, KeyOf
    <3>2. ASSUME KeyOf(t) \in owed PROVE KeyOf(t) \notin Present
      BY <3>2 DEF HandInv, OwedInv
    <3> QED
      BY <1>4, <2>1, <3>1, <3>2 DEF Departures
  <2>2. from \notin Certain /\ from # "exitDisconnect"
    BY DEF SendMoves, Certain
  <2>3. from \in SetterPlace => to \in SetterPlace \ {"exitDisconnect"}
    BY DEF SendMoves, SetterPlace, Wary
  <2> QED
    BY <2>1, <2>2, <2>3 DEF HandsOn
<1> QED
  BY <1>1, <1>2, <1>3, <1>4, <1>5, <1>6, QuietMove DEF Broadcast, lifecycle, Notes

LEMMA DisconnectHands ==
    ASSUME HandInv, IInv', NEW t \in Thread, NEW from, NEW to, t[1] = "ws",
           <<from, to>> \in {<<"exitDisconnect", "exitCheck">>, <<"disconnect", "kickedCheck">>},
           Disconnect(t, from, to)
    PROVE  HandInv'
<1>1. Moves(t, from, to)
  BY GotoIs DEF Disconnect
<1>2. Orderly(t, from, to) /\ to # "kickMark" /\ from \notin {"wait", "clear"}
  BY DEF Orderly, Handshake, Flushing, Serving, Attending
<1>3. /\ inRoom' = inRoom \ {e \in Members(R(t)) : e.conn = t[2]} /\ inRoom' \subseteq inRoom
      /\ UNCHANGED inLobby
  BY DEF Disconnect, Drop
<1>4. \A k \in owed' : k \notin Present' /\ k \in owed \cup Present
  BY DeparturesSplit DEF Disconnect, NoBroadcast
<1>5. ~Registered(t[2])'
  <2>1. \A e \in inRoom' : e.conn # t[2]
    BY <1>3 DEF HandInv, IInv, Belongs, Members, R
  <2>2. \A e \in inLobby : e.conn # t[2]
    BY ThreadParts, ThreadOf DEF HandInv, IInv, Belongs
  <2> QED
    BY <1>3, <2>1, <2>2 DEF Registered
<1>6. HandsOn(t, from, to)
  BY <1>5 DEF HandsOn, Certain, Sending, SetterPlace, Wary
<1> QED
  BY <1>1, <1>2, <1>3, <1>4, <1>6, QuietMove DEF Disconnect, locals, lifecycle, Notes

\* Cancelling the entries of some keys ends timers of those keys only.
LEMMA CancelledOthers ==
    ASSUME HandInv, IInv', NEW t \in Thread, NEW keys \in SUBSET Key, NEW to,
           pc' = [Cancelled(keys, pc) EXCEPT ![t] = to], pc[t] \notin {"wait", "clear"},
           ClearPending(keys)
    PROVE  \A s \in Thread : s # t =>
              \/ pc'[s] = pc[s]
              \/ s[1] = "timer" /\ pc[s] = "wait" /\ pc'[s] = "off" /\ KeyOf(s) \in keys
<1>1. \A s \in Thread : s # t => pc'[s] = Cancelled(keys, pc)[s]
  BY DEF Cancelled
<1>2. \A s \in Thread : s[1] = "timer" => s[2] # NoTimer /\ s = <<"timer", s[2]>>
  BY ThreadParts, SlotAssumption DEF RoomSlot
<1> SUFFICES ASSUME NEW s \in Thread, s # t, pc'[s] # pc[s]
             PROVE  s[1] = "timer" /\ pc[s] = "wait" /\ pc'[s] = "off" /\ KeyOf(s) \in keys
  OBVIOUS
<1>3. /\ s[1] = "timer" /\ pc[s] = "wait" /\ pc'[s] = "off"
      /\ \E k \in keys : pendingLeaves[k] = s[2]
  BY <1>1 DEF Cancelled
<1>4. PICK k \in keys : pendingLeaves[k] = s[2]
  BY <1>3
<1>5. KeyOf(s) = k
  BY <1>2, <1>3, <1>4 DEF HandInv, PendingHasTimer
<1> QED
  BY <1>3, <1>5

\* No entry outlives its timer.
LEMMA CancelledTimers ==
    ASSUME HandInv, IInv', NEW t \in Thread, NEW keys \in SUBSET Key,
           pc[t] \notin {"wait", "clear"}, ClearPending(keys),
           \A s \in Thread : s # t =>
              \/ pc'[s] = pc[s]
              \/ s[1] = "timer" /\ pc[s] = "wait" /\ pc'[s] = "off" /\ KeyOf(s) \in keys,
           \A s \in Thread : KeyOf(s)' = KeyOf(s)
    PROVE  PendingHasTimer'
<1>1. ASSUME NEW k \in Key, NEW p, p = pendingLeaves'[k], p # NoTimer
      PROVE  KeyOf(<<"timer", p>>)' = k /\ pc'[<<"timer", p>>] \in {"wait", "clear"}
  <2>1. k \notin keys /\ pendingLeaves[k] = p
    BY <1>1 DEF ClearPending
  <2>2. KeyOf(<<"timer", p>>) = k /\ pc[<<"timer", p>>] \in {"wait", "clear"}
    BY <1>1, <2>1 DEF HandInv, PendingHasTimer
  <2>3. <<"timer", p>> \in Thread /\ <<"timer", p>>[1] = "timer"
    <3>1. p \in RoomSlot
      BY <1>1 DEF IInv, OwnTypes
    <3> QED
      BY <3>1, ThreadOf
  <2>4. <<"timer", p>> # t
    BY <2>2
  <2>5. pc'[<<"timer", p>>] = pc[<<"timer", p>>]
    BY <2>1, <2>2, <2>3, <2>4
  <2> QED
    BY <2>2, <2>3, <2>5
<1> QED
  BY <1>1 DEF PendingHasTimer

CancelMoves == {<<"joinCancel", "joinRead">>, <<"leaveCancel", "leaveRead">>,
                <<"exitCancel", "exitRead">>, <<"flushCancel", "flushRead">>}

\* Whoever cancels the timer of a key goes on to announce that key itself.
LEMMA CancelHands ==
    ASSUME HandInv, IInv', NEW t \in Thread, NEW from, NEW to, <<from, to>> \in CancelMoves,
           CancelPending(t, from, to)
    PROVE  HandInv'
<1>1. PICK keys \in SUBSET Key : keys = {KeyOf(t)}
  BY ThreadTyped DEF HandInv, IInv
<1>2. /\ pc[t] = from /\ pc' = [Cancelled(keys, pc) EXCEPT ![t] = to] /\ ClearPending(keys)
      /\ UNCHANGED <<inRoom, inLobby, locals, kickedUsers, leftUsers, active, closing, view, owed>>
  BY <1>1 DEF CancelPending
<1>3. from \notin {"wait", "clear"}
  BY DEF CancelMoves
<1>a. \A s \in Thread : KeyOf(s)' = KeyOf(s) /\ U(s)' = U(s)
  BY <1>2 DEF KeyOf, U, R, locals
<1>4. /\ pc'[t] = to
      /\ \A s \in Thread : s # t =>
            \/ pc'[s] = pc[s]
            \/ s[1] = "timer" /\ pc[s] = "wait" /\ pc'[s] = "off" /\ KeyOf(s) = KeyOf(t)
      /\ PendingHasTimer'
  <2>1. /\ pc[t] \notin {"wait", "clear"} /\ ClearPending(keys)
        /\ pc' = [Cancelled(keys, pc) EXCEPT ![t] = to]
    BY <1>2, <1>3
  <2>2. \A s \in Thread : s # t =>
            \/ pc'[s] = pc[s]
            \/ s[1] = "timer" /\ pc[s] = "wait" /\ pc'[s] = "off" /\ KeyOf(s) \in keys
    BY <2>1, CancelledOthers, Zenon
  <2>3. pc'[t] = to
    BY <2>1 DEF Cancelled
  <2>4. PendingHasTimer'
    BY <1>a, <2>1, <2>2, CancelledTimers
  <2> QED
    BY <1>1, <2>2, <2>3, <2>4
<1>5. \A s \in Thread : Registered(s[2])' = Registered(s[2])
  BY <1>2 DEF Registered
<1>6. ASSUME NEW k, NEW s \in Thread, Sure(s, k)
      PROVE  \E r \in Thread : Sure(r, k)'
  <2>1. CASE s = t \/ pc'[s] = pc[s]
    <3>1. pc[s] \in Certain => pc'[s] \in Certain
      BY <1>2, <1>4, <2>1 DEF CancelMoves, Certain
    <3>2. pc[s] \in Sending => pc'[s] \in Sending
      BY <1>2, <1>4, <2>1 DEF CancelMoves, Sending
    <3> QED
      BY <1>2, <1>6, <1>a, <3>1, <3>2 DEF Sure, locals
  <2>2. CASE s[1] = "timer" /\ KeyOf(s) = KeyOf(t)
    <3>1. KeyOf(t)' = k
      BY <1>6, <1>a, <2>2 DEF Sure
    <3>2. pc'[t] \in Certain
      BY <1>4 DEF CancelMoves, Certain
    <3> QED
      BY <3>1, <3>2 DEF Sure
  <2> QED
    BY <1>4, <2>1, <2>2
<1>7. ASSUME NEW k, NEW s \in Thread, Unsure(s, k) \/ Setter(s, k)
      PROVE  /\ Unsure(s, k)' \/ Sure(s, k)'
             /\ Setter(s, k) => Setter(s, k)'
  <2>1. s[1] = "ws" /\ KeyOf(s)' = k
    BY <1>7, <1>a DEF Unsure, Setter
  <2>2. pc'[s] = pc[s] \/ (pc[s] = "exitCancel" /\ pc'[s] = "exitRead")
    BY <1>2, <1>4, <1>7, <2>1 DEF Unsure, Setter, SetterPlace, Wary, Attending, CancelMoves
  <2> QED
    BY <1>5, <1>7, <2>1, <2>2 DEF Unsure, Sure, Setter, SetterPlace, Wary, Attending, Certain
<1>8. \A s \in Thread : s[1] = "ws" /\ pc[s] \in Serving => pc'[s] = pc[s]
  BY <1>2, <1>4 DEF Serving, CancelMoves
<1>9. OwedInv'
  <2>1. \A k \in owed' : k \notin Present' /\ k \in owed \cup Present
    BY <1>2, SameDepartures
  <2> QED
    BY <1>2, <1>6, <1>7, <1>8, <2>1, OwedStep DEF locals, Certain
<1>10. LeftInv'
  BY <1>2, <1>7 DEF HandInv, LeftInv, locals
<1>11. KickInv'
  <2>1. ASSUME NEW c \in RoomSlot, pc'[<<"ws", c>>] = "kickMark"
        PROVE  pc[<<"ws", c>>] = "kickMark"
    <3>1. <<"ws", c>> \in Thread /\ <<"ws", c>>[1] # "timer"
      BY ThreadOf
    <3>2. to # "kickMark"
      BY DEF CancelMoves
    <3> QED
      BY <1>4, <2>1, <3>1, <3>2
  <2> QED
    BY <1>2, <2>1 DEF HandInv, KickInv, locals
<1>12. TodoInv'
  <2>1. ASSUME NEW c \in LobbySlot, pc[<<"lobby", c>>] \in Flushing
        PROVE  pc'[<<"lobby", c>>] \in Flushing
    <3>1. <<"lobby", c>> \in Thread /\ <<"lobby", c>>[1] # "timer"
      BY ThreadOf
    <3>2. from \in Flushing => to \in Flushing
      BY DEF CancelMoves, Flushing
    <3> QED
      BY <1>2, <1>4, <2>1, <3>1, <3>2
  <2> QED
    BY <1>2, <2>1 DEF HandInv, TodoInv, Flushing, locals
<1>13. FreshInv'
  <2>1. \A s \in Thread : /\ s[1] = "timer" /\ pc[s] = "off" => pc'[s] = "off"
                          /\ s[1] = "join" /\ pc[s] = "off" => pc'[s] = "off"
                          /\ s[1] = "ws" /\ pc'[s] # "off" => pc[s] # "off"
                          /\ s[1] = "ws" /\ pc'[s] \in Handshake => pc[s] \in Handshake
    BY <1>2, <1>4 DEF CancelMoves, Handshake
  <2> QED
    BY <2>1, ThreadOf DEF HandInv, FreshInv
<1> QED
  BY <1>4, <1>9, <1>10, <1>11, <1>12, <1>13 DEF HandInv

----------------------------------------------------------------------------
(* The handlers, again: who owes what.                                     *)

LEMMA HandshakeHands ==
    ASSUME HandInv, IInv', NEW t \in Thread, CheckLobby(t) \/ CheckLimit(t) \/ EvictStale(t)
    PROVE  HandInv'
<1>1. PICK from, to : /\ Goto(t, from, to) /\ from \in {"lobbyCheck", "limit", "evict"}
                      /\ to \in {"evict", "off", "connect", "limit"}
  BY DEF CheckLobby, CheckLimit, EvictStale
<1>2. /\ Orderly(t, from, to) /\ HandsOn(t, from, to) /\ to # "kickMark"
      /\ t[1] = "timer" /\ from \in {"wait", "clear"} => to = "clear"
  BY <1>1 DEF Orderly, HandsOn, Handshake, Flushing, Serving, Attending, Certain, Sending,
     SetterPlace, Wary
<1>3. CASE CheckLobby(t) \/ CheckLimit(t)
  BY <1>1, <1>2, <1>3, WalkKeeps DEF CheckLobby, CheckLimit
<1>4. CASE EvictStale(t)
  <2>1. inRoom' \subseteq inRoom /\ UNCHANGED <<locals, lifecycle>>
    BY <1>4 DEF EvictStale, Drop
  <2>2. \A k \in owed' : k \notin Present' /\ k \in owed \cup Present
    BY <1>4, DeparturesSplit DEF EvictStale, NoBroadcast
  <2>3. Moves(t, from, to)
    BY <1>1, GotoIs
  <2> QED
    BY <1>2, <2>1, <2>2, <2>3, QuietMove DEF locals, lifecycle, Notes
<1> QED
  BY <1>3, <1>4

LEMMA HandleJoinHands ==
    ASSUME HandInv, IInv', NEW t \in Thread, HandleJoin(t)
    PROVE  HandInv'
<1>1. /\ <<"joinCancel", "joinRead">> \in CancelMoves
      /\ <<"joinRead", "joinSend">> \in ReadMoves /\ <<"joinSend", "off">> \in SendMoves
  BY DEF CancelMoves, ReadMoves, SendMoves
<1> QED
  BY <1>1, CancelHands, ReadHands, SendHands DEF HandleJoin

LEMMA BroadcastLeaveHands ==
    ASSUME HandInv, IInv', NEW t \in Thread, BroadcastLeave(t)
    PROVE  HandInv'
<1>1. /\ <<"leaveCancel", "leaveRead">> \in CancelMoves /\ <<"exitCancel", "exitRead">> \in CancelMoves
      /\ <<"leaveRead", "leaveSend">> \in ReadMoves /\ <<"exitRead", "exitSend">> \in ReadMoves
      /\ <<"leaveSend", "off">> \in SendMoves /\ <<"exitSend", "disconnect">> \in SendMoves
  BY DEF CancelMoves, ReadMoves, SendMoves
<1> QED
  BY <1>1, CancelHands, ReadHands, SendHands DEF BroadcastLeave

\* Whoever finds the user in the room has nothing to announce.
LEMMA InRoomOwesNothing ==
    ASSUME HandInv, NEW t \in Thread, InRoom(R(t), U(t))
    PROVE  KeyOf(t) \notin owed
BY DEF HandInv, OwedInv, Present, InRoom, UsersIn, Members, KeyOf

LEMMA HandleLeaveHands ==
    ASSUME HandInv, IInv', NEW t \in Thread, HandleLeave(t)
    PROVE  HandInv'
<1>1. CASE Disconnect(t, "exitDisconnect", "exitCheck")
  BY <1>1, DisconnectHands DEF HandleLeave
<1>2. ASSUME NEW to \in {"disconnect", "exitCancel"}, Goto(t, "exitCheck", to),
             KeyOf(t) \in owed => to = "exitCancel",
             UNCHANGED <<inRoom, inLobby, locals, lifecycle, active, closing, view, owed>>
      PROVE  HandInv'
  <2>1. Orderly(t, "exitCheck", to)
    BY DEF HandleLeave, Orderly, Handshake, Flushing, Serving, Attending
  <2>2. HandsOn(t, "exitCheck", to)
    BY <1>2 DEF HandsOn, Certain, Sending, SetterPlace, Wary
  <2> QED
    BY <1>2, <2>1, <2>2, WalkKeeps
<1> QED
  BY <1>1, <1>2, InRoomOwesNothing DEF HandleLeave

LEMMA DecideLeaveHands ==
    ASSUME HandInv, IInv', NEW t \in Thread, DecideLeave(t)
    PROVE  HandInv'
<1>1. PICK from, to : /\ Goto(t, from, to)
                      /\ KeyOf(t) \in owed => to # "off"
                      /\ \/ from = "roomCheck" /\ to \in {"off", "graceCheck"}
                         \/ from = "graceCheck" /\ to \in {"schedule", "leaveCancel"}
  BY InRoomOwesNothing DEF DecideLeave
<1>2. Orderly(t, from, to)
  BY <1>1 DEF DecideLeave, Orderly, Handshake, Flushing, Serving, Attending
<1>3. HandsOn(t, from, to)
  BY <1>1 DEF HandsOn, Certain, Sending, SetterPlace, Wary
<1> QED
  BY <1>1, <1>2, <1>3, WalkKeeps DEF DecideLeave

LEMMA ReadFailsHands ==
    ASSUME HandInv, IInv', NEW t \in Thread, ReadFails(t)
    PROVE  HandInv'
<1>1. Orderly(t, "reading", "disconnect") /\ HandsOn(t, "reading", "disconnect")
  BY DEF ReadFails, Orderly, HandsOn, Handshake, Flushing, Serving, Attending, Certain, Sending,
     SetterPlace, Wary
<1> QED
  BY <1>1, WalkKeeps DEF ReadFails

LEMMA LobbyOpensHands ==
    ASSUME HandInv, IInv', NEW t \in Thread, LobbyRequest(t) \/ LobbyConnect(t) \/ LobbyClose(t)
    PROVE  HandInv'
<1>1. PICK from, to : /\ Goto(t, from, to) /\ from \in {"off", "lobbyConnect", "open"}
                      /\ to \in {"lobbyConnect", "open", "off", "flush"}
  BY DEF LobbyRequest, LobbyConnect, LobbyClose
<1>2. /\ Orderly(t, from, to) /\ HandsOn(t, from, to) /\ to # "kickMark"
      /\ t[1] = "timer" /\ from \in {"wait", "clear"} => to = "clear"
  BY <1>1 DEF LobbyRequest, LobbyConnect, LobbyClose, Orderly, HandsOn, Handshake, Flushing,
     Serving, Attending, Certain, Sending, SetterPlace, Wary
<1>3. CASE LobbyRequest(t)
  BY <1>1, <1>2, <1>3, WalkKeeps DEF LobbyRequest
<1>4. CASE LobbyConnect(t) \/ LobbyClose(t)
  <2>1. inRoom' \subseteq inRoom /\ UNCHANGED <<locals, lifecycle>>
    BY <1>4 DEF LobbyConnect, LobbyClose, EnterLobby, ExitLobby
  <2>2. \A k \in owed' : k \notin Present' /\ k \in owed \cup Present
    BY <1>4, DeparturesSplit DEF LobbyConnect, LobbyClose, NoBroadcast
  <2>3. Moves(t, from, to)
    BY <1>1, GotoIs
  <2> QED
    BY <1>2, <2>1, <2>2, <2>3, QuietMove DEF locals, lifecycle, Notes
<1> QED
  BY <1>3, <1>4

\* "leave" raises the left flag and takes the announcement on itself.
LEMMA LeaveCommandHands ==
    ASSUME HandInv, IInv', NEW t \in Thread, LeaveCommand(t)
    PROVE  HandInv'
<1>1. /\ Goto(t, "reading", "exitDisconnect") /\ t[1] = "ws"
      /\ leftUsers' = leftUsers \cup {KeyOf(t)}
      /\ UNCHANGED <<inRoom, inLobby, locals, kickedUsers, pendingLeaves, active, closing, view, owed>>
  BY DEF LeaveCommand
<1>2. Moves(t, "reading", "exitDisconnect")
  BY <1>1, GotoIs
<1>3. Orderly(t, "reading", "exitDisconnect")
  BY DEF Orderly, Handshake, Flushing, Serving, Attending
<1>4. \A s \in Thread : /\ KeyOf(s)' = KeyOf(s) /\ U(s)' = U(s)
                        /\ Registered(s[2])' = Registered(s[2])
  BY <1>1 DEF KeyOf, U, R, Registered, locals
<1>k. PICK key : key = KeyOf(t)
  OBVIOUS
<1>5. Sure(t, key)' /\ Setter(t, key)'
  BY <1>1, <1>2, <1>4, <1>k DEF Sure, Setter, Moves, Certain, SetterPlace
<1>6. ASSUME NEW k, NEW s \in Thread
      PROVE  /\ Sure(s, k) => Sure(s, k)'
             /\ Unsure(s, k) \/ Setter(s, k) => Unsure(s, k)' \/ Sure(s, k)'
             /\ Setter(s, k) => Setter(s, k)'
  <2>1. CASE s # t
    <3>1. Sure(s, k) => Sure(s, k)'
      BY <1>1, <1>2, <1>4, <2>1 DEF Sure, Moves, locals
    <3>2. (Unsure(s, k) => Unsure(s, k)') /\ (Setter(s, k) => Setter(s, k)')
      BY <1>1, <1>2, <1>4, <2>1 DEF Unsure, Setter, Moves
    <3>3. Setter(s, k)' => Unsure(s, k)' \/ Sure(s, k)'
      BY DEF Unsure, Setter, Sure, SetterPlace, Wary, Certain
    <3> QED
      BY <3>1, <3>2, <3>3
  <2>2. CASE s = t
    BY <1>1, <1>2, <1>4, <1>k, <1>5, <2>2 DEF Sure, Unsure, Setter, Moves, locals, Certain, Sending,
       SetterPlace, Wary
  <2> QED
    BY <2>1, <2>2
<1>7. OwedInv'
  <2>1. \A k \in owed' : k \notin Present' /\ k \in owed \cup Present
    BY <1>1, SameDepartures
  <2>2. \A k \in leftUsers' : k \in leftUsers \/ \E r \in Thread : Sure(r, k)'
    BY <1>1, <1>k, <1>5
  <2>3. \A s \in Thread : s[1] = "ws" /\ pc[s] \in Serving =>
               /\ target'[s[2]] = target[s[2]]
               /\ pc'[s] \in Serving \cup {"exitCheck", "kickedCheck"}
               /\ pc[s] = "exitDisconnect" => pc'[s] \in Certain
    BY <1>1, <1>2 DEF Moves, Serving, Certain, locals
  <2> QED
    BY <1>1, <1>6, <2>1, <2>2, <2>3, OwedStep DEF locals
<1>8. LeftInv'
  BY <1>1, <1>k, <1>5, <1>6 DEF HandInv, LeftInv, locals
<1>9. FreshInv' /\ TodoInv' /\ PendingHasTimer'
  BY <1>1, <1>2, <1>3, FreshStep, TodoStep, TimerFrame DEF locals
<1>10. KickInv'
  BY <1>1, <1>2, KickFrame DEF HandInv, KickInv, locals
<1> QED
  BY <1>7, <1>8, <1>9, <1>10 DEF HandInv

\* Consuming the left flag leaves the other handlers nothing to be silenced by.
LEMMA LeftFlagHands ==
    ASSUME HandInv, IInv', NEW t \in Thread, t[1] = "ws", Goto(t, "leftCheck", "off"),
           KeyOf(t) \in leftUsers, leftUsers' = leftUsers \ {KeyOf(t)},
           UNCHANGED <<inRoom, inLobby, locals, kickedUsers, pendingLeaves, owed>>
    PROVE  HandInv'
<1>1. Moves(t, "leftCheck", "off")
  BY GotoIs
<1>2. Orderly(t, "leftCheck", "off")
  BY DEF Orderly, Handshake, Flushing, Serving, Attending
<1>3. \A s \in Thread : /\ KeyOf(s)' = KeyOf(s) /\ U(s)' = U(s)
                        /\ Registered(s[2])' = Registered(s[2])
  BY DEF KeyOf, U, R, Registered, locals
<1>4. ASSUME NEW k, NEW s \in Thread
      PROVE  /\ Sure(s, k) => Sure(s, k)'
             /\ s # t /\ Unsure(s, k) => Unsure(s, k)'
             /\ k # KeyOf(t) /\ Unsure(s, k) => Unsure(s, k)'
             /\ k # KeyOf(t) /\ Setter(s, k) => Setter(s, k)'
  <2>1. CASE s # t
    BY <1>1, <1>3, <2>1 DEF Sure, Unsure, Setter, Moves, locals
  <2>2. CASE s = t
    BY <1>1, <1>3, <2>2 DEF Sure, Unsure, Setter, Moves, locals, Certain, Sending
  <2> QED
    BY <2>1, <2>2
<1>5. OwedInv'
  <2> SUFFICES ASSUME NEW k \in owed
               PROVE  k \notin Present' /\ (k \in kicked \/ Held(k)')
    BY DEF OwedInv, locals
  <2>1. k \notin Present /\ (k \in kicked \/ Held(k))
    BY DEF HandInv, OwedInv
  <2>2. k \notin Present'
    BY <2>1 DEF Present
  <2>3. CASE \E s \in Thread : Sure(s, k)
    BY <1>4, <2>2, <2>3 DEF Held
  <2>4. CASE \E s \in Thread : /\ Unsure(s, k)
                               /\ k \in leftUsers => \E r \in Thread : r # s /\ Unsure(r, k)
    <3>1. PICK s \in Thread : /\ Unsure(s, k)
                              /\ k \in leftUsers => \E r \in Thread : r # s /\ Unsure(r, k)
      BY <2>4
    <3>2. CASE k = KeyOf(t)
      <4>1. PICK r \in Thread : r # s /\ Unsure(r, k)
        BY <3>1, <3>2
      <4>2. k \notin leftUsers'
        BY <3>2
      <4>3. Unsure(r, k)' \/ Unsure(s, k)'
        BY <1>4, <3>1, <4>1
      <4> QED
        BY <2>2, <4>2, <4>3 DEF Held
    <3>3. CASE k # KeyOf(t)
      <4>1. Unsure(s, k)' /\ (k \in leftUsers' => \E r \in Thread : r # s /\ Unsure(r, k)')
        BY <1>4, <3>1, <3>3
      <4> QED
        BY <2>2, <4>1 DEF Held
    <3> QED
      BY <3>2, <3>3
  <2> QED
    BY <2>1, <2>2, <2>3, <2>4 DEF Held
<1>6. LeftInv'
  BY <1>4 DEF HandInv, LeftInv, locals
<1>7. FreshInv' /\ TodoInv' /\ PendingHasTimer'
  BY <1>1, <1>2, FreshStep, TodoStep, TimerFrame DEF locals
<1>8. KickInv'
  BY <1>1, KickFrame DEF HandInv, KickInv, locals
<1> QED
  BY <1>5, <1>6, <1>7, <1>8 DEF HandInv

LEMMA TestFlagsHands ==
    ASSUME HandInv, IInv', NEW t \in Thread, TestFlags(t)
    PROVE  HandInv'
<1>1. /\ t[1] = "ws"
      /\ UNCHANGED <<inRoom, inLobby, locals, pendingLeaves, active, closing, view, owed>>
  BY DEF TestFlags
<1>2. CASE /\ KeyOf(t) \in kickedUsers /\ Goto(t, "kickedCheck", "off")
           /\ kickedUsers' = kickedUsers \ {KeyOf(t)} /\ UNCHANGED leftUsers
  <2>1. Moves(t, "kickedCheck", "off") /\ Orderly(t, "kickedCheck", "off")
    BY <1>2, GotoIs DEF Orderly, Handshake, Flushing, Serving, Attending
  <2>2. KeyOf(t) \in kicked' /\ kicked \subseteq kicked' /\ kickedUsers' \subseteq kicked'
    BY <1>1, <1>2 DEF HandInv, KickInv, locals
  <2>3. HandsOn(t, "kickedCheck", "off")
    BY <2>2 DEF HandsOn
  <2>4. \A k \in owed' : k \notin Present' /\ k \in owed \cup Present
    BY <1>1, SameDepartures
  <2>5. OwedInv' /\ LeftInv'
    BY <1>1, <1>2, <2>1, <2>2, <2>3, <2>4, MoveOwed DEF locals
  <2>6. FreshInv' /\ TodoInv' /\ PendingHasTimer' /\ KickInv'
    BY <1>1, <2>1, <2>2, FreshStep, TodoStep, TimerFrame, KickFrame DEF locals
  <2> QED
    BY <2>5, <2>6 DEF HandInv
<1>3. CASE Goto(t, "kickedCheck", "leftCheck") /\ UNCHANGED <<kickedUsers, leftUsers>>
  <2>1. Orderly(t, "kickedCheck", "leftCheck") /\ HandsOn(t, "kickedCheck", "leftCheck")
    BY DEF Orderly, Handshake, Flushing, Serving, Attending, HandsOn, Certain, Sending, SetterPlace,
       Wary
  <2> QED
    BY <1>1, <1>3, <2>1, WalkKeeps DEF lifecycle
<1>4. CASE /\ KeyOf(t) \in leftUsers /\ Goto(t, "leftCheck", "off")
           /\ leftUsers' = leftUsers \ {KeyOf(t)} /\ UNCHANGED kickedUsers
  BY <1>1, <1>4, LeftFlagHands
<1>5. CASE /\ KeyOf(t) \notin leftUsers /\ Goto(t, "leftCheck", "roomCheck")
           /\ UNCHANGED <<kickedUsers, leftUsers>>
  <2>1. Orderly(t, "leftCheck", "roomCheck")
    BY DEF Orderly, Handshake, Flushing, Serving, Attending
  <2>2. HandsOn(t, "leftCheck", "roomCheck")
    BY <1>5 DEF HandsOn, Certain
  <2> QED
    BY <1>1, <1>5, <2>1, <2>2, WalkKeeps DEF lifecycle
<1> QED
  BY <1>2, <1>3, <1>4, <1>5 DEF TestFlags

\* The departure passes from the handler to the timer it starts.
LEMMA ScheduleHands ==
    ASSUME HandInv, IInv', NEW t \in Thread, ScheduleLeave(t)
    PROVE  HandInv'
<1> DEFINE tm == <<"timer", t[2]>>
<1>1. /\ t[1] = "ws" /\ t[2] \in RoomSlot /\ t = <<"ws", t[2]>> /\ pc[t] = "schedule"
      /\ pendingLeaves' = [pendingLeaves EXCEPT ![KeyOf(t)] = t[2]] /\ KeyOf(t) \in Key
      /\ UNCHANGED <<inRoom, inLobby, locals, kickedUsers, leftUsers, active, closing, view, owed>>
  BY ThreadParts, ThreadTyped DEF ScheduleLeave, HandInv, IInv
<1>2. tm \in Thread /\ tm[1] = "timer" /\ tm[2] = t[2] /\ pc[tm] = "off"
  BY <1>1, ThreadOf DEF HandInv, FreshInv
<1>3. \A s \in Thread : pc'[s] = IF s = t THEN "off" ELSE IF s = tm THEN "wait" ELSE pc[s]
  <2>1. tm # t
    BY <1>1, <1>2
  <2> QED
    BY <1>2, <2>1 DEF ScheduleLeave, HandInv, IInv, OwnTypes
<1> HIDE DEF tm
<1>4. \A s \in Thread : /\ KeyOf(s)' = KeyOf(s) /\ U(s)' = U(s)
                        /\ Registered(s[2])' = Registered(s[2])
  BY <1>1 DEF KeyOf, U, R, Registered, locals
<1>5. KeyOf(tm) = KeyOf(t)
  BY <1>2 DEF KeyOf, U, R
<1>6. ASSUME NEW k, NEW s \in Thread
      PROVE  /\ Sure(s, k) => \E r \in Thread : Sure(r, k)'
             /\ Unsure(s, k) \/ Setter(s, k) => Unsure(s, k)' \/ Sure(s, k)'
             /\ Setter(s, k) => Setter(s, k)'
  <2>1. CASE s # t /\ s # tm
    <3>1. Sure(s, k) => Sure(s, k)'
      BY <1>1, <1>3, <1>4, <2>1 DEF Sure, locals
    <3>2. (Unsure(s, k) => Unsure(s, k)') /\ (Setter(s, k) => Setter(s, k)')
      BY <1>3, <1>4, <2>1 DEF Unsure, Setter
    <3>3. Setter(s, k)' => Unsure(s, k)' \/ Sure(s, k)'
      BY DEF Unsure, Setter, Sure, SetterPlace, Wary, Certain
    <3> QED
      BY <3>1, <3>2, <3>3
  <2>2. CASE s = t
    <3>1. ASSUME Sure(s, k) PROVE Sure(tm, k)'
      BY <1>1, <1>2, <1>3, <1>4, <1>5, <2>2, <3>1 DEF Sure, Certain
    <3>2. ~Unsure(s, k) /\ ~Setter(s, k)
      BY <1>1, <2>2 DEF Unsure, Setter, SetterPlace, Wary, Attending
    <3> QED
      BY <1>2, <3>1, <3>2
  <2>3. CASE s = tm
    BY <1>2, <2>3 DEF Sure, Unsure, Setter, Certain, Sending
  <2> QED
    BY <2>1, <2>2, <2>3
<1>7. OwedInv'
  <2>1. \A k \in owed' : k \notin Present' /\ k \in owed \cup Present
    BY <1>1, SameDepartures
  <2>2. \A s \in Thread : s[1] = "ws" /\ pc[s] \in Serving => pc'[s] = pc[s]
    BY <1>1, <1>2, <1>3 DEF Serving
  <2> QED
    BY <1>1, <1>6, <2>1, <2>2, OwedStep DEF locals, Certain
<1>8. LeftInv'
  BY <1>1, <1>6 DEF HandInv, LeftInv, locals
<1>9. FreshInv'
  <2> SUFFICES ASSUME NEW c \in RoomSlot
               PROVE  /\ pc'[<<"ws", c>>] # "off" => pc'[<<"timer", c>>] = "off"
                      /\ pc'[<<"ws", c>>] \in Handshake => pc'[<<"join", c>>] = "off"
    BY DEF FreshInv
  <2>1. <<"ws", c>> \in Thread /\ <<"join", c>> \in Thread /\ <<"timer", c>> \in Thread
    BY ThreadOf
  <2>2. /\ pc[<<"ws", c>>] # "off" => pc[<<"timer", c>>] = "off"
        /\ pc[<<"ws", c>>] \in Handshake => pc[<<"join", c>>] = "off"
    BY DEF HandInv, FreshInv
  <2>3. CASE c = t[2]
    BY <1>1, <1>3, <2>1, <2>3 DEF Handshake
  <2>4. CASE c # t[2]
    BY <1>1, <1>2, <1>3, <2>1, <2>2, <2>4
  <2> QED
    BY <2>3, <2>4
<1>10. TodoInv'
  BY <1>1, <1>2, <1>3, ThreadOf DEF HandInv, TodoInv, locals
<1>11. KickInv'
  BY <1>1, <1>2, <1>3, ThreadOf DEF HandInv, KickInv, locals
<1>12. PendingHasTimer'
  <2> SUFFICES ASSUME NEW k \in Key, NEW p, p = pendingLeaves'[k], p # NoTimer
               PROVE  KeyOf(<<"timer", p>>)' = k /\ pc'[<<"timer", p>>] \in {"wait", "clear"}
    BY DEF PendingHasTimer
  <2>1. CASE k = KeyOf(t)
    <3>1. p = t[2] /\ <<"timer", p>> = tm
      BY <1>1, <2>1 DEF tm, HandInv, IInv, OwnTypes
    <3> QED
      BY <1>1, <1>2, <1>3, <1>4, <1>5, <2>1, <3>1
  <2>2. CASE k # KeyOf(t)
    <3>1. pendingLeaves[k] = p
      BY <1>1, <2>2 DEF HandInv, IInv, OwnTypes
    <3>2. KeyOf(<<"timer", p>>) = k /\ pc[<<"timer", p>>] \in {"wait", "clear"}
      BY <3>1 DEF HandInv, PendingHasTimer
    <3>3. <<"timer", p>> \in Thread
      BY <3>1, ThreadOf DEF HandInv, IInv, OwnTypes
    <3>4. pc'[<<"timer", p>>] = pc[<<"timer", p>>]
      BY <1>1, <1>2, <1>3, <3>2, <3>3
    <3> QED
      BY <1>4, <3>2, <3>3, <3>4
  <2> QED
    BY <2>1, <2>2
<1> QED
  BY <1>7, <1>8, <1>9, <1>10, <1>11, <1>12 DEF HandInv

LEMMA HandleDisconnectHands ==
    ASSUME HandInv, IInv', NEW t \in Thread, HandleDisconnect(t)
    PROVE  HandInv'
BY DisconnectHands, TestFlagsHands, DecideLeaveHands, ScheduleHands DEF HandleDisconnect

\* Each entry names its own timer, so a timer that clears its key clears no
\* other's.
LEMMA GraceTimerHands ==
    ASSUME HandInv, IInv', NEW t \in Thread, GraceTimer(t)
    PROVE  HandInv'
<1>1. t[1] = "timer" /\ t = <<"timer", t[2]>> /\ KeyOf(t) \in Key
      /\ UNCHANGED <<inRoom, inLobby, locals, kickedUsers, leftUsers, active, closing, view, owed>>
  BY ThreadParts, ThreadTyped DEF GraceTimer, HandInv, IInv
<1>2. ASSUME NEW from \in {"wait", "clear", "timerCheck"}, NEW to \in {"clear", "timerCheck", "off", "leaveCancel"},
             KeyOf(t) \in owed => to # "off"
      PROVE  Orderly(t, from, to) /\ HandsOn(t, from, to)
  BY <1>1, <1>2 DEF Orderly, HandsOn, Handshake, Flushing, Certain, Sending
<1>3. CASE Goto(t, "wait", "clear") /\ UNCHANGED pendingLeaves
  BY <1>1, <1>2, <1>3, WalkKeeps DEF lifecycle
<1>4. CASE /\ Goto(t, "timerCheck", IF InRoom(R(t), U(t)) THEN "off" ELSE "leaveCancel")
           /\ UNCHANGED pendingLeaves
  <2>1. PICK to : /\ to = "off" \/ to = "leaveCancel"
                  /\ Goto(t, "timerCheck", to)
                  /\ KeyOf(t) \in owed => to # "off"
    BY <1>4, InRoomOwesNothing
  <2>2. UNCHANGED <<inRoom, inLobby, locals, lifecycle, owed>>
    BY <1>1, <1>4 DEF lifecycle
  <2>3. Orderly(t, "timerCheck", to) /\ HandsOn(t, "timerCheck", to)
    BY <1>2, <2>1
  <2> QED
    BY <2>1, <2>2, <2>3, WalkKeeps
<1>5. CASE Goto(t, "clear", "timerCheck") /\ ClearPending({KeyOf(t)})
  <2>1. Moves(t, "clear", "timerCheck")
    BY <1>5, GotoIs
  <2>2. Orderly(t, "clear", "timerCheck") /\ HandsOn(t, "clear", "timerCheck")
    BY <1>2
  <2>3. OwedInv' /\ LeftInv'
    BY <1>1, <2>1, <2>2, MoveOwed, SameDepartures DEF locals
  <2>4. FreshInv' /\ TodoInv'
    BY <1>1, <2>1, <2>2, FreshStep, TodoStep DEF locals
  <2>5. KickInv'
    BY <1>1, <2>1, KickFrame DEF HandInv, KickInv, locals
  <2>6. PendingHasTimer'
    <3> SUFFICES ASSUME NEW k \in Key, NEW p, p = pendingLeaves'[k], p # NoTimer
                 PROVE  KeyOf(<<"timer", p>>)' = k /\ pc'[<<"timer", p>>] \in {"wait", "clear"}
      BY DEF PendingHasTimer
    <3>1. k # KeyOf(t) /\ pendingLeaves[k] = p
      BY <1>5 DEF ClearPending
    <3>2. KeyOf(<<"timer", p>>) = k /\ pc[<<"timer", p>>] \in {"wait", "clear"}
      BY <3>1 DEF HandInv, PendingHasTimer
    <3>3. <<"timer", p>> \in Thread /\ <<"timer", p>> # t
      BY <3>1, <3>2, ThreadOf DEF HandInv, IInv, OwnTypes
    <3>4. KeyOf(<<"timer", p>>)' = KeyOf(<<"timer", p>>)
      BY <1>1 DEF KeyOf, R, U, locals
    <3> QED
      BY <2>1, <3>2, <3>3, <3>4 DEF Moves
  <2> QED
    BY <2>3, <2>4, <2>5, <2>6 DEF HandInv
<1> QED
  BY <1>3, <1>4, <1>5 DEF GraceTimer

LEMMA KickCommandHands ==
    ASSUME HandInv, IInv', NEW t \in Thread, NEW v \in User, KickCommand(t, v)
    PROVE  HandInv'
<1>1. /\ t[1] = "ws" /\ t[2] \in RoomSlot /\ t[2] \in Conn
      /\ kicked' = kicked \cup {<<R(t), v>>} /\ victim' = [victim EXCEPT ![t[2]] = v]
      /\ UNCHANGED <<inRoom, inLobby, target, list, todo, lifecycle, active, closing, view, owed>>
  BY ThreadParts DEF KickCommand
<1>2. Moves(t, "reading", "kickMark")
  BY GotoIs DEF KickCommand
<1>3. Orderly(t, "reading", "kickMark") /\ HandsOn(t, "reading", "kickMark")
  BY DEF Orderly, HandsOn, Handshake, Flushing, Serving, Attending, Certain, Sending, SetterPlace,
     Wary
<1>4. \A k \in owed' : k \notin Present' /\ k \in owed \cup Present
  BY <1>1, SameDepartures
<1>5. OwedInv' /\ LeftInv'
  BY <1>1, <1>2, <1>3, <1>4, MoveOwed DEF lifecycle
<1>6. FreshInv' /\ TodoInv' /\ PendingHasTimer'
  BY <1>1, <1>2, <1>3, FreshStep, TodoStep, TimerFrame DEF lifecycle
<1>7. KickInv'
  <2>1. kickedUsers' \subseteq kicked'
    BY <1>1 DEF HandInv, KickInv, lifecycle
  <2>2. ASSUME NEW c \in RoomSlot, pc'[<<"ws", c>>] = "kickMark"
        PROVE  <<target'[c], victim'[c]>> \in kicked'
    <3>1. CASE c = t[2]
      BY <1>1, <3>1 DEF HandInv, IInv, OwnTypes, R
    <3>2. CASE c # t[2]
      <4>1. <<"ws", c>> \in Thread /\ <<"ws", c>>[2] # t[2]
        BY <3>2, ThreadOf
      <4>2. pc[<<"ws", c>>] = "kickMark"
        BY <1>2, <2>2, <4>1 DEF Moves
      <4>3. victim'[c] = victim[c]
        BY <1>1, <3>2 DEF HandInv, IInv, OwnTypes
      <4> QED
        BY <1>1, <4>2, <4>3 DEF HandInv, KickInv
    <3> QED
      BY <3>1, <3>2
  <2> QED
    BY <2>1, <2>2 DEF KickInv
<1> QED
  BY <1>5, <1>6, <1>7 DEF HandInv

LEMMA HandleKickHands ==
    ASSUME HandInv, IInv', NEW t \in Thread, HandleKick(t)
    PROVE  HandInv'
<1>1. t[1] = "ws" /\ t[2] \in RoomSlot /\ t = <<"ws", t[2]>>
  BY ThreadParts DEF HandleKick
<1>2. ASSUME NEW from \in {"kickMark", "kickClose"}, NEW to \in {"kickClose", "kickRead"}
      PROVE  Orderly(t, from, to) /\ HandsOn(t, from, to)
  BY DEF Orderly, HandsOn, Handshake, Flushing, Serving, Attending, Certain, Sending, SetterPlace,
     Wary
<1>3. CASE /\ Goto(t, "kickMark", "kickClose")
           /\ kickedUsers' = kickedUsers \cup {<<R(t), victim[t[2]]>>}
           /\ UNCHANGED <<inRoom, inLobby, locals, leftUsers, pendingLeaves, active, closing, view,
                         owed>>
  <2>1. Moves(t, "kickMark", "kickClose")
    BY <1>3, GotoIs
  <2>2. Orderly(t, "kickMark", "kickClose") /\ HandsOn(t, "kickMark", "kickClose")
    BY <1>2
  <2>3. OwedInv' /\ LeftInv'
    BY <1>3, <2>1, <2>2, SameDepartures, MoveOwed DEF locals
  <2>4. FreshInv' /\ TodoInv' /\ PendingHasTimer'
    BY <1>1, <1>3, <2>1, <2>2, FreshStep, TodoStep, TimerFrame DEF locals
  <2>5. <<R(t), victim[t[2]]>> \in kicked
    BY <1>1, <2>1 DEF HandInv, KickInv, Moves, R
  <2>6. kickedUsers' \subseteq kicked' /\ kicked \subseteq kicked' /\ UNCHANGED <<target, victim>>
    BY <1>3, <2>5 DEF HandInv, KickInv, locals
  <2>7. KickInv'
    BY <2>1, <2>6, KickFrame
  <2> QED
    BY <2>3, <2>4, <2>7 DEF HandInv
<1>4. CASE /\ Goto(t, "kickClose", "kickRead")
           /\ Drop(R(t), {e \in Members(R(t)) : e.user = victim[t[2]]})
           /\ NoBroadcast
           /\ UNCHANGED <<locals, lifecycle, active, closing>>
  <2>1. Moves(t, "kickClose", "kickRead")
    BY <1>4, GotoIs
  <2>2. Orderly(t, "kickClose", "kickRead") /\ HandsOn(t, "kickClose", "kickRead")
    BY <1>2
  <2>3. inRoom' \subseteq inRoom /\ \A k \in owed' : k \notin Present' /\ k \in owed \cup Present
    BY <1>4, DeparturesSplit DEF Drop, NoBroadcast
  <2> QED
    BY <1>1, <1>4, <2>1, <2>2, <2>3, QuietMove DEF locals, lifecycle, Notes
<1>5. <<"kickRead", "kickSend">> \in ReadMoves /\ <<"kickSend", "reading">> \in SendMoves
  BY DEF ReadMoves, SendMoves
<1> QED
  BY <1>3, <1>4, <1>5, ReadHands, SendHands DEF HandleKick

\* Entries go and no thread moves.
LEMMA RoomsHands ==
    ASSUME HandInv, IInv', NEW r \in Room, BroadcastMessage(r) \/ CloseRoom(r) \/ OpenRoom(r)
    PROVE  HandInv'
<1>1. inRoom' \subseteq inRoom /\ UNCHANGED <<pc, locals, lifecycle>>
  BY DEF BroadcastMessage, CloseRoom, OpenRoom, Drop
<1>2. \A k \in owed' : k \notin Present' /\ k \in owed \cup Present
  <2>1. NoBroadcast \/ UNCHANGED <<inRoom, owed>>
    BY DEF BroadcastMessage, CloseRoom, OpenRoom
  <2> QED
    BY <2>1, SameDepartures, DeparturesSplit DEF NoBroadcast
<1>3. \A s \in Thread : KeyOf(s)' = KeyOf(s) /\ U(s)' = U(s)
  BY <1>1 DEF KeyOf, U, R, locals
<1>4. \A s \in Thread : s[1] = "ws" /\ ~Registered(s[2]) => ~Registered(s[2])'
  BY <1>1, ThreadParts, StaysUnregistered
<1>5. ASSUME NEW k, NEW s \in Thread
      PROVE  /\ Sure(s, k) => Sure(s, k)'
             /\ Unsure(s, k) \/ Setter(s, k) => Unsure(s, k)' \/ Sure(s, k)'
             /\ Setter(s, k) => Setter(s, k)'
  <2>1. Sure(s, k) => Sure(s, k)'
    BY <1>1, <1>3 DEF Sure, locals
  <2>2. (Unsure(s, k) => Unsure(s, k)') /\ (Setter(s, k) => Setter(s, k)')
    BY <1>1, <1>3, <1>4 DEF Unsure, Setter
  <2>3. Setter(s, k)' => Unsure(s, k)' \/ Sure(s, k)'
    BY DEF Unsure, Setter, Sure, SetterPlace, Wary, Certain
  <2> QED
    BY <2>1, <2>2, <2>3
<1>6. OwedInv'
  BY <1>1, <1>2, <1>5, OwedStep DEF locals, lifecycle, Certain
<1>7. LeftInv'
  BY <1>1, <1>5 DEF HandInv, LeftInv, locals, lifecycle
<1>8. KickInv' /\ TodoInv' /\ FreshInv'
  BY <1>1 DEF HandInv, KickInv, TodoInv, FreshInv, locals, lifecycle
<1>9. PendingHasTimer'
  BY <1>1 DEF HandInv, PendingHasTimer, KeyOf, U, R, locals, lifecycle
<1> QED
  BY <1>6, <1>7, <1>8, <1>9 DEF HandInv

\* A slot is reused only when nothing of it runs any more.
LEMMA RequestHands ==
    ASSUME HandInv, IInv', NEW t \in Thread, NEW r \in Room, Request(t, r)
    PROVE  HandInv'
<1>1. /\ t[1] = "ws" /\ t[2] \in RoomSlot /\ t = <<"ws", t[2]>> /\ pc[t] = "off"
      /\ pc[<<"join", t[2]>>] = "off" /\ pc[<<"timer", t[2]>>] = "off"
      /\ target' = [target EXCEPT ![t[2]] = r]
      /\ UNCHANGED <<inRoom, inLobby, victim, kicked, list, todo, lifecycle, active, closing, view, owed>>
  BY ThreadParts DEF Request, Goto
<1>2. \A s \in Thread : pc'[s] = IF s = t THEN "lobbyCheck" ELSE pc[s]
  BY GotoIs DEF Request, Moves
<1>3. \A s \in Thread : s[2] = t[2] => pc[s] = "off" /\ s[1] # "lobby" /\ pc'[s] \in {"off", "lobbyCheck"}
  <2> SUFFICES ASSUME NEW s \in Thread, s[2] = t[2]
               PROVE  pc[s] = "off" /\ s[1] # "lobby" /\ pc'[s] \in {"off", "lobbyCheck"}
    OBVIOUS
  <2>1. s \in {<<"ws", t[2]>>, <<"join", t[2]>>, <<"timer", t[2]>>} /\ s[1] # "lobby"
    BY <1>1, ThreadParts, ThreadOf
  <2> QED
    BY <1>1, <1>2, <2>1
<1>4. \A s \in Thread : s[2] # t[2] => /\ KeyOf(s)' = KeyOf(s) /\ pc'[s] = pc[s]
                                       /\ target'[s[2]] = target[s[2]]
  BY <1>1, <1>2, ThreadParts DEF KeyOf, U, R, HandInv, IInv, OwnTypes
<1>5. \A s \in Thread : Registered(s[2])' = Registered(s[2]) /\ U(s)' = U(s)
  BY <1>1 DEF Registered, U
<1>6. ASSUME NEW k, NEW s \in Thread
      PROVE  /\ Sure(s, k) => Sure(s, k)'
             /\ Unsure(s, k) => Unsure(s, k)'
             /\ Setter(s, k) => Setter(s, k)' /\ (Unsure(s, k)' \/ Sure(s, k)')
  <2>1. CASE s[2] = t[2]
    BY <1>3, <2>1 DEF Sure, Unsure, Setter, Certain, Sending, Wary, Attending, SetterPlace
  <2>2. CASE s[2] # t[2]
    <3>1. Sure(s, k) => Sure(s, k)'
      BY <1>1, <1>4, <1>5, <2>2 DEF Sure
    <3>2. (Unsure(s, k) => Unsure(s, k)') /\ (Setter(s, k) => Setter(s, k)')
      BY <1>4, <1>5, <2>2 DEF Unsure, Setter
    <3>3. Setter(s, k)' => Unsure(s, k)' \/ Sure(s, k)'
      BY DEF Unsure, Setter, Sure, SetterPlace, Wary, Certain
    <3> QED
      BY <3>1, <3>2, <3>3
  <2> QED
    BY <2>1, <2>2
<1>7. OwedInv'
  <2>1. \A k \in owed' : k \notin Present' /\ k \in owed \cup Present
    BY <1>1, SameDepartures
  <2>2. \A s \in Thread : s[1] = "ws" /\ pc[s] \in Serving =>
            pc'[s] = pc[s] /\ target'[s[2]] = target[s[2]]
    BY <1>3, <1>4 DEF Serving
  <2> QED
    BY <1>1, <1>6, <2>1, <2>2, OwedStep DEF lifecycle, Certain
<1>8. LeftInv'
  BY <1>1, <1>6 DEF HandInv, LeftInv, lifecycle
<1>9. KickInv'
  <2>1. ASSUME NEW c \in RoomSlot, pc'[<<"ws", c>>] = "kickMark"
        PROVE  <<target'[c], victim'[c]>> \in kicked'
    <3>1. <<"ws", c>> \in Thread /\ <<"ws", c>>[2] = c
      BY ThreadOf
    <3>2. c # t[2]
      BY <1>3, <2>1, <3>1
    <3> QED
      BY <1>1, <1>4, <2>1, <3>1, <3>2 DEF HandInv, KickInv
  <2> QED
    BY <1>1, <2>1 DEF HandInv, KickInv, lifecycle
<1>10. TodoInv'
  BY <1>1, <1>2, ThreadOf DEF HandInv, TodoInv
<1>11. FreshInv'
  <2> SUFFICES ASSUME NEW c \in RoomSlot
               PROVE  /\ pc'[<<"ws", c>>] # "off" => pc'[<<"timer", c>>] = "off"
                      /\ pc'[<<"ws", c>>] \in Handshake => pc'[<<"join", c>>] = "off"
    BY DEF FreshInv
  <2>1. <<"ws", c>> \in Thread /\ <<"join", c>> \in Thread /\ <<"timer", c>> \in Thread
    BY ThreadOf
  <2>2. CASE c = t[2]
    BY <1>1, <1>2, <2>1, <2>2
  <2>3. CASE c # t[2]
    BY <1>4, <2>1, <2>3 DEF HandInv, FreshInv
  <2> QED
    BY <2>2, <2>3
<1>12. PendingHasTimer'
  <2> SUFFICES ASSUME NEW k \in Key, NEW p, p = pendingLeaves[k], p # NoTimer
               PROVE  KeyOf(<<"timer", p>>)' = k /\ pc'[<<"timer", p>>] \in {"wait", "clear"}
    BY <1>1 DEF PendingHasTimer, lifecycle
  <2>1. KeyOf(<<"timer", p>>) = k /\ pc[<<"timer", p>>] \in {"wait", "clear"}
    BY DEF HandInv, PendingHasTimer
  <2>2. <<"timer", p>> \in Thread /\ <<"timer", p>>[2] = p
    BY ThreadOf DEF HandInv, IInv, OwnTypes
  <2>3. p # t[2]
    BY <1>1, <2>1
  <2> QED
    BY <1>4, <2>1, <2>2, <2>3
<1> QED
  BY <1>7, <1>8, <1>9, <1>10, <1>11, <1>12 DEF HandInv

\* Whoever connects is back: the room owes nobody that user's departure.
LEMMA ConnectHands ==
    ASSUME HandInv, IInv', NEW t \in Thread, Connect(t)
    PROVE  HandInv'
<1> DEFINE j == <<"join", t[2]>>
<1>1. /\ t[1] = "ws" /\ t[2] \in RoomSlot /\ t = <<"ws", t[2]>> /\ pc[t] = "connect"
      /\ UNCHANGED inLobby
      /\ inRoom' = inRoom \cup {[conn |-> t[2], user |-> U(t), room |-> R(t)]}
      /\ UNCHANGED <<locals, lifecycle, active, closing>>
  BY ThreadParts DEF Connect, Join
<1>2. j \in Thread /\ j[1] = "join" /\ j[2] = t[2] /\ pc[j] = "off"
  BY <1>1, ThreadOf DEF HandInv, FreshInv, Handshake
<1>3. \A s \in Thread : pc'[s] = IF s = t THEN "reading" ELSE IF s = j THEN "joinCancel" ELSE pc[s]
  <2>1. j # t
    BY <1>1, <1>2
  <2> QED
    BY <1>2, <2>1 DEF Connect, HandInv, IInv, OwnTypes
<1> HIDE DEF j
<1>4. \A s \in Thread : KeyOf(s)' = KeyOf(s) /\ U(s)' = U(s)
  BY <1>1 DEF KeyOf, U, R, locals
<1>5. \A s \in Thread : s[1] = "ws" /\ s # t => Registered(s[2])' = Registered(s[2])
  <2> SUFFICES ASSUME NEW s \in Thread, s[1] = "ws", s # t
               PROVE  Registered(s[2])' = Registered(s[2])
    OBVIOUS
  <2>1. s[2] # t[2]
    BY <1>1, ThreadParts
  <2> QED
    BY <1>1, <2>1 DEF Registered
<1>6. ASSUME NEW k, NEW s \in Thread
      PROVE  /\ Sure(s, k) => Sure(s, k)'
             /\ Unsure(s, k) => Unsure(s, k)'
             /\ Setter(s, k) => Setter(s, k)' /\ (Unsure(s, k)' \/ Sure(s, k)')
  <2>1. CASE s = t \/ s = j
    BY <1>1, <1>2, <2>1 DEF Sure, Unsure, Setter, Certain, Sending, Wary, Attending, SetterPlace
  <2>2. CASE s # t /\ s # j
    <3>1. Sure(s, k) => Sure(s, k)'
      BY <1>1, <1>3, <1>4, <2>2 DEF Sure, locals
    <3>2. (Unsure(s, k) => Unsure(s, k)') /\ (Setter(s, k) => Setter(s, k)')
      BY <1>3, <1>4, <1>5, <2>2 DEF Unsure, Setter
    <3>3. Setter(s, k)' => Unsure(s, k)' \/ Sure(s, k)'
      BY DEF Unsure, Setter, Sure, SetterPlace, Wary, Certain
    <3> QED
      BY <3>1, <3>2, <3>3
  <2> QED
    BY <2>1, <2>2
<1>7. OwedInv'
  <2>1. \A k \in owed' : k \notin Present' /\ k \in owed
    <3>1. Present \subseteq Present'
      BY <1>1 DEF Present
    <3> QED
      BY <3>1 DEF Connect, NoBroadcast, Departures
  <2>2. \A s \in Thread : s[1] = "ws" /\ pc[s] \in Serving => pc'[s] = pc[s]
    BY <1>1, <1>2, <1>3 DEF Serving
  <2> QED
    BY <1>1, <1>6, <2>1, <2>2, OwedStep DEF locals, lifecycle, Certain
<1>8. LeftInv'
  BY <1>1, <1>6 DEF HandInv, LeftInv, locals, lifecycle
<1>9. KickInv'
  BY <1>1, <1>2, <1>3, ThreadOf DEF HandInv, KickInv, locals, lifecycle
<1>10. TodoInv'
  BY <1>1, <1>2, <1>3, ThreadOf DEF HandInv, TodoInv, locals
<1>11. FreshInv'
  <2> SUFFICES ASSUME NEW c \in RoomSlot
               PROVE  /\ pc'[<<"ws", c>>] # "off" => pc'[<<"timer", c>>] = "off"
                      /\ pc'[<<"ws", c>>] \in Handshake => pc'[<<"join", c>>] = "off"
    BY DEF FreshInv
  <2>1. <<"ws", c>> \in Thread /\ <<"join", c>> \in Thread /\ <<"timer", c>> \in Thread
    BY ThreadOf
  <2>2. /\ pc[<<"ws", c>>] # "off" => pc[<<"timer", c>>] = "off"
        /\ pc[<<"ws", c>>] \in Handshake => pc[<<"join", c>>] = "off"
    BY DEF HandInv, FreshInv
  <2>3. CASE c = t[2]
    BY <1>1, <1>2, <1>3, <2>1, <2>2, <2>3 DEF Handshake
  <2>4. CASE c # t[2]
    BY <1>1, <1>2, <1>3, <2>1, <2>2, <2>4
  <2> QED
    BY <2>3, <2>4
<1>12. PendingHasTimer'
  <2> SUFFICES ASSUME NEW k \in Key, NEW p, p = pendingLeaves[k], p # NoTimer
               PROVE  KeyOf(<<"timer", p>>)' = k /\ pc'[<<"timer", p>>] \in {"wait", "clear"}
    BY <1>1 DEF PendingHasTimer, lifecycle
  <2>1. KeyOf(<<"timer", p>>) = k /\ pc[<<"timer", p>>] \in {"wait", "clear"}
    BY DEF HandInv, PendingHasTimer
  <2>2. <<"timer", p>> \in Thread
    BY ThreadOf DEF HandInv, IInv, OwnTypes
  <2> QED
    BY <1>1, <1>2, <1>3, <1>4, <2>1, <2>2
<1> QED
  BY <1>7, <1>8, <1>9, <1>10, <1>11, <1>12 DEF HandInv

\* The rooms of the cancelled timers are the ones the logout announces next.
LEMMA DrainHands ==
    ASSUME HandInv, IInv', NEW t \in Thread, DrainPending(t)
    PROVE  HandInv'
<1>1. t[1] = "lobby" /\ t[2] \in LobbySlot /\ t = <<"lobby", t[2]>>
  BY ThreadParts DEF DrainPending
<1>2. PICK keys \in SUBSET Key :
         /\ \A k \in Key : k \in keys <=> (k[2] = U(t) /\ pendingLeaves[k] # NoTimer)
         /\ pc[t] = "flush" /\ pc' = [Cancelled(keys, pc) EXCEPT ![t] = "flushNext"]
         /\ ClearPending(keys)
         /\ todo' = [todo EXCEPT ![t[2]] = {k[1] : k \in keys}]
  BY DEF DrainPending
<1>3. UNCHANGED <<inRoom, inLobby, target, victim, kicked, list, kickedUsers, leftUsers,
                  active, closing, view, owed>>
  BY DEF DrainPending
<1>4. \A s \in Thread : KeyOf(s)' = KeyOf(s) /\ U(s)' = U(s) /\ Registered(s[2])' = Registered(s[2])
  BY <1>3 DEF KeyOf, U, R, Registered
<1>5. /\ \A s \in Thread : s # t =>
            \/ pc'[s] = pc[s]
            \/ s[1] = "timer" /\ pc[s] = "wait" /\ pc'[s] = "off" /\ KeyOf(s) \in keys
      /\ PendingHasTimer' /\ pc'[t] = "flushNext"
  <2>1. PICK to : /\ pc[t] \notin {"wait", "clear"} /\ ClearPending(keys) /\ to = "flushNext"
                  /\ pc' = [Cancelled(keys, pc) EXCEPT ![t] = to] /\ keys \in SUBSET Key
    BY <1>2
  <2>2. \A s \in Thread : s # t =>
            \/ pc'[s] = pc[s]
            \/ s[1] = "timer" /\ pc[s] = "wait" /\ pc'[s] = "off" /\ KeyOf(s) \in keys
    BY <2>1, CancelledOthers, Zenon
  <2>3. pc'[t] = to
    BY <2>1 DEF Cancelled
  <2>4. PendingHasTimer'
    BY <1>4, <2>1, <2>2, CancelledTimers
  <2> QED
    BY <2>1, <2>2, <2>3, <2>4
<1>6. /\ todo[t[2]] = {} /\ todo'[t[2]] = {k[1] : k \in keys}
      /\ \A c \in LobbySlot : c # t[2] => todo'[c] = todo[c]
  BY <1>1, <1>2 DEF HandInv, IInv, OwnTypes, TodoInv
<1>7. ASSUME NEW k, NEW s \in Thread, Sure(s, k)
      PROVE  \E r \in Thread : Sure(r, k)'
  <2>1. CASE s = t
    BY <1>2, <1>6, <1>7, <2>1 DEF Sure, Certain, Sending
  <2>2. CASE s # t /\ pc'[s] = pc[s]
    <3>1. s[1] = "lobby" => todo'[s[2]] = todo[s[2]]
      BY <1>1, <1>6, <2>2, ThreadParts
    <3> QED
      BY <1>3, <1>4, <1>7, <2>2, <3>1 DEF Sure
  <2>3. CASE s[1] = "timer" /\ KeyOf(s) \in keys
    <3>1. k \in keys /\ k \in Key
      BY <1>7, <2>3 DEF Sure
    <3>2. k[2] = U(t) /\ k[1] \in todo'[t[2]]
      BY <1>2, <1>6, <3>1
    <3> QED
      BY <1>1, <1>4, <3>2 DEF Sure
  <2> QED
    BY <1>5, <2>1, <2>2, <2>3
<1>8. ASSUME NEW k, NEW s \in Thread
      PROVE  /\ Unsure(s, k) => Unsure(s, k)'
             /\ Setter(s, k) => Setter(s, k)' /\ (Unsure(s, k)' \/ Sure(s, k)')
  <2>1. ASSUME s[1] = "ws" PROVE pc'[s] = pc[s]
    BY <1>1, <1>5, <2>1
  <2>2. (Unsure(s, k) => Unsure(s, k)') /\ (Setter(s, k) => Setter(s, k)')
    BY <1>4, <2>1 DEF Unsure, Setter
  <2>3. Setter(s, k)' => Unsure(s, k)' \/ Sure(s, k)'
    BY DEF Unsure, Setter, Sure, SetterPlace, Wary, Certain
  <2> QED
    BY <2>2, <2>3
<1>9. OwedInv'
  <2>1. \A k \in owed' : k \notin Present' /\ k \in owed \cup Present
    BY <1>3, SameDepartures
  <2>2. \A s \in Thread : s[1] = "ws" => pc'[s] = pc[s]
    BY <1>1, <1>5
  <2> QED
    BY <1>3, <1>7, <1>8, <2>1, <2>2, OwedStep DEF Certain
<1>10. LeftInv'
  BY <1>3, <1>8 DEF HandInv, LeftInv
<1>11. KickInv'
  BY <1>1, <1>3, <1>5, ThreadOf DEF HandInv, KickInv
<1>12. TodoInv'
  <2> SUFFICES ASSUME NEW c \in LobbySlot, todo'[c] # {}
               PROVE  pc'[<<"lobby", c>>] \in Flushing
    BY DEF TodoInv, Flushing
  <2>1. <<"lobby", c>> \in Thread /\ <<"lobby", c>>[1] = "lobby"
    BY ThreadOf
  <2>2. CASE c = t[2]
    BY <1>1, <1>5, <2>2 DEF Flushing
  <2>3. CASE c # t[2]
    <3>1. pc[<<"lobby", c>>] \in Flushing
      BY <1>6, <2>3 DEF HandInv, TodoInv, Flushing
    <3> QED
      BY <1>1, <1>5, <2>1, <2>3, <3>1
  <2> QED
    BY <2>2, <2>3
<1>13. FreshInv'
  <2>1. \A s \in Thread : /\ s[1] = "timer" /\ pc[s] = "off" => pc'[s] = "off"
                          /\ s[1] \in {"ws", "join"} => pc'[s] = pc[s]
    BY <1>1, <1>5
  <2> QED
    BY <2>1, ThreadOf DEF HandInv, FreshInv
<1> QED
  BY <1>5, <1>9, <1>10, <1>11, <1>12, <1>13 DEF HandInv

LEMMA NextFlushHands ==
    ASSUME HandInv, IInv', NEW t \in Thread, NextFlush(t)
    PROVE  HandInv'
<1>1. /\ t[1] = "lobby" /\ t[2] \in LobbySlot /\ t[2] \in Conn /\ t = <<"lobby", t[2]>>
      /\ UNCHANGED <<inRoom, inLobby, victim, kicked, list, lifecycle, active, closing, view, owed>>
  BY ThreadParts DEF NextFlush
<1>2. CASE todo[t[2]] = {} /\ Goto(t, "flushNext", "off") /\ UNCHANGED <<target, todo>>
  <2>1. Orderly(t, "flushNext", "off") /\ HandsOn(t, "flushNext", "off")
    BY <1>1, <1>2 DEF Orderly, HandsOn, Handshake, Certain, Sending
  <2> QED
    BY <1>1, <1>2, <2>1, WalkKeeps DEF locals
<1>3. ASSUME NEW r \in todo[t[2]], Goto(t, "flushNext", "flushCancel"),
             target' = [target EXCEPT ![t[2]] = r], todo' = [todo EXCEPT ![t[2]] = @ \ {r}]
      PROVE  HandInv'
  <2>1. Moves(t, "flushNext", "flushCancel") /\ Orderly(t, "flushNext", "flushCancel")
    BY <1>1, <1>3, GotoIs DEF Orderly, Handshake, Flushing
  <2>2. \A s \in Thread : s # t => /\ KeyOf(s)' = KeyOf(s)
                                   /\ target'[s[2]] = target[s[2]] /\ pc'[s] = pc[s]
                                   /\ s[1] = "lobby" => todo'[s[2]] = todo[s[2]]
    <3> SUFFICES ASSUME NEW s \in Thread, s # t
                 PROVE  /\ KeyOf(s)' = KeyOf(s)
                        /\ target'[s[2]] = target[s[2]] /\ pc'[s] = pc[s]
                        /\ s[1] = "lobby" => todo'[s[2]] = todo[s[2]]
      OBVIOUS
    <3>1. s[2] # t[2] /\ s[2] \in Conn /\ (s[1] = "lobby" => s[2] \in LobbySlot)
      BY <1>1, ThreadParts, ThreadOf
    <3> QED
      BY <1>3, <2>1, <3>1 DEF KeyOf, U, R, Moves, HandInv, IInv, OwnTypes
  <2>3. /\ KeyOf(t)' = <<r, U(t)>> /\ pc'[t] = "flushCancel" /\ pc[t] = "flushNext"
        /\ todo'[t[2]] = todo[t[2]] \ {r}
    BY <1>1, <1>3, <2>1 DEF KeyOf, U, R, Moves, HandInv, IInv, OwnTypes
  <2>4. \A s \in Thread : U(s)' = U(s) /\ Registered(s[2])' = Registered(s[2])
    BY <1>1 DEF U, Registered
  <2>5. ASSUME NEW k \in Key, NEW s \in Thread, Sure(s, k)
        PROVE  Sure(s, k)'
    <3>1. CASE s # t
      BY <1>1, <2>2, <2>4, <2>5, <3>1 DEF Sure
    <3>2. CASE s = t
      <4>1. U(t) = k[2] /\ k[1] \in todo[t[2]]
        BY <2>3, <2>5, <3>2 DEF Sure, Certain, Sending
      <4>2. CASE k[1] = r
        <5>1. KeyOf(t)' = k
          BY <2>3, <4>1, <4>2 DEF Key
        <5> QED
          BY <2>3, <3>2, <5>1 DEF Sure, Certain
      <4>3. CASE k[1] # r
        BY <1>1, <2>3, <2>4, <3>2, <4>1, <4>3 DEF Sure
      <4> QED
        BY <4>2, <4>3
    <3> QED
      BY <3>1, <3>2
  <2>6. ASSUME NEW k, NEW s \in Thread
        PROVE  /\ Unsure(s, k) => Unsure(s, k)'
               /\ Setter(s, k) => Setter(s, k)' /\ (Unsure(s, k)' \/ Sure(s, k)')
    <3>1. (Unsure(s, k) => Unsure(s, k)') /\ (Setter(s, k) => Setter(s, k)')
      BY <1>1, <2>2, <2>4 DEF Unsure, Setter
    <3>2. Setter(s, k)' => Unsure(s, k)' \/ Sure(s, k)'
      BY DEF Unsure, Setter, Sure, SetterPlace, Wary, Certain
    <3> QED
      BY <3>1, <3>2
  <2>7. OwedInv'
    <3>1. \A k \in owed' : k \notin Present' /\ k \in owed \cup Present
      BY <1>1, SameDepartures
    <3>2. \A s \in Thread : s[1] = "ws" => pc'[s] = pc[s] /\ target'[s[2]] = target[s[2]]
      BY <1>1, <2>2
    <3>3. owed \subseteq Key
      BY DEF HandInv, IInv, OwnTypes
    <3> QED
      BY <1>1, <2>5, <2>6, <3>1, <3>2, <3>3, OwedStep DEF Certain, lifecycle
  <2>8. LeftInv'
    BY <1>1, <2>6 DEF HandInv, LeftInv, lifecycle
  <2>9. KickInv'
    <3>1. ASSUME NEW c \in RoomSlot
          PROVE  pc'[<<"ws", c>>] = pc[<<"ws", c>>] /\ target'[c] = target[c]
      <4>1. <<"ws", c>> \in Thread /\ <<"ws", c>>[1] # t[1] /\ <<"ws", c>>[2] = c
        BY <1>1, ThreadOf
      <4>2. <<"ws", c>> # t
        BY <4>1
      <4> QED
        BY <2>2, <4>1, <4>2
    <3> QED
      BY <1>1, <3>1 DEF HandInv, KickInv, lifecycle
  <2>10. TodoInv'
    BY <1>1, <2>2, <2>3, ThreadOf DEF HandInv, TodoInv
  <2>11. FreshInv'
    BY <2>1, FreshStep
  <2>12. PendingHasTimer'
    <3> SUFFICES ASSUME NEW k \in Key, NEW p, p = pendingLeaves[k], p # NoTimer
                 PROVE  KeyOf(<<"timer", p>>)' = k /\ pc'[<<"timer", p>>] \in {"wait", "clear"}
      BY <1>1 DEF PendingHasTimer, lifecycle
    <3>1. KeyOf(<<"timer", p>>) = k /\ pc[<<"timer", p>>] \in {"wait", "clear"}
      BY DEF HandInv, PendingHasTimer
    <3>2. <<"timer", p>> \in Thread /\ <<"timer", p>>[1] # t[1]
      BY <1>1, ThreadOf DEF HandInv, IInv, OwnTypes
    <3>3. <<"timer", p>> # t
      BY <3>2
    <3> QED
      BY <2>2, <3>1, <3>2, <3>3
  <2> QED
    BY <2>7, <2>8, <2>9, <2>10, <2>11, <2>12 DEF HandInv
<1> QED
  BY <1>2, <1>3 DEF NextFlush

LEMMA FlushHands ==
    ASSUME HandInv, IInv', NEW t \in Thread, FlushPendingLeaves(t)
    PROVE  HandInv'
<1>1. /\ <<"flushCancel", "flushRead">> \in CancelMoves
      /\ <<"flushRead", "flushSend">> \in ReadMoves /\ <<"flushSend", "flushNext">> \in SendMoves
  BY DEF CancelMoves, ReadMoves, SendMoves
<1> QED
  BY <1>1, DrainHands, NextFlushHands, CancelHands, ReadHands, SendHands DEF FlushPendingLeaves

----------------------------------------------------------------------------
(* The theorems about departures.                                          *)

LEMMA InitHands == Init => HandInv
<1> SUFFICES ASSUME Init PROVE HandInv
  OBVIOUS
<1>1. PendingHasTimer /\ TodoInv /\ LeftInv /\ OwedInv
  BY DEF Init, PendingHasTimer, TodoInv, LeftInv, OwedInv
<1>2. KickInv /\ FreshInv
  BY ThreadOf DEF Init, KickInv, FreshInv, Handshake
<1> QED
  BY <1>1, <1>2, InitServed DEF HandInv

LEMMA HandsKept == HandInv /\ [Next]_vars => HandInv'
<1> SUFFICES ASSUME HandInv, [Next]_vars PROVE HandInv'
  OBVIOUS
<1>1. IInv'
  BY ServedKept DEF HandInv
<1>2. CASE UNCHANGED vars
  BY <1>1, <1>2 DEF vars, HandInv, KickInv, TodoInv, FreshInv, PendingHasTimer, LeftInv, OwedInv,
     Held, Setter, Sure, Unsure, KeyOf, U, R, Registered, Present
<1>3. CASE ClientStep
  BY <1>1, <1>3, RequestHands, LeaveCommandHands, KickCommandHands, LobbyOpensHands, ReadFailsHands,
     RoomsHands DEF ClientStep
<1>4. CASE \E t \in Thread : ServerStep(t)
  BY <1>1, <1>4, HandshakeHands, ConnectHands, HandleJoinHands, BroadcastLeaveHands,
     HandleLeaveHands, HandleDisconnectHands, GraceTimerHands, HandleKickHands, LobbyOpensHands,
     FlushHands DEF ServerStep
<1> QED
  BY <1>2, <1>3, <1>4 DEF Next

\* Every variable keeps its type, no connection is registered twice and only those
\* are flagged as kicked whom an admin ordered out, for any users, rooms and
\* connections.
THEOREM TypeCorrect == Spec => []TypeOK
<1>1. HandInv => TypeOK
  BY DEF IInv, OwnTypes, HandInv, KickInv, TypeOK
<1> QED
  BY <1>1, InitHands, HandsKept, PTL DEF Spec

\* Whoever is sure, unsure or the setter of a flag is still at work.
LEMMA WorkUnsettles ==
    ASSUME HandInv, NEW k, NEW t \in Thread, Sure(t, k) \/ Unsure(t, k) \/ Setter(t, k)
    PROVE  ~Settled(k)
<1>1. U(t) = k[2]
  BY DEF Sure, Unsure, Setter, KeyOf
<1>2. pc[t] \notin {"off", "open"} /\ (pc[t] = "reading" => ~Registered(t[2]))
  <2>1. CASE t[1] = "lobby" /\ k[1] \in todo[t[2]]
    BY <2>1, ThreadParts DEF HandInv, TodoInv
  <2>2. CASE ~(t[1] = "lobby" /\ k[1] \in todo[t[2]])
    BY <2>2 DEF Sure, Unsure, Setter, Certain, Sending, SetterPlace, Wary, Attending
  <2> QED
    BY <2>1, <2>2
<1> QED
  BY <1>1, <1>2 DEF Settled

\* A departure the room has not been shown is always some goroutine's to
\* announce, however joins, leaves, timers, logouts and flags interleave, unless
\* a kick of the user was ordered.
THEOREM DepartureHasOwnerCorrect == Spec => []DepartureHasOwner
<1>1. HandInv => DepartureHasOwner
  BY WorkUnsettles DEF HandInv, OwedInv, Held, DepartureHasOwner
<1> QED
  BY <1>1, InitHands, HandsKept, PTL DEF Spec

\* A pending-leave entry always has its timer, and a kicked or left flag some
\* goroutine that is there to consume it, unless a kick of the user was ordered.
THEOREM NothingLeftOverCorrect == Spec => []NothingLeftOver
<1>1. ASSUME HandInv PROVE NothingLeftOver
  <2>1. FlagsConsumed
    BY <1>1, WorkUnsettles DEF HandInv, KickInv, LeftInv, FlagsConsumed
  <2> QED
    BY <1>1, <2>1 DEF HandInv, NothingLeftOver
<1> QED
  BY <1>1, InitHands, HandsKept, PTL DEF Spec
=============================================================================
