# cHATBOX: a verification development in TLA+

This directory models the parts of cHATBOX in which order, concurrency and
failure decide whether the system is right. TLC checks the models on small
instances, and TLAPS proves theorems about them for every value of their
constants. The code in `src/` is the reference; `PROJECT.json` maps each
definition to the lines it models.

## 1. The system

cHATBOX is a chat system of four services and a React client, and keeps beside
them its first version, a Python monolith.

| part | language | state it keeps | operations |
|---|---|---|---|
| chat-service: `ws.Manager` | Go | seven maps under one RWMutex (rooms, connUser, userConns, lobbyConns, connMu, roomJoinOrder, connection counts), two gauges | connect and disconnect a room or lobby connection, evict a user, close a room, kick, broadcast |
| chat-service: `WSHandler`, `LobbyHandler` | Go | `lifecycleState` (kickedUsers, leftUsers, pendingLeaves with their timers); goroutines per connection | handshake, join, leave, disconnect, grace period, logout flush, kick, message commands |
| chat-service: roles | Go + PostgreSQL | tables of room admins and mutes | promote on join, succession, mute, unmute, promote, REST twins |
| chat-service: Kafka producer, delivery, file-event consumer | Go | none beyond the client library | produce chat, PM and edit events, route file events to sockets |
| message-service: persistence consumer | Python | consumer position, PostgreSQL rows | persist, edit, delete, react, retry, dead-letter, commit |
| message-service: history, search, clear | Python | PostgreSQL rows: messages, clear markers, deletion markers | pages of a room or of a private conversation, replay, search, context; clear a history, delete a conversation |
| message-service: auth client | Python | circuit breaker (failure count, time it opened), shared by all requests | look up a user, with retries |
| message-service: link previews | Python | Redis cache | resolve, fetch from the resolved address, parse, cache |
| auth-service: accounts | Python | PostgreSQL: users, reset tokens | register, change email or password, forgotten password, seed the admin |
| auth-service: sessions and two-factor | Python | PostgreSQL: secret and flag; Redis: revoked tokens, temp tokens, used codes | log in, log out, set up, confirm, use and remove TOTP |
| file-service | TypeScript | disk, PostgreSQL | upload, download, list, announce on Kafka |
| frontend | JavaScript | sockets, user lists per room | join, leave, reconnect, exit on kick |
| v1: rooms and roles | Python | `ConnectionManager` in memory; tables of admins and mutes | connect, leave, kick, mute, promote, succession, close and open rooms, relay |
| v1: messages | Python | Kafka consumer, PostgreSQL rows | produce, fall back to the database, consume, retry, dead-letter, history |

How they interact. A browser holds one *lobby* WebSocket and one WebSocket per
room it is in. Each is served by a goroutine of chat-service, which starts
others: one for the join announcement, one per grace period. They share the
`Manager` (by method calls, each a critical section), the `lifecycleState` maps
(under a mutex of their own), and the database. `DisconnectLobby` calls back
into `WSHandler.flushPendingLeaves` when a user's last lobby connection goes.
Messages travel from a room socket to Kafka, from there to the message-service,
which writes them to its database and serves them as history; files are announced
from the file-service to the chat-service over Kafka. Every service checks bearer tokens itself
and asks Redis whether they were revoked; message-service asks auth-service for
the ids of users by HTTP.

What is hard about it:

* **Goroutines of one user overlap.** A browser reconnects before the server has
  noticed that the old socket is gone. The old connection's `handleDisconnect`,
  the new one's `handleJoin`, the grace timer and the logout flush then run at
  once, and each decides from what it reads whether somebody else will announce
  the departure.
* **Check, then act.** The handshake checks `is_active`, the lobby connection and the connection limit long
  before `ConnectRoom`; user lists are read long before they are broadcast; requests
  of auth-service and message-service read rows and commit later, and read markers after they selected a page.
* **Flags between goroutines.** `markKicked` and `markLeft` leave a note for a
  `handleDisconnect` that has not happened yet and may already have happened.
* **Timers that cannot always be cancelled.** `cancelPendingLeave` stops a timer
  that sleeps, not one that has woken up.
* **Many maps, one truth.** Six removal paths keep seven maps and two gauges in
  step, and one (`removeFailedConns`) runs after the lock was released.
* **Two stores, no transaction.** Database commit and Kafka offset commit,
  database and dead-letter topic, password and reset token, Redis mark and
  database commit.
* **Life times that must fit.** A revocation must outlive its token, the mark of a
  used code the window in which the code is good.

What makes each part correct:

* *Manager*: every map describes the same set of connections; gauges count them;
  the succession order holds exactly those it should; every method does to the
  abstract registry what its name says.
* *Lifecycle*: no departure is forgotten, every departure is eventually shown or
  undone, no flag or timer outlives its reason, no connection outlives its
  goroutine.
* *Roles*: an occupied room has a connected admin.
* *Persistence*: every accepted message is stored once or dead-lettered, edits
  and deletes are not lost.
* *History*: what a user cleared stays hidden from him; no page leaves a hole that
  going on from it would not fill.
* *Circuit breaker*: it opens after the threshold and always comes back.
* *Previews*: the fetch goes to the address that was checked; the parser finds what the page says.
* *Accounts*: overlapping changes do not undo each other; one address, one account.
* *Sessions*: a logout is final; a code that was taken does not count again.

## 2. The modules

| module | models | kind |
|---|---|---|
| `Registry` | who is connected where, and nothing else | abstract specification |
| `ConnectionManager` | `manager.go`, `manager_room.go`, `manager_lobby.go` | detailed specification, implements `Registry` |
| `RoomPresence` | `websocket.go`, `ws_lifecycle.go`, `lifecycle_state.go`, `lobby.go`, `handleKick`, closing and opening rooms | composition of goroutines on top of `Registry` |
| `MessagePersistence` | `producer.go`, the commands of `ws_message.go`, `ws_edit.go`, `ws_reaction.go`, `persistence_consumer.py`, `message_dal.py`, `reaction_dal.py`, the edit and delete routes | composition of producer, log, consumer group, database and REST handlers |
| `MessageHistory` | the GET routes of `messages.py`, `message_dal.py`, `search_service.py`, `clear_service.py`, `clear_dal.py`, `pm_deletion_dal.py` | readers and writers over the rows that the consumer stores |
| `AuthClient` | `auth_client.py` | component |
| `LinkPreview` | `preview_service.py`, `url_preview_service.py`, the preview route | component |
| `MessageOutbound` | the two ways in which message-service calls out | composition of `AuthClient` and `LinkPreview`, which share no state |
| `Accounts` | auth-service: `auth_service.py`, `password_reset_service.py`, the DALs, `main.py` | threads over tables |
| `Sessions` | auth-service: login, logout, `two_factor_service.py`, `security.py`, `totp.py`; message-service: `security.py` | threads over a table, Redis and a clock |
| `LegacyRooms` | v1: `websocket.py` (router and manager), `room_service.py`, `admin_service.py`, `room_dal.py` | coroutines of one process |
| `LegacyMessages` | v1: `websocket.py`, `producer.py`, `consumers.py`, `message_dal.py`, `main.py` | coroutines of one process, broker and database |
| `X_proofs` | theorems about module `X`: `ConnectionManager`, `RoomPresence`, `MessagePersistence`, `MessageHistory`, `MessageOutbound`, `Accounts`, `Sessions` | proofs |
| `Legacy_proofs` | theorems about `LegacyRooms` and `LegacyMessages` | proofs |
| `MCX` | values of constants, symmetry and initial states for TLC | model-checking |

A definition whose comment begins with "Mutant:" is a plausible mistake in the
definition after it. No specification uses it; it stands there to show which mistake the
properties would reveal.

### Registry and ConnectionManager

`ConnectionManager` has one variable per map of `Manager`, one per gauge, and
`bcast`, the local state of running `BroadcastRoom` calls. One action is one
critical section: what a method does between `Lock` and `Unlock` is atomic, what
it does afterwards is not part of it. `BroadcastRoom` has three (snapshot,
write, reap), and any number of broadcasts may run at once (`Broadcaster`).

| action | code |
|---|---|
| `ConnectRoom`, `DisconnectRoom`, `CloseUserConnsInRoom`, `CloseAllInRoom`, `ConnectLobby`, `CloseAll` | the methods of the same names |
| `DisconnectLobby` | the method, with the eviction of a logged-out user's room connections (`EvictUser`, that is `evictUserRoomConnsLocked`) in the same critical section |
| `BroadcastSnapshot`, `BroadcastWrite`, `BroadcastReap` | the phases of `BroadcastRoom`: collect, write without the lock, `removeFailedConns` |

A connection is a pointer. Go's garbage collector does not let a pointer be
reused while anything refers to it; so `Unreferenced(c)` holds of a connection in
none of the maps and in no running broadcast, and only such a connection may be
registered again. Without the last conjunct a broadcast could reap a socket
that never failed (this is the mutant of `BroadcastTargets`).

`Registry` has two variables, the set of room registrations and the set of lobby
connections, and five steps: a connection joins (`Join`), some leave a room (`Drop`), a user enters
the lobby (`EnterLobby`), leaves it (`ExitLobby`; with the last lobby connection, every room), and
`Shutdown`. The refinement
mapping (`ImplementsRegistry`) reads them off `connUser`, `rooms` and
`lobbyConns`; it is checked by TLC and proved.

### RoomPresence

A *slot* is one WebSocket connection; its goroutines are threads `<<"ws", c>>`,
`<<"join", c>>`, `<<"timer", c>>` and `<<"lobby", c>>`, each with a program counter.
Each step is one access to shared state: one `Manager` call, one
`lifecycleState` call or one broadcast; between any two steps any other thread may
run. `Manager` appears through `Registry`, which the proofs show it implements.

| program counter | where the goroutine stands |
|---|---|
| `lobbyCheck`, `evict`, `limit`, `connect` | `HandleRoomWS` between its checks |
| `reading` | `readLoop` |
| `exitDisconnect`, `exitCheck`, `exit...` | `handleLeave` and the `broadcastLeave` it calls |
| `disconnect`, `kickedCheck`, `leftCheck`, `roomCheck`, `graceCheck`, `schedule` | `handleDisconnect` |
| `joinCancel`, `joinRead`, `joinSend` | `handleJoin` |
| `wait`, `clear`, `timerCheck` | `scheduleGracePeriodLeave`'s goroutine |
| `leaveCancel`, `leaveRead`, `leaveSend` | `broadcastLeave` |
| `kickMark`, `kickClose`, `kickRead`, `kickSend` | `handleKick` in the admin's `readLoop` |
| `lobbyConnect`, `open`, `flush`, `flushNext`, `flush...` | `HandleLobbyWS` and the logout flush |

Three variables are not in the code. `view[r]` is the list that the clients of
room `r` show: the client replaces its list by the one in each message, so it is the list of the last
broadcast. `owed` and `kicked` are history variables and enter no guard: the
pairs of room and user whose last connection went away and that no broadcast
has shown since as absent, and those against which a kick was ordered.
`DepartureHasOwner` says who will announce each pair of `owed`; it makes an exception of
the pairs of `kicked`, because there the code does forget (section 5).
`NothingLeftOver` is its converse: every entry of `pendingLeaves` has its timer, and once
the goroutines of a pair are idle no flag of it is left (with the same exception).

Abstracted: tokens and user names, admin and mute lists in the messages, system
messages, history, Kafka; a refused handshake (it changes nothing); time (a timer may expire at any
moment, the read deadline too). The lobby's 5-second wait before `DisconnectLobby`
is the gap between a socket's loss and `LobbyClose`, which has no bound here.
Broadcasts of other messages appear as
`BroadcastMessage`, because they too drop connections that cannot be written to.

### MessagePersistence

A request is what one Kafka message asks for: create, edit, delete, react or
unreact, about a message id. Its journey is `Command` (broadcast, then call
`WriteMessages`, which picks a partition), `Produce` or `ProduceFails`, `Fetch`,
`Execute`, `Commit`; a *slot* is an entry of a partition.

| action | code |
|---|---|
| `Command` | `handleMessage`, `handleEditMessage`, `handleDeleteMessage`, the reaction handlers and their private-message twins: broadcast, then deliver |
| `Produce`, `ProduceFails` | `Producer.Produce`; a lost acknowledgement makes the client library write again, to the same partition |
| `Start`, `Crash` | `_run`: connect; any exception outside `_process_with_retry`, shutdown, or death of the process |
| `Rebalance` | the group coordinator assigns partitions; members continue from the committed offsets |
| `Fetch` | `async for msg in consumer` |
| `Create`, `Load`, `Write`, `React` | `_process` and the data access layer; edits and deletions read the row, then update it |
| `Retry`, `Commit`, `SendToDlq` | `_process_with_retry` and `_send_to_dlq` |
| `RestRequest`, `HandlerFails` | `PATCH /edit` and `DELETE /delete`, which call the same functions |

`Write` sends only the columns that differ from the row that was read, as SQLAlchemy does:
so an edit leaves `is_deleted` as another transaction set it. A worker may fail at
any point up to the offset commit, including after its database commit (`Write`, then
`Retry`). A consumer that is processing a message does not notice a rebalance; its commit
covers the partitions assigned to it by then. `consumer.commit()` commits positions, not the slot
just processed, which is why a dead-lettered slot is committed with the next one.

`done`, `deadLetter` and `dropped` are history variables; no guard reads them.
External, and modelled from their use: the partition choice and the retry of the Go client, the consumer group.
Left out: requests the data access layer refuses because the sender does not own the
message; emoji and user of a reaction; `edited_at`; truncation of long texts. The auth-service
lookup of private messages is one more way to fail, covered by `Retry`.

### MessageHistory

A message is stamped when it is sent and stored when the consumer gets to it, so
rows appear in any order of `sent_at`, and several may have one time. A *reader* is a
GET request: `Select` takes a page of rows, the filters then read the user's markers and
drop what they hide. A *writer* is an upsert of a marker: query and take the time
(`StartUpsert`), then commit (`CommitUpsert`). Everything else may happen in between.

| action | code |
|---|---|
| `Send`, `Store`, `Delete` | chat-service stamps, the consumer stores (`create_idempotent`), `soft_delete_message` |
| `ClearHistory`, `DeletePmConversation`, `CommitUpsert` | `POST /clear`, `POST /pm/delete-conversation`: `upsert_clear`, `delete_conversation` |
| `GetRoomHistoryRequest`, `GetRoomMessages`, `GetMessageContext`, `SearchRequest`, `GetPmHistoryRequest`, `GetPmContext` | the six GET routes up to the SELECT |
| `FilterPmPage`, `Respond` | `clear_service.py`, `search_service.py`: the first of the two markers of a private page, and the last marker with the answer |

`Newest` and `Oldest` are `ORDER BY ... LIMIT`; rows of one instant come in any order. The text
match of a search is any subset of the rows.

### AuthClient, LinkPreview and MessageOutbound

`AuthClient` is the circuit breaker that all requests of a process share. A caller
passes (`GetUserByUsername`) if `IsCircuitOpen` is false, and then is `Answered`, `Failed` (retry, or
count a failure) or `Broken` (an error that is not caught and not counted) whenever
the others let it; the service goes down and comes back.

`LinkPreview` is a preview request from the cache (`GetCachedPreview`) over the resolved address
(`ResolveSafeIp`), the pinned connection (`BuildConnectionUrl`), the page (`FetchHtml`, with
`HandleEvent` for `MetadataParser`) to the cache again (`CachePreview`). A page is the sequence of what
Python's HTML parser reports; names resolve to something else every time.

`MessageOutbound` puts the two side by side.

### Accounts

A request is a thread that reads the rows it decides upon in one step and
commits in another; a reset commits twice (`CommitReset`, `MarkTokenUsed`). `Crash` is the process or its connection dying
before any commit. A process start (`StartProcess`, `SeedAdmin`, `PromoteAdmin`) reads and commits like a
request. An UPDATE writes the changed columns only, as SQLAlchemy does; `latest` is a history variable: what
was last set.

### Sessions

The clock counts TOTP periods. A request is `idle`, or about to `check` that the code was not used, to
`mark` it, or to `commit`; Redis or the process may fail before each (`Fail`, `RevokeFails`).
`DecodeToken` and `MessageServiceAccepts` are the two services' ways to hold a token against the
blacklist, with what each does when Redis is down and according to `APP_ENV`.
Requests of one user overlap in any way, and a period may end between any two steps, also between
the look at the code (`VerifyTotp`) and the look for its mark (`CheckReplay`).
`accepted`, `late`, `repeated` and `loggedOut` are history variables: the codes taken, the requests that began with
one of them, the codes that such a request was given within the window, and the tokens whose logout was answered.
Secrets are each generated once, and codes of different secrets or periods are taken to differ.

### LegacyRooms and LegacyMessages

v1 runs everything as coroutines of one process: an action is what a coroutine does
between two awaits. `LegacyRooms` has the five maps of the manager and the kick counts as one record (`mgr`), the tables
as another (`db`), and per socket how far its endpoint has come (`endpoint`). Its names (`RoomsSpec`, `RoomsInit`,
`RoomsTypeOK`) leave `Spec` and `TypeOK` to `LegacyMessages`, so that one module can extend both. `Relay` is the delivery of a
broadcast, which disconnects the sockets it could not write to; `Handshake`, `Accept`, `Greet`, `Kick`,
`CloseTarget`, `Leave...`, `StepDown`, `FindSuccessor` are the room endpoint; `CloseRooms` and `OpenRooms` the
admin's. An endpoint runs its disconnect for a `WebSocketDisconnect` in its message loop and for no other
exception; the other ways in which it ends are `GreetFails` (sending the history, before the loop), `ReceiveFails` (a
message that is not a JSON object, an answer that cannot be sent, `receive_json` on a socket that the server closed while
the handler was busy) and the last step of `CloseTarget` (the same, after a kick); `LobbyFails` is the lobby's. Such an
endpoint is `crashed` (`stray` in the lobby): its socket stays in the maps until a relay meets it, and it takes no kick.
`orphaned` is a history variable: rooms in which an endpoint crashed, or where an
admin's departure was taken for a kick.

`LegacyMessages` follows a message from the handler (`Receive`, `KafkaProduce`, the fallback `SaveMessage`,
`NotProduced`, `Broadcast`) over the topic to the process's own consumer (`Take`, `Process`, `SendToDlq`, `AutoCommit`,
`Disconnected`), with start, stop and crash of the process (`Startup`, `Stop`, `Cancel`, `Close`, `Shutdown`, `Crash`), and evaluates the two history queries
as operators. `shown`, `lapsed` and `doubtful` are history variables: what was broadcast, what the
consumer gave up, and what the producer reported as failed although the topic has it.

## 3. The runs

| run | instance | question | result |
|---|---|---|---|
| `registry` | 2 users, 2 rooms, 3 connections, 1 broadcast; symmetric | do maps and gauges agree, and implement `Registry`? | holds |
| `presence` | alice alone in r1 with two connections, r1 closing and opening; or alice and bob, who kicks, in r2; one lobby connection | is a departure forgotten, a timer entry or flag left over, a connection without handler? | holds |
| `presence_liveness` | 1 user, 2 room connections, 1 lobby connection, no leave commands | is every departure shown or undone? | holds |
| `kick_then_leave` | alice, bob, lobbies for both | is a departure forgotten when a kick meets a leave? | violated (finding) |
| `persistence` | 1 message, 2 partitions, 2 consumers, 1 REST handler, 2 requests, 1 fault, 2 attempts; symmetric | are offsets committed only over accounted messages, never moved back, and do deletions stick? | holds |
| `persistence_in_order` | 1 partition, 1 consumer, 3 requests, 2 texts, 1 fault | are requests applied as if once and in order, and every message accounted for? | holds |
| `history` | 3 users, one of them reading, 1 room, 3 messages, 1 reader, 1 writer, pages of 2, context of 1 and 1, 2 markers set, 1 deletion, clock to 3; symmetric | does a page show what is cleared, or skip what it should show? | holds |
| `accounts` | admin and one user, addresses in two cases, 2 passwords, 2 reset links, 2 threads, 5 requests; symmetric | is a change lost, or an address given twice? | holds |
| `sessions` | 1 user, 2 secrets, 2 access and 2 temp tokens, 2 threads, 4 requests, clock to 5, production; symmetric | does a logout hold, does a code that was taken count again? | holds |
| `outbound` | 2 callers, threshold 2, recovery 2, 2 attempts, clock to 4; 1 url, 2 addresses of which one is blocked, pages of up to two tags; symmetric | does the circuit close in time, the fetch stay at the checked address, the parser find the metadata? | holds |
| `legacy` | 2 users, 2 rooms, 3 sockets; symmetric | do the manager's maps agree, are kicks consumed, does a room in use keep an admin, endpoints crashing anywhere? | holds |
| `legacy_messages` | 2 sockets, 2 messages, 2 faults, 2 attempts; symmetric | is what was shown kept, once, and in order? | holds |

**Bounds.** *registry*: the shared structure between users is per room and per
connection; two users give a succession, two rooms an eviction across rooms, three
connections two tabs and a lobby connection, or three tabs. A single broadcast
suffices, since broadcasts interact only through the maps. The symmetry sets are
permutations of users, rooms and connections; no definition depends on an order
among them (`CHOOSE` is used on positions of a sequence only), and no liveness is checked there.

*presence*: the keys of `lifecycleState` are (room, user) pairs and goroutines of
different rooms touch different keys, except for the logout flush, which loops over rooms and so takes any
number of them; one room and one user with two overlapping connections is where the races
are: a slot is reused as soon as its goroutines have returned, so an unbounded
number of reconnects is covered, of which two overlap. The run holds two scenes.
In r1 alice is alone, reconnects with a second connection, and the room is closed and opened while
that one is unused. r2 starts from `JoinedInit`, in which everybody has joined and all goroutines are idle, to spare TLC the joins,
and bob kicks her there again and again. He is in the room without a lobby connection, a state the code reaches
(section 5); it makes his own disconnect announce at once instead of
through a timer, and keeps the state space small. `kick_then_leave` gives both a lobby.
The action constraint `Bounds` keeps the scenes apart and leaves every step of the scene's own connections
free. `MaxConns` is 5 as in the code and is not
reached; `CheckLimit` may refuse at any time instead, which covers the 429
answer and a failing upgrade. The proofs do without scenes and bounds.

*presence_liveness* uses `NoLeaveSpec`: no client sends `leave`. With the command the state graph is too large for the
liveness check; the safety half of the property, `DepartureHasOwner`, is
checked with the command in run `presence`. No step that the server takes on its
own is cut off by this bound, so fairness is not weakened or contradicted by it.

*persistence* has one message, since rows of different messages do not
interact and a partition's entries may be about anything; two partitions, so that one commit covers
a partition other than the slot's and a rebalance can move one only; two consumers
(`deployment.yaml` has one replica, and a rolling update a second one for a while); and a REST
handler with any number of requests. `MaxFaults` counts crashes, rebalances of
partitions that have an owner, and repeated writes; one of them and its consequences
suffice for redelivery and for a late commit. `MaxAttempts` is 2 instead of 3: enough for a retry that
succeeds and for one that gives up. *persistence_in_order* has two texts, so that the order of edits shows, and three
requests: create, edit and a second edit or a deletion. With several partitions or consumers requests are
reordered (section 5).

*history*: pages belong to one reader and one user, and readers do not touch each other, so one of each
suffices; three messages and a limit of two are what it takes for a page to be full and still
leave one out, and a context of one on each side for a nearer neighbour. Three instants
give ties, an order, and a clear between two messages. `Overlap` is FALSE: a user does not clear one
conversation twice at once; section 5 says what happens if he does. The third user has no conversation with the reader:
`get_pm_context` takes the id of any private message, and the action constraint `Bounds` lets him send one, to the user who
does not read, while that context is what is asked for; no other request looks at messages of other people's conversations.

*accounts*: two threads make every pair of requests overlap, and five requests leave room for what has to come before them. One address has a second spelling, so that look-up (in lower case) and
uniqueness (as written) differ. *sessions*: two secrets for a set-up after another. The window is 1 and the replay mark 3
periods, as in the code (90 s); the temp token's 300 s and the access token's hours are 4 and 5, which keeps the order of the life times,
and the clock lets each of them end. Four requests let a factor be removed or a code presented by one thread while the other is
anywhere in its own request. *outbound*: the clock lets the circuit open, recover and open again; a single preview request, since requests share
only the cache, which may hold anything that was ever fetched.

*legacy*: three sockets give two users in one room, or one user in two rooms or twice in one, with the other present. An endpoint may crash while it greets, listens or kicks, at any
time and for as many sockets as there are. *legacy_messages*: two messages of two
connections give every order of topic and fallback; two faults a crash after a loss of the broker.
With a state space of 1.9 million it is as large as a run of five minutes allows.

**Fairness.** In `RoomPresence`, `Fairness` is weak fairness of each goroutine's own steps: Go's
scheduler runs a runnable goroutine, no step waits for a lock for ever, and a timer
expires. In addition a socket the server has dropped is closed, so the read in
its `readLoop` fails. Clients are under no obligation: they need not join, leave, close or
log in again, and `readLoop` with a live socket and an open lobby may stay as they are for ever.

In `MessagePersistence`, fairness is weak fairness of each consumer's steps (its loop runs, and a
crashed process is restarted) and of the assignment of partitions that have no owner, which is
the group coordinator's task. Nothing obliges users to write, a broker to acknowledge, a
database to answer (`Retry` may happen each time) or a dead-letter write to succeed.

The other modules state safety only; bounds on time (`UpIsServed`, `LoggedOutStaysOut`, `CodeOnce`) are invariants over their clocks.

**Deadlock** is checked in every run but `persistence_in_order`, `history`, `accounts`, `sessions` and `legacy`. The first four
stop when bounded requests or time are used up; `legacy` when each of the sockets, which carry one connection
each, has been used.

## 4. What is proved

Eight modules of theorems, each for any values of the constants that satisfy the
module's named assumption. Five theorems have one hypothesis more, which the tables name and the runs satisfy: it is a deployment or a
discipline of the clients without which the code does not have the property (section 5), a relation between two
constants of the code, or that pages are well formed. The pattern is
always the same: an inductive invariant, one lemma per
action (or per shape that several actions share), and a last step by PTL.

### ConnectionManager

From `NoUserAssumption` (the value for "absent" is not a user) and `ConnAssumption`
(there are finitely many connections):

| theorem | states |
|---|---|
| `TypeCorrect` | the type invariant |
| `RoomsIndexedCorrect`, `UsersIndexedCorrect` | the maps describe the same connections |
| `JoinOrderCorrect`, `SuccessorCorrect` | the join order holds everybody present once; succession finds a live user if there is one |
| `GaugesCorrect` | each gauge is the number of connections of its kind (`GaugesAgree`, which no run checks) |
| `BroadcastTargetsCorrect` | a running broadcast refers to connections of its room or to dropped ones, never to reused ones |
| `ManagerImplementsRegistry` | `Spec` implements `Registry!Spec` |

The inductive invariant `IInv` is the conjunction of the type invariant (with
"join orders have no duplicates"), `RoomsIndexed`, `UsersIndexed`,
`BroadcastTargets`, `JoinOrderComplete` and `GaugesAgree`. None is inductive alone: a
removal keeps `JoinOrderComplete` only because the removed connections are
found through `connUser` (`RoomsIndexed`), a gauge is decremented by the size of a
set that is the set of connections only by `RoomsIndexed` and `UsersIndexed`, and
`BroadcastReap` keeps the maps consistent only because a connection that a broadcast
refers to was not reused (`BroadcastTargets`).

Six methods remove connections. Instead of six inductions there is one: `RemovalStep` describes
what they have in common (a set of connections disappears from all
maps, each room's order loses at most users with no connection left there, the
gauges fall by the right numbers); lemma `RemovalPreserves` shows it keeps `IInv`, and one
lemma per method (`...Removes`) shows the method is such a step. The refinement uses
the same shape (`RemovalRefines`). Facts on sequences (`RemoveFirst`
removes one occurrence, `Append` keeps distinctness) and on cardinalities are lemmas of their own.

### RoomPresence

| theorem | states |
|---|---|
| `TypeCorrect` | the type invariant |
| `RegisteredIsServedCorrect` | a registered connection has a handler with its disconnect still to come |
| `DepartureHasOwnerCorrect` | a departure that no broadcast has shown has a goroutine, timer or logout flush that will announce it, unless a kick was ordered |
| `NothingLeftOverCorrect` | no entry of `pendingLeaves` without its timer, no flag left once all is idle, unless a kick was ordered |

`IInv` (types of the registry, of program counters and lists, and `Belongs`: a goroutine works for its connection's
user and room) carries the first two. `HandInv` carries the other two. Its heart is `OwedInv`, the answer to
"who will announce it?" for every pair that is owed: a goroutine that surely will (`Sure`), or one that will unless it
finds a left flag (`Unsure`); while a left flag is up there must be two of
those, because one flag silences one handler only. `LeftInv` says that whoever set a left flag is
still at work (`Setter`), `KickInv` that a kicked flag is of a pair in `kicked`, `TodoInv` that a logout flush with rooms left is still running, `FreshInv` that a
connection's handshake begins when the goroutines of the one before in its slot have returned. The argument fails for kicks, and section 5 shows
that the property does too.

### MessagePersistence

From `PersistenceAssumption` (the values for "no row", "no owner" and
"[deleted]" differ from rows, consumers and texts; consumers are not handlers; bounds are naturals):

| theorem | states |
|---|---|
| `TypeCorrect` | the type invariant |
| `CommittedAccountedCorrect` | an offset is committed only over settled slots |
| `OffsetsAdvanceCorrect` | a commit never moves an offset back |
| `DeletionSticksCorrect` | no step undoes a deletion or loses a row |
| `ExactlyOnceCorrect` | if nothing was dropped, a partition that is read to its end leaves what applying each request once and in order would, under `SingleWriter` |

`CommittedAccounted` is not inductive: a commit covers all that the consumer has fetched
in all its partitions. `FetchedAccounted` says that whatever the owner of a
partition has fetched is settled except the slot it works on, and that it has fetched everything that is
committed; `CommitAfterDone`, that at a commit this slot is done too. Together they
give both offset theorems, also for a consumer that was busy during a rebalance,
because an assignment resets positions to the committed offsets. `WriteHasRow` and `CurInLog` say
that the row a worker updates exists and that a consumer's slot stays in the log; typing and `DeletionSticks`
need them. Nine of the actions are steps of one worker that keeps its slot or settles it: lemma
`WorkerKeeps` treats them at once. All three actions of chat-service are instances of `LogGrows`.

`SingleWriter` is one sender, one consumer and no REST handler, for any number of partitions, messages, crashes, repeated writes and
attempts. Two senders put an edit before its creation, two consumers overwrite a newer edit with an older one after a
rebalance, and what a REST handler writes is in no log. `OnceInv` has three parts. `SenderInv`: a message's creations come before
anything else about it in a log, since the sender edits what it has been shown. `WriterInv`: the row a worker is
about to update is still as it was read. `RowsInv`: each row is what the log up to some point leaves of it (`RowAt`), and that
point is not before what is committed or worked on. `Replayed` is why redelivery does no harm: an entry
applied once more leaves the row as it is or as that entry left it the first time, and all that followed it comes again too.

### MessageHistory

| theorem | states |
|---|---|
| `TypeCorrect` | the type invariant |
| `ClearedStaysHiddenCorrect` | no request shows what a marker hides that was acknowledged before the request read it, under `~Overlap` |
| `PagesSkipNothingCorrect` | a page leaves out visible messages only beyond its limit, and then the right ones, for any overlap of clears |

`acked` is the latest time an answered request has set, `marker` what the row says. Without
overlap they are equal: `WritersInv` says that an upsert in progress is the only one of its
marker and knows whether the row exists and that its own time is not earlier; `ClockInv`, that no marker is later than the clock, gives this
when it starts. `ReadersInv` says that a page is of the place that was asked for (`Asked`), so the marker that the filter reads is the one that
hides its messages. From `HistoryAssumption`: rooms are not users, nor pairs of users.

`PagesInv` says, for each query, what a page may lack of the rows it was taken from (`basis`): nothing if it is shorter
than the limit (`LimitReached`), otherwise rows on the far side of all it has. Filters only remove what a marker hides; what the
first filter of a private page removed leaves `basis` too, since that marker may go back before the second is read. So this needs no `~Overlap`.

### MessageOutbound

| theorem | states |
|---|---|
| `TypeCorrect` | the type invariant |
| `UpIsServedCorrect` | when auth-service has been up for the longest call and the recovery time, the circuit is not open |
| `PinnedAddressCorrect` | a fetch never connects to a blocked address |
| `ParserFindsMetadataCorrect` | what a request answers is what its page says (`Deserved`), for pages of any length that are `WellFormed` |

`CircuitInv` says that no call lasts longer than `CallTime`, so that a late failure opens the circuit at most that long after
auth-service came up; `AddressInv`, that the address of a request which goes on was checked.

`WellFormed` is what Python's parser reports of correct HTML: a title has its text and then ends, and no tag or text is empty.
An empty `og:title` after a `title` would erase it, and one before it would be replaced by it. The reference
looks at the whole page (the last tag of a kind in the head, the first description), the parser at one tag at a time: `Reads` says
what it knows after `k` events, `ReadsNext` that one more event keeps this so, and `ParseFinds` that at the end it is the reference.

### Accounts

| theorem | states |
|---|---|
| `TypeCorrect` | the type invariant |
| `ChangesKeptCorrect` | a change of email or password is not undone by a request that read the row before it |
| `EmailsDistinctCorrect` | no two accounts have one address (as written) |

`IInv` is `RowsInv` (rows agree with the history), `TokensInv` and `ThreadsInv` (what a thread has read, and the second commit of a
reset is still to come).

### Sessions

| theorem | states | under |
|---|---|---|
| `TypeCorrect` | the type invariant | |
| `LoggedOutCorrect` | a logged-out token is refused by both services, Redis up or down | `Production` |
| `CodeOnceCorrect` | a code that was taken is not given to a request that begins later and asks for the mark within the window | `ReplayLife > 2 * Window` |

`RevokedInv`: the entry outlives the token it revokes. `OnceInv`: a code that was accepted has its mark for as long as its window lasts
(`MarksInv`), which is where the inequality comes from, and a request that began with such a code
does not come past the look for the mark (`HeldInv`). Requests may overlap and periods end anywhere. In the code `ReplayLife` is 90 s and the window 3 periods of 30 s.

### LegacyRooms

From `LegacyAssumption`, for any users, rooms and sockets:

| theorem | states |
|---|---|
| `RoomsTypeCorrect` | the type invariant |
| `MapsAgreeCorrect` | the five maps of the manager describe the same connections |
| `KicksAreOwedCorrect` | a user never has more kicks counted than connections whose disconnect is still to come, unless an endpoint of his crashed |
| `RoomHasAdminCorrect` | a room in use has an admin there, one that is being chosen, or one whose departure is being handled, but for rooms in which an endpoint crashed or an admin's departure was taken for a kick (`orphaned`) |

`RoomsTypeInv` is the type invariant with `Placed` (an endpoint past its handshake has a user and a room) and `Sound`: a registered
socket is in the room and of the user that its endpoint says (`Located`), stands as often in the join order as it is connected (`Counted`), and
`userToSocket` holds it (`Reached`). `KicksInv` bounds the
kicks of a user by the connections that he has yet to end (`Owing`), each of which consumes one, and the crashed ones, which
never will: without a crash that is the theorem. `CrashInv` says that the room of a crashed endpoint is `orphaned`, and `CareInv` who cares for an
occupied room: a connected admin, a handler that looks for a successor, or the ended endpoint of an admin that
will look for one (`Cared`).

A broadcast disconnects the sockets that are dead, in an order the model does not fix. `Drops` describes the result by
the set of sockets alone, and `DropAllIs` proves it of the fold, by induction over the set; every proof about
a relay goes through this description.

### LegacyMessages

From `MessagesAssumption`:

| theorem | states |
|---|---|
| `TypeCorrect` | the type invariant |
| `ShownIsKeptCorrect` | a broadcast room message is stored, dead-lettered, with the consumer or still to be read, but for the exceptions of `lapsed` |
| `PagesInOrderCorrect` | the two history queries return one connection's messages in the order in which they were sent |

`IInv`: every message of a topic is stored, dead-lettered, lapsed, in the consumer's hands or still to be read, both from the
consumer's position and from the committed offset (`KeptInv`), since a restart goes from one to the other; a consumer that is closing has given up what it
holds (`HeldInv`); messages lie in their own topic (`TopicsInv`); and a message is shown only after it was produced or stored (`ShownInv`).

`PagesInv` is for the pages. A row is written by the consumer, with the time the message was sent, or by the fallback, with the time of
writing (`RowsInv`); either way its time lies between its message and the connection's next one (`InPlace`), because a handler
awaits its fallback before it receives again, and what it is about to produce is in no topic and no row (`Turn`). Times differ, so
sorting has one result, which `SortedIs` computes: the row at place i has i - 1 rows before it.

### Only model-checked

Every safety property of a passing run is proved. The two liveness properties, `DepartureShown` and `Accounted`, are
only checked by TLC: they rest on fairness, hence on `ENABLED`, about which TLAPS does not reason.

What is computed by recursion over data (a relay over its dead sockets, a join order, a page through the
parser, a log into rows) is proved by hand-made induction: the library's induction theorems take an operator as parameter,
which the provers here cannot instantiate, but a *set* of naturals that holds 0 and every successor holds all (`NatSetInduction`), and this is first-order.
`SortSeq` and `SelectSeq` mean nothing to the provers; so pages are sorted by counting, and reference definitions choose positions.

## 5. What the models showed

**Finding: a kick and a leave of the same connection leave a flag behind**
(`ws_lifecycle.go:108`). `wasKicked || wasLeft` consumes one flag only; the other makes a
later departure silent. Run `kick_then_leave`.

Met while modelling, and kept as hazards or conditions rather than as runs:

*chat-service.*
* A list read earlier may be broadcast later and stays on the screens (`ws_lifecycle.go:28`), though
  lines 42-43 want "every user's online list" in sync.
* A logout during a handshake (`websocket.go:221`) leaves a room connection without lobby, which `manager.go:227-229` rules out.
* A handshake that read `is_active` before `CloseRoom` registers after it (`admin.go:210`).
* `removeFailedConns` leaves an empty room's key, so `RoomCount` counts it (`manager_room.go:200`).
* The balancer ignores the key (`producer.go:39`), although lines 53-54 say that messages of a room go to one
  partition: with six partitions a deletion can overtake its message.

*message-service.*
* When a dead-letter write fails (`persistence_consumer.py:379`) the next commit skips the message for good.
* An edit that read a row before it was deleted writes its text into the deleted row (`message_dal.py:118`), though
  the row stays deleted; with two consumers, a rebalance in the middle of an edit lets the older of two edits be
  written last. `ExactlyOnce` needs the single consumer of its run.
* Two overlapping clears of one conversation may commit in either order, and the earlier time
  then replaces the later one (`clear_dal.py:34`): with `Overlap` TRUE and two writers, TLC finds `ClearedStaysHidden` violated.
  Two first clears meet in the unique constraint and one request fails (`clear_dal.py:45`, `pm_deletion_dal.py:41`).
* The limit is applied before the markers: a page may be empty while later visible messages exist, and a client that
  replays has nothing to go on from. Replay cannot return what is still in Kafka, and a row stored late with an earlier
  `sent_at` is not in the replay after it; context leaves out messages of the target's own instant.
* Private pages are the oldest messages (`message_dal.py:106`), not the ones before `before` as
  `routers/messages.py:161-163` says.
* After its timeout the breaker lets every waiting caller through, where the comment (`auth_client.py:50`)
  speaks of "a probe request"; a late success closes it, a late failure restarts its timer; other `httpx` errors escape
  both retry and breaker.
* A late negative preview may overwrite a good one in the cache.
* Outside production, and if Redis was away at the start, message-service does not look at the blacklist (`security.py:62-63`).

*auth-service.*
* Uniqueness of addresses is by exact case and look-up by lower case, so two spellings of one address
  can both be registered at once. `update_email` does not catch the unique violation.
* A reset commits the password first and marks the token second: a crash between, or two resets at once,
  use a "single-use" token (`models/__init__.py:34`) twice. `Accounts` has these steps; a property that holds would have
  to leave them out, so none is stated.
* Checking a TOTP code for reuse and marking it are two calls: two requests of one user at once can both pass. The mark lives as
  long as the window (90 s), so a request that verified its code within the window and asks for the mark after it
  (`two_factor_service.py:57`) passes as well. `CodeOnce` is about every other request.
* Set-up, confirmation and removal each read the row and commit later. A removal, or a second set-up, that is
  committed between a confirmation's check and its commit leaves the second factor on without a secret, or with one that nobody
  confirmed, where the comment says "totp_secret must be present if 2FA is flagged as enabled"
  (`two_factor_service.py:192`). `Sessions` has these overlaps, so no such property is stated.
* A code is marked before the request commits, so a login that fails then burns it.

*v1.*
* Kicks are counted per user and not per room (`routers/websocket.py:402`); the departure of an admin from another room may be taken
  for the kick.
* Only `WebSocketDisconnect` runs the disconnect (`routers/websocket.py:191`). The greeting is sent outside the `try` (line 114);
  in the loop, malformed JSON, a message that is not an object (lines 153-154), an answer that cannot be sent, and receiving on a
  socket that the server closed while its handler was busy (closing a room does that) raise something else, as a binary frame does in the lobby. The
  endpoint ends, its socket stays registered until a broadcast meets it, nobody succeeds an admin, and a kick that was
  meant for it waits for the user's next departure. `KicksAreOwed` and `RoomHasAdmin` make these users and rooms exceptions.
* Auto-commit commits a message while it waits between two attempts (`consumers.py:101`): a crash then
  loses it; the message taken after the stop event is dropped and committed (lines 67-69).
* A produce error with the message in the topic all the same stores it twice, as the fallback row has no id (`routers/websocket.py:249`).
* Private messages have no fallback (line 285).

## 6. Not modelled

* *chat-service roles* (promotion on join, succession, mute, promote and their REST twins over
  PostgreSQL). The same rules are modelled in v1's form in `LegacyRooms`; what differs
  with goroutines and separate statements is listed under the hazards.
* *Lobby presence messages*: nothing in the server depends on their order.
* *file-service*: an upload writes disk, database and Kafka in turn and shares nothing with others. The *frontend*
  appears only as the client that modules assume. *Infrastructure, monitoring and tests* have no program state.
* In the modelled parts: rate limits, mail and message texts, mentions, reactions' emoji, sender names, typing and
  read positions; Redis losing its data and clocks that differ between processes (`Sessions`); several v1 processes over Redis,
  its database reset and REST routes for rooms and users (`LegacyRooms`); v1's HTTP route for private messages, which stores
  nothing (`LegacyMessages`). `CloseRooms` closes all sockets of a room in one step. The connection
  limit is modelled as the soft test it is; the code promises no exact bound.

## 7. Plan

In order of importance:

1. `RoomRoles`: goroutines per user over the tables of admins and mutes and the registry. Somebody
   connected is admin of an occupied room once all is quiet; nobody is a muted admin.
2. `FileEvents`: upload to disk, database and Kafka, and the chat-service consumer that announces files.
3. An abstract specification of the pipeline (each accepted request is applied, dead-lettered or reported
   lost) with `MessagePersistence` shown to implement it.
