---------------------------- MODULE LegacyMessages ----------------------------
(***************************************************************************)
(* The messages of the legacy backend (v1/backend).  A handler produces a  *)
(* message to Kafka and broadcasts it; the process's own consumer stores   *)
(* what the topics hold, under the message's id.  A room message that      *)
(* could not be produced is stored by the handler at once, without an id.  *)
(* Everything is a coroutine of one process, which may crash and restart.  *)
(*                                                                         *)
(* Messages are numbered in the order they are received.  A clock that     *)
(* moves with every reading gives them their times.  The topics outlive    *)
(* the process; broker and database lose nothing they have acknowledged.   *)
(***************************************************************************)
EXTENDS Integers, FiniteSets, Sequences

CONSTANTS Socket,        \* the connections that send; the next one of a client is another
          MaxMessages,   \* bound: messages received in all
          MaxFaults,     \* bound: crashes, restarts and losses of the broker's connection
          MaxRetries     \* MAX_RETRIES

ASSUME MessagesAssumption ==
    MaxMessages \in Nat /\ MaxFaults \in Nat /\ MaxRetries \in Nat \ {0}

VARIABLES clock,      \* the last reading of the clock
          sent,       \* message -> [by, topic, at]: who sent it, what it is, its timestamp
          handler,    \* socket -> what its handler is about to do, with which message
          server,     \* "up", "stopping" or "down"
          producer,   \* _kafka_available: the producer could be started
          log,        \* topic -> the messages it holds
          dlq,        \* the messages of chat.dlq
          committed,  \* topic -> offset of the consumer group
          consumer,   \* where the consumer is: its step, position, message and attempt
          rows,       \* the table: [message, id, at]
          shown,      \* messages broadcast
          lapsed,     \* messages the consumer gave up
          doubtful,   \* messages that reached the topic though the producer reports an error
          faults

process == <<handler, server, producer, consumer>>
broker  == <<log, dlq, committed>>
ghosts  == <<shown, lapsed, doubtful>>
vars    == <<clock, sent, process, broker, rows, ghosts, faults>>

Topic == {"messages", "private"}
Message == 1..Len(sent)
NoMessage == 0

Idle == [pc |-> "reading", message |-> NoMessage]
Off  == [pc |-> "off", position |-> [t \in Topic |-> 0], topic |-> "messages",
         message |-> NoMessage, attempt |-> 0]

Init ==
    /\ clock = 0 /\ sent = <<>> /\ rows = {} /\ faults = 0
    /\ handler = [c \in Socket |-> Idle]
    /\ server = "down" /\ producer = FALSE /\ consumer = Off
    /\ log = [t \in Topic |-> <<>>] /\ dlq = {} /\ committed = [t \in Topic |-> 0]
    /\ shown = {} /\ lapsed = {} /\ doubtful = {}

-----------------------------------------------------------------------------
(* The handlers *)

At(c, pc) == handler[c].pc = pc

\* A message that is neither refused nor empty, with its id and timestamp.
Receive(c, t) ==
    /\ server = "up" /\ At(c, "reading") /\ Len(sent) < MaxMessages
    /\ clock' = clock + 1
    /\ sent' = Append(sent, [by |-> c, topic |-> t, at |-> clock + 1])
    /\ handler' = [handler EXCEPT ![c] = [pc |-> "producing", message |-> Len(sent) + 1]]
    /\ UNCHANGED <<server, producer, consumer, broker, rows, ghosts, faults>>

TopicOf(m) == sent[m].topic
Appended(m) == log' = [log EXCEPT ![TopicOf(m)] = Append(@, m)]

Then(c, pc) == handler' = [handler EXCEPT ![c].pc = pc]

HandleChatMessage(c) == At(c, "producing") /\ TopicOf(handler[c].message) = "messages"
HandlePrivateMessage(c) == At(c, "producing") /\ TopicOf(handler[c].message) = "private"

\* The broker has the message and says so.
KafkaProduce(c) ==
    /\ HandleChatMessage(c) \/ HandlePrivateMessage(c)
    /\ producer /\ Appended(handler[c].message) /\ Then(c, "showing")
    /\ UNCHANGED <<clock, sent, server, producer, consumer, dlq, committed, rows, ghosts, faults>>

\* send_and_wait raised, or there is no producer: a broker that could not answer in
\* time may have the message.
ProduceFails(c) ==
    /\ \/ UNCHANGED <<log, doubtful>>
       \/ producer /\ Appended(handler[c].message) /\ doubtful' = doubtful \cup {handler[c].message}
    /\ UNCHANGED <<sent, server, producer, consumer, dlq, committed, shown, lapsed, faults>>

Create(m, id, at) == rows' = rows \cup {[message |-> m, id |-> id, at |-> at]}

\* Mutant: the message is shown all the same.
ShowAnyway(c) ==
    /\ HandleChatMessage(c) /\ ProduceFails(c)
    /\ UNCHANGED <<clock, rows>>
    /\ Then(c, "showing")

\* The fallback stores the message, or its error ends the endpoint.
SaveMessage(c) ==
    /\ HandleChatMessage(c) /\ ProduceFails(c)
    /\ \/ clock' = clock + 1 /\ Create(handler[c].message, NoMessage, clock + 1) /\ Then(c, "showing")
       \/ UNCHANGED <<clock, rows>> /\ Then(c, "crashed")

\* A private message has no fallback.
NotProduced(c) ==
    /\ HandlePrivateMessage(c) /\ ProduceFails(c)
    /\ UNCHANGED <<clock, rows>>
    /\ Then(c, "showing")

Broadcast(c) ==
    /\ At(c, "showing")
    /\ shown' = shown \cup {handler[c].message}
    /\ handler' = [handler EXCEPT ![c] = Idle]
    /\ UNCHANGED <<clock, sent, server, producer, consumer, broker, rows, lapsed, doubtful, faults>>

-----------------------------------------------------------------------------
(* The consumer *)

Consumer(pc) == consumer.pc = pc

CreateConsumer ==
    /\ Consumer("connecting")
    /\ consumer' = [consumer EXCEPT !.pc = "polling", !.position = committed]
    /\ UNCHANGED <<clock, sent, handler, server, producer, broker, rows, ghosts, faults>>

\* The next message is consumed; the one that comes after the stop is dropped.
Take(t) ==
    /\ Consumer("polling") /\ consumer.position[t] < Len(log[t])
    /\ LET m == log[t][consumer.position[t] + 1]
       IN  /\ consumer' = [pc       |-> IF server = "up" THEN "processing" ELSE "closing",
                            position |-> [consumer.position EXCEPT ![t] = @ + 1],
                            topic    |-> t, message |-> m, attempt |-> 1]
           /\ lapsed' = IF server = "up" THEN lapsed ELSE lapsed \cup {m}
    /\ UNCHANGED <<clock, sent, handler, server, producer, broker, rows, shown, doubtful, faults>>

Polling == [consumer EXCEPT !.pc = "polling", !.message = NoMessage, !.attempt = 0]

\* Mutant: stored under the time of the insertion.
PersistNow(m) ==
    /\ clock' = clock + 1
    /\ IF \E r \in rows : r.id = m THEN UNCHANGED rows ELSE Create(m, m, clock + 1)

CreateIdempotent(m) ==
    /\ IF \E r \in rows : r.id = m THEN UNCHANGED rows ELSE Create(m, m, sent[m].at)
    /\ UNCHANGED clock

\* Mutant: one attempt more.
PastLastAttempt == consumer.attempt > MaxRetries

LastAttempt == consumer.attempt = MaxRetries

\* _process: stored, or an error.
Process ==
    /\ Consumer("processing")
    /\ \/ CreateIdempotent(consumer.message) /\ consumer' = Polling
       \/ /\ consumer' = IF LastAttempt
                         THEN [consumer EXCEPT !.pc = "giving up"]
                         ELSE [consumer EXCEPT !.attempt = @ + 1]
          /\ UNCHANGED <<clock, rows>>
    /\ UNCHANGED <<sent, handler, server, producer, broker, ghosts, faults>>

\* A failing write to the DLQ is only logged.
SendToDlq ==
    /\ Consumer("giving up")
    /\ \/ producer /\ dlq' = dlq \cup {consumer.message} /\ UNCHANGED lapsed
       \/ lapsed' = lapsed \cup {consumer.message} /\ UNCHANGED dlq
    /\ consumer' = Polling
    /\ UNCHANGED <<clock, sent, handler, server, producer, log, committed, rows, shown, doubtful, faults>>

\* The task waits: for a message, before another attempt or for the DLQ.
Waiting ==
    \/ Consumer("polling") \/ Consumer("giving up")
    \/ Consumer("processing") /\ consumer.attempt > 1

\* enable_auto_commit: while the task waits, what it has taken is committed, stored or not.
AutoCommit ==
    /\ Waiting /\ committed' = consumer.position
    /\ UNCHANGED <<clock, sent, process, log, dlq, rows, ghosts, faults>>

\* The connection to the broker breaks: a new consumer after five seconds.
Disconnected ==
    /\ Consumer("polling") /\ faults < MaxFaults
    /\ consumer' = [consumer EXCEPT !.pc = "closing"]
    /\ faults' = faults + 1
    /\ UNCHANGED <<clock, sent, handler, server, producer, broker, rows, ghosts>>

\* consumer.stop() commits once more, if it can.
Close ==
    /\ Consumer("closing")
    /\ committed' \in {committed, consumer.position}
    /\ consumer' = [Off EXCEPT !.pc = IF server = "up" THEN "connecting" ELSE "off"]
    /\ UNCHANGED <<clock, sent, handler, server, producer, log, dlq, rows, ghosts, faults>>

-----------------------------------------------------------------------------
(* The process *)

StartProducer == producer' \in BOOLEAN

StopProducer == producer' = FALSE

Startup ==
    /\ server = "down" /\ server' = "up"
    /\ StartProducer
    /\ consumer' = [Off EXCEPT !.pc = "connecting"]
    /\ handler' = [c \in Socket |-> Idle]
    /\ UNCHANGED <<clock, sent, broker, rows, ghosts, faults>>

\* The shutdown begins when the connections are closed.
Stop ==
    /\ server = "up" /\ faults < MaxFaults
    /\ \A c \in Socket : handler[c].pc \in {"reading", "crashed"}
    /\ server' = "stopping" /\ faults' = faults + 1
    /\ UNCHANGED <<clock, sent, handler, producer, consumer, broker, rows, ghosts>>

\* Ten seconds later the task is cancelled wherever it waits, with its message.
Cancel ==
    /\ server = "stopping"
    /\ Waiting \/ Consumer("connecting")
    /\ consumer' = [consumer EXCEPT !.pc = "closing"]
    /\ lapsed' = lapsed \cup ({consumer.message} \ {NoMessage})
    /\ UNCHANGED <<clock, sent, handler, server, producer, broker, rows, shown, doubtful, faults>>

Shutdown ==
    /\ server = "stopping" /\ Consumer("off")
    /\ server' = "down" /\ StopProducer
    /\ UNCHANGED <<clock, sent, handler, consumer, broker, rows, ghosts, faults>>

\* What was taken and committed but not stored is not read again.
Unread(t, from) == {log[t][i] : i \in from + 1 .. Len(log[t])}

Crash ==
    /\ server # "down" /\ faults < MaxFaults
    /\ server' = "down" /\ producer' = FALSE /\ consumer' = Off
    /\ handler' = [c \in Socket |-> Idle]
    /\ lapsed' = lapsed \cup {m \in {consumer.message} \ {NoMessage} :
                                 m \notin Unread(consumer.topic, committed[consumer.topic])}
    /\ faults' = faults + 1
    /\ UNCHANGED <<clock, sent, broker, rows, shown, doubtful>>

Next ==
    \/ \E c \in Socket, t \in Topic : Receive(c, t)
    \/ \E c \in Socket : KafkaProduce(c)
    \/ \E c \in Socket : SaveMessage(c)
    \/ \E c \in Socket : NotProduced(c)
    \/ \E c \in Socket : Broadcast(c)
    \/ CreateConsumer
    \/ \E t \in Topic : Take(t)
    \/ Process
    \/ SendToDlq
    \/ AutoCommit
    \/ Disconnected
    \/ Close
    \/ Startup
    \/ Stop
    \/ Cancel
    \/ Shutdown
    \/ Crash

Spec == Init /\ [][Next]_vars

-----------------------------------------------------------------------------
(* Reading *)

\* What the queries give: rows of the room, by time.
RoomRows == {r \in rows : TopicOf(r.message) = "messages"}

\* The times differ: the i-th row is the one that i - 1 rows precede.
Sorted(S) ==
    [i \in 1..Cardinality(S) |-> CHOOSE r \in S : Cardinality({q \in S : q.at < r.at}) = i - 1]

GetRoomHistory(limit) ==
    Sorted({r \in RoomRows : Cardinality({q \in RoomRows : q.at > r.at}) < limit})

GetByRoomSince(since, limit) ==
    Sorted({r \in RoomRows : /\ r.at >= since
                             /\ Cardinality({q \in RoomRows : since <= q.at /\ q.at < r.at}) < limit})

-----------------------------------------------------------------------------
(* Properties *)

Step == {"reading", "producing", "showing", "crashed"}

\* The values of the variables; a consumer has a message exactly while it works on
\* one, and reads no further than its topics go.
TypeOK ==
    /\ clock \in Nat /\ faults \in 0..MaxFaults /\ producer \in BOOLEAN
    /\ sent \in Seq([by : Socket, topic : Topic, at : Nat]) /\ Len(sent) <= MaxMessages
    /\ handler \in [Socket -> [pc : Step, message : Message \cup {NoMessage}]]
    /\ server \in {"up", "stopping", "down"}
    /\ log \in [Topic -> Seq(Message)] /\ dlq \subseteq Message /\ committed \in [Topic -> Nat]
    /\ consumer \in [pc : {"off", "connecting", "polling", "processing", "giving up", "closing"},
                     position : [Topic -> Nat], topic : Topic,
                     message : Message \cup {NoMessage}, attempt : 0..MaxRetries]
    /\ consumer.pc \in {"processing", "giving up"} => consumer.message \in Message
    /\ consumer.pc = "polling" => consumer.message = NoMessage
    /\ \A t \in Topic : committed[t] <= Len(log[t]) /\ consumer.position[t] <= Len(log[t])
    /\ rows \subseteq [message : Message, id : Message \cup {NoMessage}, at : Nat]
    /\ shown \cup lapsed \cup doubtful \subseteq Message

Stored(m) == \E r \in rows : r.message = m

\* Where the consumer is going to read on, after a restart if it is off.
ReadFrom(t) ==
    IF consumer.pc \in {"polling", "processing", "giving up"}
    THEN consumer.position[t] ELSE committed[t]

\* "The WebSocket handler produces messages to Kafka for durability" and
\* "Dead Letter Queue: after 3 retries" (consumers.py:3-10): a room message that
\* was broadcast is in the table, in the DLQ, in the consumer's hands or still to
\* be read, through every failure, crash and restart.  The exceptions are those
\* the code has: a DLQ write that fails, the message taken while the process
\* stops, and a crash or shutdown between two attempts, when it is committed.
ShownIsKept ==
    \A m \in shown :
        TopicOf(m) = "messages" =>
            \/ Stored(m) \/ m \in dlq \/ m \in lapsed
            \/ consumer.message = m
            \/ m \in Unread("messages", ReadFrom("messages"))

InOrder(page) ==
    \A i, j \in DOMAIN page :
        LET m == page[i].message  n == page[j].message
        IN  /\ i < j /\ sent[m].by = sent[n].by => m <= n
            /\ i < j /\ m = n => m \in doubtful

\* "Idempotent writes via message_id UUID" (consumers.py:8): a page of the history
\* or of a replay has what one connection sent in the order it was sent, and has
\* it once, whether it came by way of the topic, late and repeatedly, or by the
\* fallback.  Only a message that the producer gave up on and the broker had all
\* the same is there twice.
PagesInOrder ==
    \A limit \in 1..MaxMessages :
        /\ InOrder(GetRoomHistory(limit))
        /\ \A since \in 0..clock : InOrder(GetByRoomSince(since, limit))
=============================================================================
