------------------------- MODULE MessagePersistence -------------------------
(***************************************************************************)
(* From a chat command to a database row: the Kafka producer of            *)
(* chat-service (kafka/producer.go), the topics chat.messages and          *)
(* chat.private, the persistence consumers of message-service              *)
(* (persistence_consumer.py) and its data access layer (message_dal.py,    *)
(* reaction_dal.py), which the REST handlers that edit and delete share.   *)
(*                                                                         *)
(* A slot <<p, i>> is entry i of partition p.  A worker is whoever runs a  *)
(* function of the data access layer: a consumer, which gets its request   *)
(* from the log, or a REST handler, which gets it from the user.  Edits    *)
(* and deletions read the row and then update it, in two steps.            *)
(***************************************************************************)
EXTENDS Integers, FiniteSets, SequencesExt

CONSTANTS Message,      \* message ids
          Text,         \* texts a user may write
          Tombstone,    \* "[deleted]"
          NoRow,        \* a message that is not in the database
          Sender,       \* connections whose readLoop produces to Kafka
          Partition,    \* partitions of the consumed topics
          Consumer,     \* message-service processes
          Handler,      \* threads that serve PATCH /edit and DELETE /delete
          Nobody,       \* owner of a partition that is not assigned
          MaxAttempts,  \* MAX_RETRIES (persistence_consumer.py)
          MaxRequests,  \* bound: commands of users
          MaxFaults     \* bound: crashes, rebalances, repeated writes

Content == Text \cup {Tombstone}
Row     == [content : Content, deleted : BOOLEAN]
Update  == [op : {"edit"}, msg : Message, text : Text]
              \cup [op : {"delete"}, msg : Message, text : {Tombstone}]
Request == Update \cup [op : {"create"}, msg : Message, text : Text]
              \cup [op : {"react", "unreact"}, msg : Message, text : {Tombstone}]
Worker  == Consumer \cup Handler
Slot    == Partition \X (Nat \ {0})

ASSUME PersistenceAssumption ==
    /\ NoRow \notin Row
    /\ Nobody \notin Consumer
    /\ Consumer \cap Handler = {}
    /\ Tombstone \notin Text
    /\ MaxAttempts \in Nat \ {0}
    /\ MaxRequests \in Nat
    /\ MaxFaults \in Nat

VARIABLES shown,      \* messages that were broadcast, so that clients know them
          outbox,     \* sender -> request and partition its WriteMessages call has
          log,        \* partition -> requests written to it
          rows,       \* message -> its row of table messages
          reactions,  \* messages with a row in table reactions
          committed,  \* partition -> committed offset
          owner,      \* partition -> consumer it is assigned to
          position,   \* consumer -> partition -> entries it has fetched
          pc,         \* worker -> where it stands
          cur,        \* consumer -> slot it works on
          attempt,    \* consumer -> number of the current attempt, 1 between messages
          asked,      \* handler -> the user's request
          loaded,     \* worker -> row it read
          done,       \* history: slots _process has returned for
          deadLetter, \* history: slots written to chat.dlq
          dropped,    \* history: slots whose write to chat.dlq failed
          requests,   \* commands so far, for the bound
          faults      \* faults so far, for the bound

vars == <<shown, outbox, log, rows, reactions, committed, owner, position, pc, cur,
          attempt, asked, loaded, done, deadLetter, dropped, requests, faults>>

kafka    == <<log, committed, owner, position>>
database == <<rows, reactions>>
history  == <<done, deadLetter, dropped>>
producer == <<shown, outbox>>
locals   == <<cur, attempt, asked, loaded>>

Alive   == {c \in Consumer : pc[c] # "down"}
Settled == done \cup deadLetter \cup dropped
Entry(s) == log[s[1]][s[2]]
Job(w)   == IF w \in Consumer THEN Entry(cur[w]) ELSE asked[w]

Goto(w, from, to) == pc[w] = from /\ pc' = [pc EXCEPT ![w] = to]

----------------------------------------------------------------------------
Init ==
    /\ shown      = {}
    /\ outbox     = [s \in Sender |-> {}]
    /\ log        = [p \in Partition |-> <<>>]
    /\ rows       = [m \in Message |-> NoRow]
    /\ reactions  = {}
    /\ committed  = [p \in Partition |-> 0]
    /\ owner      = [p \in Partition |-> Nobody]
    /\ position   = [c \in Consumer |-> committed]
    /\ pc         = [w \in Worker |-> IF w \in Consumer THEN "down" ELSE "idle"]
    /\ cur        \in [Consumer -> Partition \X {1}]
    /\ attempt    = [c \in Consumer |-> 1]
    /\ asked      \in [Handler -> Update]
    /\ loaded     = [w \in Worker |-> NoRow]
    /\ done       = {}
    /\ deadLetter = {}
    /\ dropped    = {}
    /\ requests   = 0
    /\ faults     = 0

----------------------------------------------------------------------------
(* chat-service.                                                           *)

\* A command is broadcast and then produced; WriteMessages picks a partition by
\* load, whatever the key is.  Only messages that were broadcast can be edited,
\* deleted or reacted to; nobody else's message id is reused.
Command(s, q, p) ==
    /\ requests < MaxRequests /\ requests' = requests + 1
    /\ outbox[s] = {}
    /\ IF q.op = "create" THEN q.msg \notin shown ELSE q.msg \in shown
    /\ shown'  = shown \cup {q.msg}
    /\ outbox' = [outbox EXCEPT ![s] = {<<q, p>>}]
    /\ UNCHANGED <<kafka, database, pc, locals, history, faults>>

\* The broker writes the request.  When its acknowledgement is lost the call
\* writes once more, to the same partition.
Produce(s) ==
    /\ \E o \in outbox[s] : log' = [log EXCEPT ![o[2]] = Append(@, o[1])]
    /\ \/ outbox' = [outbox EXCEPT ![s] = {}] /\ UNCHANGED faults
       \/ faults < MaxFaults /\ faults' = faults + 1 /\ UNCHANGED outbox
    /\ UNCHANGED <<shown, database, committed, owner, position, pc, locals, history, requests>>

\* WriteMessages returns an error: logged, and the command is not stored.
ProduceFails(s) ==
    /\ outbox[s] # {}
    /\ outbox' = [outbox EXCEPT ![s] = {}]
    /\ UNCHANGED <<shown, kafka, database, pc, locals, history, requests, faults>>

----------------------------------------------------------------------------
(* The consumer group.                                                     *)

Start(c) ==
    /\ Goto(c, "down", "idle")
    /\ UNCHANGED <<producer, kafka, database, locals, history, requests, faults>>

\* The process dies or is stopped, or the loop of _run fails and reconnects.
Crash(c) ==
    /\ faults < MaxFaults /\ faults' = faults + 1
    /\ c \in Alive
    /\ pc'    = [pc EXCEPT ![c] = "down"]
    /\ owner' = [p \in Partition |-> IF owner[p] = c THEN Nobody ELSE owner[p]]
    /\ attempt' = [attempt EXCEPT ![c] = 1]
    /\ loaded'  = [loaded EXCEPT ![c] = NoRow]
    /\ UNCHANGED <<producer, log, committed, position, database, cur, asked, history, requests>>

\* Mutant: members keep their positions across a rebalance.
AssignKeepsPositions(f) ==
    /\ owner'    = f
    /\ UNCHANGED position

\* All members get a new assignment and go on from the committed offsets; a
\* member that is processing a message does not notice.
Assign(f) ==
    /\ owner'    = f
    /\ position' = [c \in Consumer |-> committed]

\* A partition without owner is assigned soon; other rebalances are faults.
Rebalance ==
    /\ \E f \in [Partition -> Alive] : Assign(f)
    /\ \/ (\E p \in Partition : owner[p] = Nobody) /\ UNCHANGED faults
       \/ faults < MaxFaults /\ faults' = faults + 1
    /\ UNCHANGED <<producer, log, committed, database, pc, locals, history, requests>>

\* "async for msg in consumer".
Fetch(c, p) ==
    /\ owner[p] = c
    /\ position[c][p] < Len(log[p])
    /\ Goto(c, "idle", "process")
    /\ position' = [position EXCEPT ![c][p] = @ + 1]
    /\ cur'      = [cur EXCEPT ![c] = <<p, position[c][p] + 1>>]
    /\ UNCHANGED <<producer, log, committed, owner, database, attempt, asked, loaded,
                   history, requests, faults>>

----------------------------------------------------------------------------
(* The data access layer, for a consumer (_process) or a REST handler.     *)

\* PATCH /edit or DELETE /delete of a message.
RestRequest(h, q) ==
    /\ q.msg \in shown
    /\ Goto(h, "idle", "process")
    /\ asked' = [asked EXCEPT ![h] = q]
    /\ UNCHANGED <<producer, kafka, database, cur, attempt, loaded, history, requests, faults>>

\* _process returns, and the offset is committed next; or the handler answers.
Returns(w, from) ==
    IF w \in Consumer
    THEN Goto(w, from, "commit") /\ done' = done \cup {cur[w]}
    ELSE Goto(w, from, "idle") /\ UNCHANGED done

\* Mutant: the insert replaces a row that exists.
InsertReplaces(m, t) == rows' = [rows EXCEPT ![m] = [content |-> t, deleted |-> FALSE]]

\* create_idempotent: an existing row is kept; so it is when the unique
\* constraint finds one that was inserted after the query.
Insert(m, t) ==
    rows' = IF rows[m] = NoRow
            THEN [rows EXCEPT ![m] = [content |-> t, deleted |-> FALSE]]
            ELSE rows

Create(w) ==
    /\ pc[w] = "process" /\ Job(w).op = "create"
    /\ Insert(Job(w).msg, Job(w).text)
    /\ Returns(w, "process")
    /\ UNCHANGED <<producer, kafka, reactions, locals, deadLetter, dropped, requests, faults>>

\* edit_message and soft_delete_message read the row; a missing or deleted row
\* ends the call.
Load(w) ==
    /\ pc[w] = "process" /\ Job(w).op \in {"edit", "delete"}
    /\ LET row == rows[Job(w).msg]
       IN  IF row = NoRow \/ row.deleted
           THEN Returns(w, "process") /\ UNCHANGED loaded
           ELSE /\ Goto(w, "process", "write")
                /\ loaded' = [loaded EXCEPT ![w] = row]
                /\ UNCHANGED done
    /\ UNCHANGED <<producer, kafka, database, cur, attempt, asked, deadLetter, dropped,
                   requests, faults>>

\* The commit sends an UPDATE of the columns whose value differs from the one
\* read.  The row cannot have gone, but it may have changed.
Write(w) ==
    /\ Returns(w, "write")
    /\ LET q == Job(w)
       IN  rows' = [rows EXCEPT ![q.msg] =
               [content |-> IF q.text = loaded[w].content THEN @.content ELSE q.text,
                deleted |-> @.deleted \/ q.op = "delete"]]
    /\ loaded' = [loaded EXCEPT ![w] = NoRow]
    /\ UNCHANGED <<producer, kafka, reactions, cur, attempt, asked, deadLetter, dropped,
                   requests, faults>>

\* add_reaction and remove_reaction, one statement each.
React(w) ==
    /\ pc[w] = "process" /\ Job(w).op \in {"react", "unreact"}
    /\ reactions' = IF Job(w).op = "react" THEN reactions \cup {Job(w).msg}
                    ELSE reactions \ {Job(w).msg}
    /\ Returns(w, "process")
    /\ UNCHANGED <<producer, kafka, rows, locals, deadLetter, dropped, requests, faults>>

HandlerFails(h) ==
    /\ pc[h] \in {"process", "write"}
    /\ pc'     = [pc EXCEPT ![h] = "idle"]
    /\ loaded' = [loaded EXCEPT ![h] = NoRow]
    /\ UNCHANGED <<producer, kafka, database, cur, attempt, asked, history, requests, faults>>

----------------------------------------------------------------------------
(* _process_with_retry and _send_to_dlq.                                   *)

\* Mutant: the attempt counter never advances.
RetryForever(c) ==
    /\ pc[c] \in {"process", "write", "commit"}
    /\ pc'     = [pc EXCEPT ![c] = "process"]
    /\ loaded' = [loaded EXCEPT ![c] = NoRow]
    /\ UNCHANGED <<producer, kafka, database, cur, attempt, asked, history, requests, faults>>

\* Mutant: one attempt too many.
RetryOnceMore(c) ==
    /\ pc[c] \in {"process", "write", "commit"}
    /\ IF attempt[c] <= MaxAttempts
       THEN /\ pc' = [pc EXCEPT ![c] = "process"]
            /\ attempt' = [attempt EXCEPT ![c] = @ + 1]
       ELSE /\ pc' = [pc EXCEPT ![c] = "dead"]
            /\ UNCHANGED attempt
    /\ loaded' = [loaded EXCEPT ![c] = NoRow]
    /\ UNCHANGED <<producer, kafka, database, cur, asked, history, requests, faults>>

\* The database, the auth service or the commit fails: try again, at most
\* MaxAttempts times.  A write whose acknowledgement is lost is a Write
\* followed by this.
Retry(c) ==
    /\ pc[c] \in {"process", "write", "commit"}
    /\ IF attempt[c] < MaxAttempts
       THEN /\ pc' = [pc EXCEPT ![c] = "process"]
            /\ attempt' = [attempt EXCEPT ![c] = @ + 1]
       ELSE /\ pc' = [pc EXCEPT ![c] = "dead"]
            /\ UNCHANGED attempt
    /\ loaded' = [loaded EXCEPT ![c] = NoRow]
    /\ UNCHANGED <<producer, kafka, database, cur, asked, history, requests, faults>>

\* Mutant: the offset is committed before the message is processed.
CommitFirst(c) ==
    /\ pc[c] \in {"process", "commit"}
    /\ pc' = [pc EXCEPT ![c] = IF @ = "commit" THEN "idle" ELSE @]
    /\ committed' = [p \in Partition |->
                        IF owner[p] = c THEN position[c][p] ELSE committed[p]]
    /\ attempt' = [attempt EXCEPT ![c] = 1]
    /\ UNCHANGED <<producer, log, owner, position, database, cur, asked, loaded, history,
                   requests, faults>>

\* consumer.commit(): the positions of all partitions assigned to c.
Commit(c) ==
    /\ Goto(c, "commit", "idle")
    /\ committed' = [p \in Partition |->
                        IF owner[p] = c THEN position[c][p] ELSE committed[p]]
    /\ attempt' = [attempt EXCEPT ![c] = 1]
    /\ UNCHANGED <<producer, log, owner, position, database, cur, asked, loaded, history,
                   requests, faults>>

\* TRUE or FALSE.
ProduceToDlq(c) ==
    \/ deadLetter' = deadLetter \cup {cur[c]} /\ UNCHANGED dropped
    \/ dropped' = dropped \cup {cur[c]} /\ UNCHANGED deadLetter

\* Whichever it is, the loop goes on, without a commit.
SendToDlq(c) ==
    /\ Goto(c, "dead", "idle")
    /\ ProduceToDlq(c)
    /\ attempt' = [attempt EXCEPT ![c] = 1]
    /\ UNCHANGED <<producer, kafka, database, cur, asked, loaded, done, requests, faults>>

----------------------------------------------------------------------------
Execute(w) == Create(w) \/ Load(w) \/ Write(w) \/ React(w)

ConsumerStep(c) ==
    \/ Start(c)
    \/ \E p \in Partition : Fetch(c, p)
    \/ Execute(c)
    \/ Retry(c) \/ Commit(c) \/ SendToDlq(c)

Next ==
    \/ \E s \in Sender, q \in Request, p \in Partition : Command(s, q, p)
    \/ \E s \in Sender : Produce(s) \/ ProduceFails(s)
    \/ \E c \in Consumer : ConsumerStep(c) \/ Crash(c)
    \/ Rebalance
    \/ \E h \in Handler, q \in Update : RestRequest(h, q)
    \/ \E h \in Handler : Execute(h) \/ HandlerFails(h)

Spec == Init /\ [][Next]_vars

\* Consumers are scheduled and restarted, and the group coordinator assigns
\* partitions that have no owner.
Fairness ==
    /\ \A c \in Consumer : WF_vars(ConsumerStep(c))
    /\ WF_vars(Rebalance /\ faults' = faults)

FairSpec == Spec /\ Fairness

----------------------------------------------------------------------------
(* Properties.                                                             *)

TypeOK ==
    /\ shown      \subseteq Message
    /\ outbox     \in [Sender -> SUBSET (Request \X Partition)]
    /\ log        \in [Partition -> Seq(Request)]
    /\ rows       \in [Message -> Row \cup {NoRow}]
    /\ reactions  \subseteq Message
    /\ committed  \in [Partition -> Nat]
    /\ owner      \in [Partition -> Consumer \cup {Nobody}]
    /\ position   \in [Consumer -> [Partition -> Nat]]
    /\ pc         \in [Worker -> {"down", "idle", "process", "write", "commit", "dead"}]
    /\ cur        \in [Consumer -> Slot]
    /\ attempt    \in [Consumer -> 1..MaxAttempts]
    /\ asked      \in [Handler -> Update]
    /\ loaded     \in [Worker -> Row \cup {NoRow}]
    /\ done \cup deadLetter \cup dropped \subseteq Slot
    /\ requests   \in 0..MaxRequests
    /\ faults     \in 0..MaxFaults

\* "Commits the Kafka offset only after the message is successfully persisted"
\* (persistence_consumer.py:112-113), with what the code does when it gives up:
\* no offset is committed over a message that was neither processed nor handed to
\* _send_to_dlq, whatever crashes, rebalances and retries come in between.
CommittedAccounted ==
    \A p \in Partition : \A i \in 1..committed[p] : <<p, i>> \in Settled

\* A consumer that lost a partition while it was busy never moves the group's
\* offset back when it commits (persistence_consumer.py:125).
OffsetsAdvance ==
    [][\A p \in Partition : committed[p] <= committed'[p]]_vars

\* Redelivered, repeated and concurrent writes never undo a deletion or lose a
\* row: create_idempotent and the tests of edit_message and soft_delete_message
\* (message_dal.py:11-50, 108-138).
DeletionSticks ==
    [][\A m \in Message :
          /\ rows[m] # NoRow => rows'[m] # NoRow
          /\ rows[m] # NoRow /\ rows[m].deleted => rows'[m].deleted]_vars

\* Every message in the log is processed, dead-lettered or reported as lost sooner
\* or later (persistence_consumer.py:109-143).  The log is bounded and slots stay
\* settled, so this says the same as one leads-to formula for each slot.
Accounted ==
    []<>(\A p \in Partition : \A i \in 1..Len(log[p]) : <<p, i>> \in Settled)

\* The row of message m after a request, when requests are applied one by one.
After(m, row, q) ==
    CASE q.msg = m /\ q.op = "create" /\ row = NoRow -> [content |-> q.text, deleted |-> FALSE]
      [] q.msg = m /\ q.op = "edit" /\ row # NoRow /\ ~row.deleted ->
            [row EXCEPT !.content = q.text]
      [] q.msg = m /\ q.op = "delete" /\ row # NoRow /\ ~row.deleted ->
            [content |-> Tombstone, deleted |-> TRUE]
      [] OTHER -> row

\* "Kafka retries + DB uniqueness = exactly-once semantics" (overview.md:997):
\* when every log is consumed and nothing was given up, each row is what
\* applying its requests once, in the order of its partition, gives.
ExactlyOnce ==
    /\ \A w \in Worker : pc[w] = "idle"
    /\ \A p \in Partition : owner[p] # Nobody /\ position[owner[p]][p] = Len(log[p])
    /\ deadLetter \cup dropped = {}
    => \A p \in Partition, m \in Message :
         (\A s \in Partition \ {p} : \A i \in 1..Len(log[s]) : log[s][i].msg # m) =>
            rows[m] = FoldLeft(LAMBDA row, q : After(m, row, q), NoRow, log[p])
=============================================================================
