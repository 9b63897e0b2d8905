--------------------- MODULE MessagePersistence_proofs ---------------------
(***************************************************************************)
(* Theorems about MessagePersistence, for any messages, partitions,        *)
(* consumers and handlers, and for any bounds: the type invariant, that no *)
(* offset is committed over a message nobody accounted for, that offsets   *)
(* never go back, and that deletions stick.  With one sender and one       *)
(* consumer, that every row is what its log makes of it.                   *)
(***************************************************************************)
EXTENDS MessagePersistence, FiniteSetTheorems, WellFoundedInduction, TLAPS

\* A consumer between Fetch and the end of _process_with_retry.
Busy(c) == pc[c] \in {"process", "write", "commit", "dead"}

\* A busy consumer's slot is in the log.
CurInLog ==
    \A c \in Consumer : Busy(c) => cur[c][2] \in 1..Len(log[cur[c][1]])

\* A worker about to update a row finds it.
WriteHasRow ==
    \A w \in Worker : pc[w] = "write" => rows[Job(w).msg] # NoRow

\* The owner of a partition has fetched everything that is committed, and all it
\* has fetched is settled, except what it is working on.
FetchedAccounted ==
    \A c \in Consumer, p \in Partition :
        owner[p] = c =>
            /\ committed[p] <= position[c][p]
            /\ \A i \in 1..position[c][p] :
                  <<p, i>> \in Settled \/ (Busy(c) /\ cur[c] = <<p, i>>)

\* A consumer commits only when _process has returned.
CommitAfterDone ==
    \A c \in Consumer : pc[c] = "commit" => cur[c] \in done

IInv ==
    /\ TypeOK
    /\ CurInLog
    /\ WriteHasRow
    /\ CommittedAccounted
    /\ FetchedAccounted
    /\ CommitAfterDone

----------------------------------------------------------------------------
(* Data.                                                                   *)

\* Every request names a message and a content; the REST requests are requests.
LEMMA RequestFields ==
    /\ \A q \in Request : q.msg \in Message /\ q.text \in Content
    /\ Update \subseteq Request
BY DEF Request, Update, Content

\* A row that a worker builds is a row, and no row is NoRow.
LEMMA RowFields ==
    /\ \A t \in Content, d \in BOOLEAN : [content |-> t, deleted |-> d] \in Row
    /\ \A r \in Row : r # NoRow /\ r.content \in Content /\ r.deleted \in BOOLEAN
BY PersistenceAssumption DEF Row

\* Appending to a log keeps what is in it.
LEMMA AppendKeeps ==
    ASSUME NEW S, NEW l \in Seq(S), NEW q \in S
    PROVE  /\ Append(l, q) \in Seq(S)
           /\ \A i \in 1..Len(l) : i \in 1..Len(Append(l, q)) /\ Append(l, q)[i] = l[i]
  OBVIOUS

\* A busy consumer works on a request, and so does a busy handler.
LEMMA JobTyped ==
    ASSUME IInv, NEW w \in Worker, pc[w] \in {"process", "write"}
    PROVE  Job(w) \in Request
<1>1. CASE w \in Consumer
  <2>1. cur[w] \in Slot /\ cur[w][2] \in 1..Len(log[cur[w][1]])
    BY <1>1 DEF IInv, TypeOK, CurInLog, Busy
  <2>2. cur[w][1] \in Partition /\ log[cur[w][1]] \in Seq(Request)
    BY <2>1 DEF Slot, IInv, TypeOK
  <2> QED
    BY <1>1, <2>1, <2>2 DEF Job, Entry
<1>2. CASE w \notin Consumer
  <2>1. asked[w] \in Update
    BY <1>2 DEF Worker, IInv, TypeOK
  <2> QED
    BY <1>2, <2>1, RequestFields DEF Job
<1> QED
  BY <1>1, <1>2

----------------------------------------------------------------------------
(* The initial state.                                                      *)

LEMMA InitIInv == Init => IInv
<1> SUFFICES ASSUME Init PROVE IInv
  OBVIOUS
<1> USE DEF Init
<1>1. TypeOK
  <2>1. cur \in [Consumer -> Slot]
    BY DEF Slot
  <2>2. /\ log \in [Partition -> Seq(Request)]
        /\ outbox \in [Sender -> SUBSET (Request \X Partition)]
        /\ pc \in [Worker -> {"down", "idle", "process", "write", "commit", "dead"}]
        /\ owner \in [Partition -> Consumer \cup {Nobody}]
        /\ committed \in [Partition -> Nat]
        /\ position \in [Consumer -> [Partition -> Nat]]
        /\ attempt \in [Consumer -> 1..MaxAttempts]
    BY PersistenceAssumption
  <2> QED
    BY <2>1, <2>2, PersistenceAssumption DEF TypeOK
<1>2. \A w \in Worker : pc[w] \in {"down", "idle"}
  OBVIOUS
<1>3. CurInLog /\ WriteHasRow /\ CommitAfterDone
  BY <1>2 DEF CurInLog, WriteHasRow, CommitAfterDone, Busy, Worker
<1>4. CommittedAccounted
  BY DEF CommittedAccounted
<1>5. FetchedAccounted
  <2>1. \A p \in Partition : owner[p] = Nobody
    OBVIOUS
  <2> QED
    BY <2>1, PersistenceAssumption DEF FetchedAccounted
<1> QED
  BY <1>1, <1>3, <1>4, <1>5 DEF IInv

----------------------------------------------------------------------------
(* What the log and the database do to the invariant.                      *)

\* Steps of chat-service only append to the log.
LEMMA LogGrows ==
    ASSUME IInv, TypeOK',
           UNCHANGED <<database, committed, owner, position, pc, cur, asked, history>>,
           \A p \in Partition : \A i \in 1..Len(log[p]) :
               i \in 1..Len(log'[p]) /\ log'[p][i] = log[p][i]
    PROVE  IInv'
<1> USE DEF database, history
<1>1. \A c \in Consumer : Busy(c) =>
         /\ cur[c][1] \in Partition
         /\ cur[c][2] \in 1..Len(log[cur[c][1]])
  BY DEF IInv, TypeOK, CurInLog, Slot
<1>2. CurInLog'
  BY <1>1 DEF CurInLog, Busy
<1>3. WriteHasRow'
  <2> SUFFICES ASSUME NEW w \in Worker, pc[w] = "write"
               PROVE  rows[Job(w)'.msg] # NoRow
    BY DEF WriteHasRow
  <2>1. Job(w)' = Job(w)
    BY <1>1 DEF Job, Entry, Busy
  <2> QED
    BY <2>1 DEF IInv, WriteHasRow
<1>4. CommittedAccounted' /\ FetchedAccounted' /\ CommitAfterDone'
  BY DEF IInv, CommittedAccounted, FetchedAccounted, CommitAfterDone, Settled, Busy
<1> QED
  BY <1>2, <1>3, <1>4 DEF IInv

LEMMA CommandIInv ==
    ASSUME IInv, NEW s \in Sender, NEW q \in Request, NEW p \in Partition, Command(s, q, p)
    PROVE  IInv'
<1> USE DEF Command, kafka, database, locals, history
<1>1. TypeOK'
  <2>1. outbox' \in [Sender -> SUBSET (Request \X Partition)]
    BY DEF IInv, TypeOK
  <2>2. shown' \subseteq Message /\ requests' \in 0..MaxRequests
    BY RequestFields, PersistenceAssumption DEF IInv, TypeOK
  <2> QED
    BY <2>1, <2>2 DEF IInv, TypeOK
<1> QED
  BY <1>1, LogGrows

LEMMA ProduceIInv ==
    ASSUME IInv, NEW s \in Sender, Produce(s)
    PROVE  IInv'
<1> USE DEF Produce, database, locals, history
<1>1. PICK o \in outbox[s] : log' = [log EXCEPT ![o[2]] = Append(@, o[1])]
  OBVIOUS
<1>2. o[1] \in Request /\ o[2] \in Partition
  BY DEF IInv, TypeOK
<1>3. log \in [Partition -> Seq(Request)]
  BY DEF IInv, TypeOK
<1>4. log' \in [Partition -> Seq(Request)]
  <2>1. Append(log[o[2]], o[1]) \in Seq(Request)
    BY <1>2, <1>3, AppendKeeps
  <2> QED
    BY <1>1, <1>3, <2>1
<1>5. \A p \in Partition : \A i \in 1..Len(log[p]) :
         i \in 1..Len(log'[p]) /\ log'[p][i] = log[p][i]
  <2> TAKE p \in Partition
  <2>1. CASE p = o[2]
    <3>1. log'[p] = Append(log[p], o[1]) /\ log[p] \in Seq(Request)
      BY <1>1, <1>3, <2>1
    <3> QED
      BY <3>1, <1>2, AppendKeeps
  <2>2. CASE p # o[2]
    BY <1>1, <1>3, <2>2
  <2> QED
    BY <2>1, <2>2
<1>6. TypeOK'
  <2>1. outbox' \in [Sender -> SUBSET (Request \X Partition)]
    BY DEF IInv, TypeOK
  <2>2. faults' \in 0..MaxFaults
    BY PersistenceAssumption DEF IInv, TypeOK
  <2> QED
    BY <1>4, <2>1, <2>2 DEF IInv, TypeOK
<1> QED
  BY <1>5, <1>6, LogGrows

LEMMA ProduceFailsIInv ==
    ASSUME IInv, NEW s \in Sender, ProduceFails(s)
    PROVE  IInv'
<1> USE DEF ProduceFails, kafka, database, locals, history
<1>1. outbox' \in [Sender -> SUBSET (Request \X Partition)]
  BY DEF IInv, TypeOK
<1>2. TypeOK'
  BY <1>1 DEF IInv, TypeOK
<1> QED
  BY <1>2, LogGrows

----------------------------------------------------------------------------
(* What a step of one worker does to the invariant.                        *)

\* A worker that stays with its slot or settles it, and that updates only rows
\* that exist, keeps the invariant.
LEMMA WorkerKeeps ==
    ASSUME IInv, TypeOK', NEW w \in Worker,
           UNCHANGED <<log, committed, owner, position, cur>>,
           \A v \in Worker \ {w} : pc'[v] = pc[v] /\ Job(v)' = Job(v),
           done \subseteq done', deadLetter \subseteq deadLetter', dropped \subseteq dropped',
           \A m \in Message : rows[m] # NoRow => rows'[m] # NoRow,
           pc'[w] = "write" => rows'[Job(w)'.msg] # NoRow,
           Busy(w)' /\ w \in Consumer => Busy(w),
           Busy(w) /\ w \in Consumer => Busy(w)' \/ cur[w] \in Settled',
           pc'[w] = "commit" /\ w \in Consumer => cur[w] \in done'
    PROVE  IInv'
<1>1. Settled \subseteq Settled'
  BY DEF Settled
<1>2. \A v \in Worker \ {w} : Busy(v)' = Busy(v)
  BY DEF Busy
<1>3. CurInLog'
  BY <1>2 DEF IInv, CurInLog, Worker
<1>4. WriteHasRow'
  <2> SUFFICES ASSUME NEW v \in Worker \ {w}, pc'[v] = "write"
               PROVE  rows'[Job(v)'.msg] # NoRow
    BY DEF WriteHasRow
  <2>1. pc[v] = "write" /\ Job(v)' = Job(v)
    OBVIOUS
  <2>2. Job(v).msg \in Message /\ rows[Job(v).msg] # NoRow
    BY <2>1, JobTyped, RequestFields DEF IInv, WriteHasRow
  <2> QED
    BY <2>1, <2>2
<1>5. CommittedAccounted'
  BY <1>1 DEF IInv, CommittedAccounted
<1>6. FetchedAccounted'
  <2> SUFFICES ASSUME NEW c \in Consumer, NEW p \in Partition, owner[p] = c
               PROVE  /\ committed[p] <= position[c][p]
                      /\ \A i \in 1..position[c][p] :
                            <<p, i>> \in Settled' \/ (Busy(c)' /\ cur[c] = <<p, i>>)
    BY DEF FetchedAccounted
  <2>1. committed[p] <= position[c][p]
    BY DEF IInv, FetchedAccounted
  <2>2. ASSUME NEW i \in 1..position[c][p]
        PROVE  <<p, i>> \in Settled' \/ (Busy(c)' /\ cur[c] = <<p, i>>)
    <3>1. <<p, i>> \in Settled \/ (Busy(c) /\ cur[c] = <<p, i>>)
      BY DEF IInv, FetchedAccounted
    <3>2. c \in Worker
      BY DEF Worker
    <3> QED
      BY <1>1, <1>2, <3>1, <3>2
  <2> QED
    BY <2>1, <2>2
<1>7. CommitAfterDone'
  <2> SUFFICES ASSUME NEW c \in Consumer, pc'[c] = "commit"
               PROVE  cur[c] \in done'
    BY DEF CommitAfterDone
  <2>1. c \in Worker
    BY DEF Worker
  <2> QED
    BY <2>1 DEF IInv, CommitAfterDone
<1> QED
  BY <1>3, <1>4, <1>5, <1>6, <1>7 DEF IInv

\* What _process and the REST handlers have in common when they return.
LEMMA ReturnsEffect ==
    ASSUME IInv, NEW w \in Worker, NEW from, Returns(w, from),
           from \in {"process", "write"}
    PROVE  /\ pc' \in [Worker -> {"down", "idle", "process", "write", "commit", "dead"}]
           /\ \A v \in Worker \ {w} : pc'[v] = pc[v]
           /\ pc[w] = from /\ pc'[w] \in {"commit", "idle"}
           /\ done' \subseteq Slot /\ done \subseteq done'
           /\ w \in Consumer => pc'[w] = "commit" /\ cur[w] \in done'
           /\ w \notin Consumer => pc'[w] = "idle"
<1>1. /\ pc \in [Worker -> {"down", "idle", "process", "write", "commit", "dead"}]
      /\ done \subseteq Slot
      /\ w \in Consumer => cur[w] \in Slot
  BY DEF IInv, TypeOK
<1>2. CASE w \in Consumer
  <2>1. pc[w] = from /\ pc' = [pc EXCEPT ![w] = "commit"] /\ done' = done \cup {cur[w]}
    BY <1>2 DEF Returns, Goto
  <2> QED
    BY <1>1, <1>2, <2>1
<1>3. CASE w \notin Consumer
  <2>1. pc[w] = from /\ pc' = [pc EXCEPT ![w] = "idle"] /\ done' = done
    BY <1>3 DEF Returns, Goto
  <2> QED
    BY <1>1, <1>3, <2>1
<1> QED
  BY <1>2, <1>3

\* The variables that steps of the data access layer change keep their types.
LEMMA WorkerTypes ==
    ASSUME IInv, UNCHANGED <<producer, kafka, cur, asked, requests, faults>>,
           rows' \in [Message -> Row \cup {NoRow}],
           reactions' \subseteq Message,
           pc' \in [Worker -> {"down", "idle", "process", "write", "commit", "dead"}],
           attempt' \in [Consumer -> 1..MaxAttempts],
           loaded' \in [Worker -> Row \cup {NoRow}],
           done' \subseteq Slot, deadLetter' \subseteq Slot, dropped' \subseteq Slot
    PROVE  TypeOK'
BY DEF IInv, TypeOK, producer, kafka

\* What is typed before a step, without the rest of the invariant.
LEMMA Typed ==
    ASSUME IInv
    PROVE  /\ rows \in [Message -> Row \cup {NoRow}]
           /\ reactions \subseteq Message
           /\ pc \in [Worker -> {"down", "idle", "process", "write", "commit", "dead"}]
           /\ cur \in [Consumer -> Slot]
           /\ attempt \in [Consumer -> 1..MaxAttempts]
           /\ loaded \in [Worker -> Row \cup {NoRow}]
           /\ done \subseteq Slot /\ deadLetter \subseteq Slot /\ dropped \subseteq Slot
BY DEF IInv, TypeOK

LEMMA CreateIInv ==
    ASSUME IInv, NEW w \in Worker, Create(w)
    PROVE  IInv'
<1> USE DEF Create, kafka, locals
<1>1. pc[w] = "process" /\ Returns(w, "process")
  OBVIOUS
<1>2. Job(w).msg \in Message /\ Job(w).text \in Content
  BY <1>1, JobTyped, RequestFields
<1>3. /\ rows' \in [Message -> Row \cup {NoRow}]
      /\ \A m \in Message : rows[m] # NoRow => rows'[m] # NoRow
  BY <1>2, RowFields DEF Insert, IInv, TypeOK
<1>4. TypeOK'
  BY <1>1, <1>3, ReturnsEffect, Typed, WorkerTypes
<1>5. \A v \in Worker : Job(v)' = Job(v)
  BY DEF Job, Entry
<1> QED
  BY <1>1, <1>3, <1>4, <1>5, ReturnsEffect, WorkerKeeps DEF Busy, Settled

LEMMA ReactIInv ==
    ASSUME IInv, NEW w \in Worker, React(w)
    PROVE  IInv'
<1> USE DEF React, kafka, locals
<1>1. pc[w] = "process" /\ Returns(w, "process")
  OBVIOUS
<1>2. Job(w).msg \in Message
  BY <1>1, JobTyped, RequestFields
<1>3. reactions' \subseteq Message
  BY <1>2 DEF IInv, TypeOK
<1>4. TypeOK'
  BY <1>1, <1>3, ReturnsEffect, Typed, WorkerTypes
<1>5. \A v \in Worker : Job(v)' = Job(v)
  BY DEF Job, Entry
<1> QED
  BY <1>1, <1>4, <1>5, ReturnsEffect, WorkerKeeps DEF Busy, Settled

LEMMA LoadIInv ==
    ASSUME IInv, NEW w \in Worker, Load(w)
    PROVE  IInv'
<1> USE DEF Load, kafka, database
<1>1. pc[w] = "process"
  OBVIOUS
<1>2. Job(w).msg \in Message
  BY <1>1, JobTyped, RequestFields
<1>3. \A v \in Worker : Job(v)' = Job(v)
  BY DEF Job, Entry
<1>4. CASE Returns(w, "process") /\ UNCHANGED loaded
  <2>1. TypeOK'
    BY <1>4, ReturnsEffect, Typed, WorkerTypes
  <2> QED
    BY <1>3, <1>4, <2>1, ReturnsEffect, WorkerKeeps DEF Busy, Settled
<1>5. CASE /\ rows[Job(w).msg] # NoRow
           /\ Goto(w, "process", "write")
           /\ loaded' = [loaded EXCEPT ![w] = rows[Job(w).msg]]
           /\ UNCHANGED done
  <2>1. TypeOK'
    BY <1>2, <1>5, Typed, WorkerTypes DEF Goto
  <2>2. \A v \in Worker \ {w} : pc'[v] = pc[v]
    BY <1>5 DEF IInv, TypeOK, Goto
  <2>3. pc'[w] = "write"
    BY <1>5 DEF IInv, TypeOK, Goto
  <2> QED
    BY <1>3, <1>5, <2>1, <2>2, <2>3, WorkerKeeps DEF Busy, Settled
<1> QED
  BY <1>4, <1>5

LEMMA WriteIInv ==
    ASSUME IInv, NEW w \in Worker, Write(w)
    PROVE  IInv'
<1> USE DEF Write, kafka
<1>1. pc[w] = "write" /\ Returns(w, "write")
  BY ReturnsEffect
<1>2. Job(w).msg \in Message /\ Job(w).text \in Content
  BY <1>1, JobTyped, RequestFields
<1>3. rows[Job(w).msg] \in Row
  BY <1>1, <1>2 DEF IInv, TypeOK, WriteHasRow
<1>4. /\ rows' \in [Message -> Row \cup {NoRow}]
      /\ \A m \in Message : rows[m] # NoRow => rows'[m] # NoRow
  <2> DEFINE row == rows[Job(w).msg]
             new == [content |-> IF Job(w).text = loaded[w].content
                                 THEN row.content ELSE Job(w).text,
                     deleted |-> row.deleted \/ Job(w).op = "delete"]
  <2>1. new \in Row
    BY <1>2, <1>3, RowFields
  <2>2. rows' = [rows EXCEPT ![Job(w).msg] = new]
    OBVIOUS
  <2> HIDE DEF new
  <2> QED
    BY <1>2, <2>1, <2>2, RowFields DEF IInv, TypeOK
<1>5. TypeOK'
  <2>1. loaded' \in [Worker -> Row \cup {NoRow}]
    BY Typed
  <2> QED
    BY <1>1, <1>4, <2>1, ReturnsEffect, Typed, WorkerTypes
<1>6. \A v \in Worker : Job(v)' = Job(v)
  BY DEF Job, Entry
<1> QED
  BY <1>1, <1>4, <1>5, <1>6, ReturnsEffect, WorkerKeeps DEF Busy, Settled

LEMMA HandlerFailsIInv ==
    ASSUME IInv, NEW h \in Handler, HandlerFails(h)
    PROVE  IInv'
<1> USE DEF HandlerFails, kafka, database, history
<1>1. h \in Worker /\ h \notin Consumer
  BY PersistenceAssumption DEF Worker
<1>2. /\ pc' = [pc EXCEPT ![h] = "idle"]
      /\ pc' \in [Worker -> {"down", "idle", "process", "write", "commit", "dead"}]
  BY <1>1, Typed
<1>3. TypeOK'
  <2>1. loaded' \in [Worker -> Row \cup {NoRow}]
    BY <1>1, Typed
  <2> QED
    BY <1>2, <2>1, Typed, WorkerTypes
<1>4. \A v \in Worker : Job(v)' = Job(v)
  BY DEF Job, Entry
<1>5. pc'[h] = "idle" /\ \A v \in Worker \ {h} : pc'[v] = pc[v]
  BY <1>1, <1>2, Typed
<1> QED
  BY <1>1, <1>3, <1>4, <1>5, WorkerKeeps DEF Busy

LEMMA RestRequestIInv ==
    ASSUME IInv, NEW h \in Handler, NEW q \in Update, RestRequest(h, q)
    PROVE  IInv'
<1> USE DEF RestRequest, kafka, database, history
<1>1. h \in Worker /\ h \notin Consumer
  BY PersistenceAssumption DEF Worker
<1>2. /\ pc' = [pc EXCEPT ![h] = "process"]
      /\ pc' \in [Worker -> {"down", "idle", "process", "write", "commit", "dead"}]
  BY <1>1, Typed DEF Goto
<1>3. asked \in [Handler -> Update]
  BY DEF IInv, TypeOK
<1>4. asked' \in [Handler -> Update]
  BY <1>3
<1>5. TypeOK'
  BY <1>2, <1>4 DEF IInv, TypeOK, producer
<1>6. \A v \in Worker \ {h} : Job(v)' = Job(v)
  <2> SUFFICES ASSUME NEW v \in Worker \ {h} PROVE Job(v)' = Job(v)
    OBVIOUS
  <2>1. CASE v \in Consumer
    BY <2>1 DEF Job, Entry
  <2>2. CASE v \notin Consumer
    <3>1. v \in Handler
      BY <2>2 DEF Worker
    <3>2. asked'[v] = asked[v]
      BY <1>3, <3>1
    <3> QED
      BY <2>2, <3>2 DEF Job
  <2> QED
    BY <2>1, <2>2
<1>7. pc'[h] = "process" /\ \A v \in Worker \ {h} : pc'[v] = pc[v]
  BY <1>1, <1>2, Typed
<1> QED
  BY <1>1, <1>5, <1>6, <1>7, WorkerKeeps DEF Busy

LEMMA RetryIInv ==
    ASSUME IInv, NEW c \in Consumer, Retry(c)
    PROVE  IInv'
<1> USE DEF Retry, kafka, database, history
<1>1. c \in Worker
  BY DEF Worker
<1>2. /\ pc'[c] \in {"process", "dead"}
      /\ \A v \in Worker \ {c} : pc'[v] = pc[v]
      /\ pc' \in [Worker -> {"down", "idle", "process", "write", "commit", "dead"}]
  BY <1>1, Typed
<1>3. attempt' \in [Consumer -> 1..MaxAttempts]
  <2>1. CASE attempt[c] < MaxAttempts
    <3>1. attempt[c] + 1 \in 1..MaxAttempts
      BY <2>1, Typed, PersistenceAssumption
    <3> QED
      BY <2>1, <3>1, Typed
  <2>2. CASE ~(attempt[c] < MaxAttempts)
    BY <2>2, Typed
  <2> QED
    BY <2>1, <2>2
<1>4. TypeOK'
  <2>1. loaded' \in [Worker -> Row \cup {NoRow}]
    BY <1>1, Typed
  <2> QED
    BY <1>2, <1>3, <2>1, Typed, WorkerTypes
<1>5. \A v \in Worker : Job(v)' = Job(v)
  BY DEF Job, Entry
<1> QED
  BY <1>1, <1>2, <1>4, <1>5, WorkerKeeps DEF Busy

LEMMA SendToDlqIInv ==
    ASSUME IInv, NEW c \in Consumer, SendToDlq(c)
    PROVE  IInv'
<1> USE DEF SendToDlq, ProduceToDlq, Goto, kafka, database
<1>1. c \in Worker
  BY DEF Worker
<1>2. /\ pc'[c] = "idle"
      /\ \A v \in Worker \ {c} : pc'[v] = pc[v]
      /\ pc' \in [Worker -> {"down", "idle", "process", "write", "commit", "dead"}]
  BY <1>1, Typed
<1>3. /\ attempt' \in [Consumer -> 1..MaxAttempts]
      /\ deadLetter' \subseteq Slot /\ dropped' \subseteq Slot
  BY Typed, PersistenceAssumption
<1>4. TypeOK'
  BY <1>2, <1>3, Typed, WorkerTypes
<1>5. /\ deadLetter \subseteq deadLetter' /\ dropped \subseteq dropped'
      /\ cur[c] \in Settled'
  BY DEF Settled
<1>6. \A v \in Worker : Job(v)' = Job(v)
  BY DEF Job, Entry
<1> QED
  BY <1>1, <1>2, <1>4, <1>5, <1>6, WorkerKeeps DEF Busy

LEMMA StartIInv ==
    ASSUME IInv, NEW c \in Consumer, Start(c)
    PROVE  IInv'
<1> USE DEF Start, Goto, kafka, database, locals, history
<1>1. c \in Worker
  BY DEF Worker
<1>2. /\ pc'[c] = "idle" /\ pc[c] = "down"
      /\ \A v \in Worker \ {c} : pc'[v] = pc[v]
      /\ pc' \in [Worker -> {"down", "idle", "process", "write", "commit", "dead"}]
  BY <1>1, Typed
<1>3. TypeOK'
  BY <1>2, Typed, WorkerTypes
<1>4. \A v \in Worker : Job(v)' = Job(v)
  BY DEF Job, Entry
<1> QED
  BY <1>1, <1>2, <1>3, <1>4, WorkerKeeps DEF Busy

----------------------------------------------------------------------------
(* What the consumer group does to the invariant.                          *)

LEMMA CrashIInv ==
    ASSUME IInv, NEW c \in Consumer, Crash(c)
    PROVE  IInv'
<1> USE DEF Crash, producer, database, history
<1>1. c \in Worker
  BY DEF Worker
<1>2. /\ pc'[c] = "down"
      /\ \A v \in Worker \ {c} : pc'[v] = pc[v]
      /\ pc' \in [Worker -> {"down", "idle", "process", "write", "commit", "dead"}]
  BY <1>1, Typed
<1>3. /\ attempt' \in [Consumer -> 1..MaxAttempts]
      /\ loaded' \in [Worker -> Row \cup {NoRow}]
  BY <1>1, Typed, PersistenceAssumption
<1>4. /\ owner' \in [Partition -> Consumer \cup {Nobody}]
      /\ \A p \in Partition : owner'[p] \in Consumer => owner'[p] = owner[p] /\ owner[p] # c
  BY PersistenceAssumption DEF IInv, TypeOK
<1>5. faults' \in 0..MaxFaults
  BY PersistenceAssumption DEF IInv, TypeOK
<1>6. TypeOK'
  BY <1>2, <1>3, <1>4, <1>5 DEF IInv, TypeOK
<1>7. \A v \in Worker \ {c} : Busy(v)' = Busy(v)
  BY <1>2 DEF Busy
<1>8. ~Busy(c)'
  BY <1>2 DEF Busy
<1>9. CurInLog'
  BY <1>7, <1>8 DEF IInv, CurInLog, Worker
<1>10. WriteHasRow'
  <2>1. \A v \in Worker : Job(v)' = Job(v)
    BY DEF Job, Entry
  <2> QED
    BY <1>2, <2>1 DEF IInv, WriteHasRow
<1>11. CommittedAccounted'
  BY DEF IInv, CommittedAccounted, Settled
<1>12. FetchedAccounted'
  <2> SUFFICES ASSUME NEW k \in Consumer, NEW p \in Partition, owner'[p] = k
               PROVE  /\ committed[p] <= position[k][p]
                      /\ \A i \in 1..position[k][p] :
                            <<p, i>> \in Settled' \/ (Busy(k)' /\ cur[k] = <<p, i>>)
    BY DEF FetchedAccounted
  <2>1. owner[p] = k /\ k # c
    BY <1>4
  <2>2. Busy(k)' = Busy(k)
    BY <1>7, <2>1 DEF Worker
  <2> QED
    BY <2>1, <2>2 DEF IInv, FetchedAccounted, Settled
<1>13. CommitAfterDone'
  BY <1>2 DEF IInv, CommitAfterDone, Worker
<1> QED
  BY <1>6, <1>9, <1>10, <1>11, <1>12, <1>13 DEF IInv

LEMMA RebalanceIInv ==
    ASSUME IInv, Rebalance
    PROVE  IInv'
<1> USE DEF Rebalance, producer, database, locals, history
<1>1. PICK f \in [Partition -> Alive] : Assign(f)
  OBVIOUS
<1>2. committed \in [Partition -> Nat]
  BY DEF IInv, TypeOK
<1>3. /\ owner' \in [Partition -> Consumer \cup {Nobody}]
      /\ position' = [c \in Consumer |-> committed]
      /\ position' \in [Consumer -> [Partition -> Nat]]
  BY <1>1, <1>2 DEF Assign, Alive
<1>4. faults' \in 0..MaxFaults
  BY PersistenceAssumption DEF IInv, TypeOK
<1>5. TypeOK'
  BY <1>3, <1>4 DEF IInv, TypeOK
<1>6. CurInLog' /\ CommittedAccounted' /\ CommitAfterDone'
  BY DEF IInv, CurInLog, CommittedAccounted, CommitAfterDone, Busy, Settled
<1>7. WriteHasRow'
  BY DEF IInv, WriteHasRow, Job, Entry
<1>8. FetchedAccounted'
  <2>1. \A c \in Consumer, p \in Partition : position'[c][p] = committed[p]
    BY <1>3
  <2>2. \A p \in Partition : committed[p] <= committed[p]
    BY <1>2
  <2> QED
    BY <2>1, <2>2 DEF IInv, FetchedAccounted, CommittedAccounted, Settled
<1> QED
  BY <1>5, <1>6, <1>7, <1>8 DEF IInv

LEMMA FetchIInv ==
    ASSUME IInv, NEW c \in Consumer, NEW p \in Partition, Fetch(c, p)
    PROVE  IInv'
<1> USE DEF Fetch, Goto, producer, database, history
<1> DEFINE n == position[c][p] + 1
<1>1. c \in Worker
  BY DEF Worker
<1>2. /\ pc[c] = "idle" /\ pc'[c] = "process"
      /\ \A v \in Worker \ {c} : pc'[v] = pc[v]
      /\ pc' \in [Worker -> {"down", "idle", "process", "write", "commit", "dead"}]
  BY <1>1, Typed
<1>3. /\ position \in [Consumer -> [Partition -> Nat]]
      /\ log \in [Partition -> Seq(Request)]
      /\ committed \in [Partition -> Nat]
  BY DEF IInv, TypeOK
<1>4. n \in Nat \ {0} /\ n \in 1..Len(log[p])
  <2>1. position[c][p] \in Nat /\ Len(log[p]) \in Nat /\ position[c][p] < Len(log[p])
    BY <1>3
  <2> QED
    BY <2>1
<1>5. /\ cur' = [cur EXCEPT ![c] = <<p, n>>]
      /\ cur' \in [Consumer -> Slot]
  BY <1>4, Typed DEF Slot
<1>6. position' = [position EXCEPT ![c] = [position[c] EXCEPT ![p] = n]]
  BY <1>3
<1>7. position' \in [Consumer -> [Partition -> Nat]]
  BY <1>3, <1>4, <1>6
<1> HIDE DEF n
<1>8. TypeOK'
  BY <1>2, <1>5, <1>7 DEF IInv, TypeOK
<1>9. \A v \in Worker \ {c} : Busy(v)' = Busy(v)
  BY <1>2 DEF Busy
<1>10. ~Busy(c) /\ Busy(c)'
  BY <1>2 DEF Busy
<1>11. cur'[c] = <<p, n>> /\ \A k \in Consumer \ {c} : cur'[k] = cur[k]
  BY <1>5, Typed
<1>12. CurInLog'
  <2> SUFFICES ASSUME NEW k \in Consumer, Busy(k)'
               PROVE  cur'[k][2] \in 1..Len(log[cur'[k][1]])
    BY DEF CurInLog
  <2>1. CASE k = c
    BY <1>4, <1>11, <2>1
  <2>2. CASE k # c
    BY <1>9, <1>11, <2>2 DEF IInv, CurInLog, Worker
  <2> QED
    BY <2>1, <2>2
<1>13. WriteHasRow'
  <2> SUFFICES ASSUME NEW v \in Worker, pc'[v] = "write"
               PROVE  rows[Job(v)'.msg] # NoRow
    BY DEF WriteHasRow
  <2>1. v # c
    BY <1>2
  <2>2. Job(v)' = Job(v)
    BY <1>11, <2>1 DEF Job, Entry
  <2> QED
    BY <1>2, <2>1, <2>2 DEF IInv, WriteHasRow
<1>14. CommittedAccounted'
  BY DEF IInv, CommittedAccounted, Settled
<1>15. FetchedAccounted'
  <2> SUFFICES ASSUME NEW k \in Consumer, NEW r \in Partition, owner[r] = k
               PROVE  /\ committed[r] <= position'[k][r]
                      /\ \A i \in 1..position'[k][r] :
                            <<r, i>> \in Settled \/ (Busy(k)' /\ cur'[k] = <<r, i>>)
    BY DEF FetchedAccounted, Settled
  <2>1. CASE k # c
    <3>1. position'[k] = position[k] /\ Busy(k)' = Busy(k) /\ cur'[k] = cur[k]
      BY <1>3, <1>6, <1>9, <1>11, <2>1 DEF Worker
    <3> QED
      BY <3>1 DEF IInv, FetchedAccounted
  <2>2. CASE k = c /\ r # p
    <3>1. position'[k][r] = position[k][r]
      BY <1>3, <1>6, <2>2
    <3> QED
      BY <1>10, <2>2, <3>1 DEF IInv, FetchedAccounted
  <2>3. CASE k = c /\ r = p
    <3>1. position'[k][r] = n
      BY <1>3, <1>6, <2>3
    <3>2. /\ committed[p] <= position[c][p]
          /\ \A i \in 1..position[c][p] : <<p, i>> \in Settled
      BY <1>10, <2>3 DEF IInv, FetchedAccounted
    <3>3. position[c][p] \in Nat /\ committed[p] \in Nat
      BY <1>3
    <3>4. committed[p] <= n /\ \A i \in 1..n : i \in 1..position[c][p] \/ i = n
      BY <3>2, <3>3 DEF n
    <3> QED
      BY <1>10, <1>11, <2>3, <3>1, <3>2, <3>4
  <2> QED
    BY <2>1, <2>2, <2>3
<1>16. CommitAfterDone'
  <2> SUFFICES ASSUME NEW k \in Consumer, pc'[k] = "commit"
               PROVE  cur'[k] \in done
    BY DEF CommitAfterDone
  <2>1. k # c /\ k \in Worker
    BY <1>2 DEF Worker
  <2> QED
    BY <1>2, <1>11, <2>1 DEF IInv, CommitAfterDone
<1> QED
  BY <1>8, <1>12, <1>13, <1>14, <1>15, <1>16 DEF IInv

\* What c commits is settled and not behind what was committed.
LEMMA CommitEffect ==
    ASSUME IInv, NEW c \in Consumer, Commit(c), NEW p \in Partition
    PROVE  /\ committed'[p] \in Nat
           /\ committed[p] <= committed'[p]
           /\ owner[p] = c => committed'[p] = position[c][p]
           /\ owner[p] # c => committed'[p] = committed[p]
           /\ \A i \in 1..committed'[p] : <<p, i>> \in Settled
<1>1. committed'[p] = IF owner[p] = c THEN position[c][p] ELSE committed[p]
  BY DEF Commit
<1>2. committed[p] \in Nat /\ position[c][p] \in Nat
  BY DEF IInv, TypeOK
<1>3. CASE owner[p] = c
  <2>1. cur[c] \in Settled
    BY DEF Commit, Goto, IInv, CommitAfterDone, Settled
  <2>2. /\ committed[p] <= position[c][p]
        /\ \A i \in 1..position[c][p] : <<p, i>> \in Settled
    BY <1>3, <2>1 DEF IInv, FetchedAccounted
  <2> QED
    BY <1>1, <1>2, <1>3, <2>2
<1>4. CASE owner[p] # c
  BY <1>1, <1>2, <1>4 DEF IInv, CommittedAccounted
<1> QED
  BY <1>3, <1>4

LEMMA CommitIInv ==
    ASSUME IInv, NEW c \in Consumer, Commit(c)
    PROVE  IInv'
<1> USE DEF producer, database, history
<1>1. c \in Worker
  BY DEF Worker
<1>2. /\ pc[c] = "commit" /\ pc'[c] = "idle"
      /\ \A v \in Worker \ {c} : pc'[v] = pc[v]
      /\ pc' \in [Worker -> {"down", "idle", "process", "write", "commit", "dead"}]
  BY <1>1, Typed DEF Commit, Goto
<1>3. attempt' \in [Consumer -> 1..MaxAttempts]
  BY Typed, PersistenceAssumption DEF Commit
<1>4. committed' \in [Partition -> Nat]
  <2>1. \A p \in Partition : committed'[p] \in Nat
    BY CommitEffect
  <2> QED
    BY <2>1 DEF Commit
<1>5. UNCHANGED <<shown, outbox, log, owner, position, rows, reactions, cur, asked, loaded,
                  done, deadLetter, dropped, requests, faults>>
  BY DEF Commit
<1>6. TypeOK'
  BY <1>2, <1>3, <1>4, <1>5 DEF IInv, TypeOK
<1>7. Settled' = Settled /\ \A v \in Worker : Job(v)' = Job(v)
  BY <1>5 DEF Settled, Job, Entry
<1>8. ~Busy(c)' /\ \A v \in Worker \ {c} : Busy(v)' = Busy(v)
  BY <1>2 DEF Busy
<1>9. CurInLog'
  BY <1>5, <1>8 DEF IInv, CurInLog, Worker
<1>10. WriteHasRow'
  BY <1>2, <1>5, <1>7 DEF IInv, WriteHasRow
<1>11. CommittedAccounted'
  BY <1>7, CommitEffect DEF CommittedAccounted
<1>12. FetchedAccounted'
  <2> SUFFICES ASSUME NEW k \in Consumer, NEW p \in Partition, owner[p] = k
               PROVE  /\ committed'[p] <= position[k][p]
                      /\ \A i \in 1..position[k][p] :
                            <<p, i>> \in Settled \/ (Busy(k)' /\ cur[k] = <<p, i>>)
    BY <1>5, <1>7 DEF FetchedAccounted
  <2>1. CASE k = c
    <3>1. committed'[p] = position[c][p] /\ position[c][p] \in Nat
      BY <2>1, CommitEffect DEF IInv, TypeOK
    <3>2. \A i \in 1..position[c][p] : <<p, i>> \in Settled
      BY <2>1, <3>1, CommitEffect
    <3> QED
      BY <2>1, <3>1, <3>2
  <2>2. CASE k # c
    <3>1. committed'[p] = committed[p]
      BY <2>2, CommitEffect
    <3>2. Busy(k)' = Busy(k)
      BY <1>8, <2>2 DEF Worker
    <3> QED
      BY <3>1, <3>2 DEF IInv, FetchedAccounted
  <2> QED
    BY <2>1, <2>2
<1>13. CommitAfterDone'
  BY <1>2, <1>5 DEF IInv, CommitAfterDone, Worker
<1> QED
  BY <1>6, <1>9, <1>10, <1>11, <1>12, <1>13 DEF IInv

----------------------------------------------------------------------------
(* Every step.                                                             *)

LEMMA NextIInv == IInv /\ [Next]_vars => IInv'
<1> SUFFICES ASSUME IInv, [Next]_vars PROVE IInv'
  OBVIOUS
<1>1. CASE \E s \in Sender, q \in Request, p \in Partition : Command(s, q, p)
  BY <1>1, CommandIInv
<1>2. CASE \E s \in Sender : Produce(s) \/ ProduceFails(s)
  BY <1>2, ProduceIInv, ProduceFailsIInv
<1>3. ASSUME NEW w \in Worker, Execute(w) PROVE IInv'
  BY <1>3, CreateIInv, LoadIInv, WriteIInv, ReactIInv DEF Execute
<1>4. CASE \E c \in Consumer : ConsumerStep(c) \/ Crash(c)
  <2>1. PICK c \in Consumer : ConsumerStep(c) \/ Crash(c)
    BY <1>4
  <2>2. CASE Execute(c)
    BY <1>3, <2>2 DEF Worker
  <2> QED
    BY <2>1, <2>2, StartIInv, FetchIInv, RetryIInv, CommitIInv, SendToDlqIInv, CrashIInv
       DEF ConsumerStep
<1>5. CASE Rebalance
  BY <1>5, RebalanceIInv
<1>6. CASE \E h \in Handler, q \in Update : RestRequest(h, q)
  BY <1>6, RestRequestIInv
<1>7. CASE \E h \in Handler : Execute(h) \/ HandlerFails(h)
  BY <1>3, <1>7, HandlerFailsIInv DEF Worker
<1>8. CASE UNCHANGED vars
  <2>1. UNCHANGED <<shown, outbox, log, rows, reactions, committed, owner, position, pc,
                    cur, attempt, asked, loaded, done, deadLetter, dropped, requests, faults>>
    BY <1>8 DEF vars
  <2>2. TypeOK'
    BY <2>1 DEF IInv, TypeOK
  <2>3. CurInLog' /\ WriteHasRow' /\ CommitAfterDone'
    BY <2>1 DEF IInv, CurInLog, WriteHasRow, CommitAfterDone, Busy, Job, Entry
  <2>4. CommittedAccounted' /\ FetchedAccounted'
    BY <2>1 DEF IInv, CommittedAccounted, FetchedAccounted, Settled, Busy
  <2> QED
    BY <2>2, <2>3, <2>4 DEF IInv
<1> QED
  BY <1>1, <1>2, <1>4, <1>5, <1>6, <1>7, <1>8 DEF Next

\* A step changes committed offsets only when a consumer commits.
LEMMA OffsetStep ==
    ASSUME IInv, [Next]_vars
    PROVE  \A p \in Partition : committed[p] <= committed'[p]
<1>1. CASE \E c \in Consumer : Commit(c)
  BY <1>1, CommitEffect
<1>2. CASE UNCHANGED committed
  BY <1>2 DEF IInv, TypeOK
<1>3. (\E c \in Consumer : Commit(c)) \/ UNCHANGED committed
  BY DEF Next, Command, Produce, ProduceFails, ConsumerStep, Execute, Crash, Rebalance,
         RestRequest, HandlerFails, Start, Fetch, Create, Load, Write, React, Retry,
         SendToDlq, ProduceToDlq, kafka, vars
<1> QED
  BY <1>1, <1>2, <1>3

\* A step changes rows only when a worker inserts or updates one.
LEMMA RowStep ==
    ASSUME IInv, [Next]_vars
    PROVE  \A m \in Message :
              /\ rows[m] # NoRow => rows'[m] # NoRow
              /\ rows[m] # NoRow /\ rows[m].deleted => rows'[m].deleted
<1>1. ASSUME NEW w \in Worker, Create(w)
      PROVE  \A m \in Message : rows[m] # NoRow => rows'[m] = rows[m]
  <2>1. Job(w).msg \in Message
    BY <1>1, JobTyped, RequestFields DEF Create
  <2> QED
    BY <1>1, <2>1, Typed DEF Create, Insert
<1>2. ASSUME NEW w \in Worker, Write(w), NEW m \in Message
      PROVE  /\ rows[m] # NoRow => rows'[m] # NoRow
             /\ rows[m] # NoRow /\ rows[m].deleted => rows'[m].deleted
  <2>1. pc[w] = "write"
    BY <1>2, ReturnsEffect DEF Write
  <2>2. Job(w).msg \in Message /\ Job(w).text \in Content
    BY <2>1, JobTyped, RequestFields
  <2>3. rows[Job(w).msg] \in Row
    BY <2>1, <2>2, Typed DEF IInv, WriteHasRow
  <2> DEFINE row == rows[Job(w).msg]
             new == [content |-> IF Job(w).text = loaded[w].content
                                 THEN row.content ELSE Job(w).text,
                     deleted |-> row.deleted \/ Job(w).op = "delete"]
  <2>4. new \in Row /\ (row.deleted => new.deleted)
    BY <2>2, <2>3, RowFields
  <2>5. rows' = [rows EXCEPT ![Job(w).msg] = new]
    BY <1>2 DEF Write
  <2> HIDE DEF new
  <2> QED
    BY <2>2, <2>4, <2>5, RowFields, Typed
<1>3. \/ UNCHANGED rows
      \/ \E w \in Worker : Create(w) \/ Write(w)
  BY DEF Next, Command, Produce, ProduceFails, ConsumerStep, Execute, Crash, Rebalance,
         RestRequest, HandlerFails, Start, Fetch, Load, React, Retry, Commit,
         SendToDlq, ProduceToDlq, database, vars, Worker
<1> QED
  BY <1>1, <1>2, <1>3

----------------------------------------------------------------------------
(* Theorems.                                                               *)

\* The inductive invariant holds in every reachable state.
THEOREM Inductive == Spec => []IInv
  BY InitIInv, NextIInv, PTL DEF Spec

\* Every variable of the pipeline keeps its type, for any bounds.
THEOREM TypeCorrect == Spec => []TypeOK
<1>1. IInv => TypeOK
  BY DEF IInv
<1> QED
  BY <1>1, Inductive, PTL

\* However many consumers crash, rebalance and retry: no offset is committed over
\* a message that was neither processed nor handed to _send_to_dlq.
THEOREM CommittedAccountedCorrect == Spec => []CommittedAccounted
<1>1. IInv => CommittedAccounted
  BY DEF IInv
<1> QED
  BY <1>1, Inductive, PTL

\* No commit, however late, moves the group's offset back.
THEOREM OffsetsAdvanceCorrect == Spec => OffsetsAdvance
<1>1. IInv /\ [Next]_vars => [\A p \in Partition : committed[p] <= committed'[p]]_vars
  BY OffsetStep
<1> QED
  BY <1>1, Inductive, PTL DEF Spec, OffsetsAdvance

\* No redelivery, repetition or concurrent update undoes a deletion or loses a row.
THEOREM DeletionSticksCorrect == Spec => DeletionSticks
<1>1. IInv /\ [Next]_vars =>
        [\A m \in Message :
            /\ rows[m] # NoRow => rows'[m] # NoRow
            /\ rows[m] # NoRow /\ rows[m].deleted => rows'[m].deleted]_vars
  BY RowStep
<1> QED
  BY <1>1, Inductive, PTL DEF Spec, DeletionSticks

----------------------------------------------------------------------------
(* Induction over the naturals, for a set of them.                         *)

LEMMA LeastNat ==
    ASSUME NEW I, I \subseteq Nat, I # {}
    PROVE  \E x \in I : \A y \in I : x <= y
<1> DEFINE less == {ss \in Nat \X Nat : ss[1] < ss[2]}
<1>1. less = OpToRel(<, Nat)
  BY DEF OpToRel
<1>2. IsWellFoundedOn(less, Nat)
  BY <1>1, NatLessThanWellFounded
<1>3. \A x, y \in Nat : <<x, y>> \in less <=> x < y
  OBVIOUS
<1> HIDE DEF less
<1>4. PICK x \in I : \A y \in I : ~(<<y, x>> \in less)
  BY <1>2, WFMin, Zenon
<1>5. \A y \in I : ~(y < x)
  BY <1>3, <1>4, Zenon
<1>6. \A y \in I : x \in Nat /\ y \in Nat
  OBVIOUS
<1> QED
  BY <1>5, <1>6

LEMMA NatSetInduction ==
    ASSUME NEW Good, 0 \in Good, \A n \in Nat : n \in Good => n + 1 \in Good
    PROVE  Nat \subseteq Good
<1> SUFFICES ASSUME Nat \ Good # {} PROVE FALSE
  OBVIOUS
<1>1. PICK x \in Nat \ Good : \A y \in Nat \ Good : x <= y
  BY LeastNat
<1>2. x - 1 \in Nat /\ ~(x <= x - 1) /\ (x - 1) + 1 = x
  BY <1>1
<1> QED
  BY <1>1, <1>2

LEMMA MaxIn ==
    ASSUME NEW n \in Nat, NEW U \in SUBSET (1..n), U # {}
    PROVE  Max(U) \in U /\ \A y \in U : y <= Max(U)
<1> DEFINE I == {b \in Nat : \A y \in U : y <= b}
<1>1. n \in I
  OBVIOUS
<1>2. PICK b \in I : \A y \in I : b <= y
  BY <1>1, LeastNat
<1>3. b \in Nat /\ \A y \in U : y \in Nat /\ y >= 1 /\ y <= b
  BY <1>2
<1>4. b \in U
  <2> SUFFICES ASSUME b \notin U PROVE FALSE
    OBVIOUS
  <2>1. \A y \in U : y \in Nat /\ y # b /\ y <= b /\ 1 <= y
    BY <1>3
  <2>2. \A y \in U : y <= b - 1 /\ b - 1 \in Nat
    BY <1>3, <2>1
  <2>3. b - 1 \in I
    BY <2>2
  <2>4. b <= b - 1
    BY <1>2, <2>3
  <2> QED
    BY <1>3, <2>4
<1>5. Max(U) \in U /\ \A y \in U : Max(U) >= y
  <2>1. \E x \in U : \A y \in U : x >= y
    BY <1>3, <1>4
  <2> QED
    BY <2>1 DEF Max
<1> QED
  BY <1>3, <1>5

----------------------------------------------------------------------------
(* The rows of a message as its log goes on.                               *)

FoldNext(f, q, m, U) ==
    IF U = {} THEN NoRow ELSE After(m, f[U \ {Max(U)}], q[Max(U)])

Folds(f, q, m, D) == f = [U \in D |-> FoldNext(f, q, m, U)]

LEMMA FoldsExist ==
    ASSUME NEW n \in Nat, NEW q, NEW m
    PROVE  \E f : Folds(f, q, m, SUBSET (1..n))
<1> DEFINE Small(k) == {U \in SUBSET (1..n) : Cardinality(U) <= k}
           Good == {k \in Nat : \E f : Folds(f, q, m, Small(k))}
<1>0. IsFiniteSet(1..n) /\ Cardinality(1..n) = n
  BY FS_Interval
<1>1. \A U \in SUBSET (1..n) : IsFiniteSet(U) /\ Cardinality(U) \in Nat /\ Cardinality(U) <= n
  BY <1>0, FS_Subset, FS_CardinalityType
<1>2. \A U \in SUBSET (1..n) : U # {} => Max(U) \in U
  BY MaxIn
<1>3. 0 \in Good
  <2> DEFINE f == [U \in Small(0) |-> NoRow]
  <2>1. \A U \in Small(0) : U = {}
    BY <1>1, FS_EmptySet
  <2>2. Folds(f, q, m, Small(0))
    BY <2>1 DEF Folds, FoldNext
  <2> QED
    BY <2>2
<1>4. ASSUME NEW k \in Nat, k \in Good
      PROVE  k + 1 \in Good
  <2>1. PICK f : Folds(f, q, m, Small(k))
    BY <1>4
  <2> DEFINE g == [U \in Small(k + 1) |-> FoldNext(f, q, m, U)]
  <2>2. \A U \in Small(k) : U \in Small(k + 1) /\ g[U] = f[U]
    <3>1. \A U \in Small(k) : U \in Small(k + 1)
      BY <1>1
    <3>2. \A U \in Small(k) : f[U] = FoldNext(f, q, m, U)
      BY <2>1 DEF Folds
    <3> QED
      BY <3>1, <3>2
  <2>3. \A U \in Small(k + 1) : U # {} => U \ {Max(U)} \in Small(k)
    <3> SUFFICES ASSUME NEW U \in Small(k + 1), U # {}
                 PROVE  U \ {Max(U)} \in Small(k)
      OBVIOUS
    <3>1. Max(U) \in U /\ IsFiniteSet(U) /\ Cardinality(U) \in Nat /\ Cardinality(U) <= k + 1
      BY <1>1, <1>2
    <3>2. Cardinality(U \ {Max(U)}) = Cardinality(U) - 1
      BY <3>1, FS_RemoveElement
    <3>3. Cardinality(U) - 1 <= k
      BY <3>1
    <3> QED
      BY <3>2, <3>3
  <2> HIDE DEF Small
  <2>4. \A U \in Small(k + 1) : FoldNext(f, q, m, U) = FoldNext(g, q, m, U)
    BY <2>2, <2>3 DEF FoldNext
  <2>5. g = [U \in Small(k + 1) |-> FoldNext(g, q, m, U)]
    BY <2>4
  <2>6. Folds(g, q, m, Small(k + 1))
    BY <2>5 DEF Folds
  <2> QED
    BY <2>6
<1>5. Small(n) = SUBSET (1..n)
  BY <1>1
<1> HIDE DEF Small
<1>6. n \in Good
  <2> HIDE DEF Good
  <2> QED
    BY <1>3, <1>4, NatSetInduction
<1> QED
  BY <1>5, <1>6

Story(f, q, m) == f = [i \in 0..Len(q) |-> IF i = 0 THEN NoRow ELSE After(m, f[i - 1], q[i])]

\* The row of m when all requests of q have been applied.
Final(q, m) == FoldLeft(LAMBDA row, x : After(m, row, x), NoRow, q)

\* The row of m when the first i requests of q have been applied.
RowAt(q, m, i) == (CHOOSE f : Story(f, q, m))[i]

LEMMA FoldIsStory ==
    ASSUME NEW S, NEW q \in Seq(S), NEW m
    PROVE  \E f : Story(f, q, m) /\ f[Len(q)] = Final(q, m)
<1>1. PICK n \in Nat : DOMAIN q = 1..n /\ Len(q) = n
  BY Len(q) \in Nat
<1> DEFINE f == CHOOSE g : Folds(g, q, m, SUBSET (1..n))
<1>2. Final(q, m) = f[1..n]
  BY <1>1 DEF Final, FoldLeft, MapThenFoldSet, Folds, FoldNext
<1>3. Folds(f, q, m, SUBSET (1..n))
  BY FoldsExist
<1> HIDE DEF f
<1>4. \A U \in SUBSET (1..n) : f[U] = FoldNext(f, q, m, U)
  BY <1>3 DEF Folds
<1> DEFINE g == [i \in 0..n |-> f[1..i]]
<1>5. g[0] = NoRow
  <2>1. 1..0 = {} /\ {} \in SUBSET (1..n)
    OBVIOUS
  <2>2. f[{}] = FoldNext(f, q, m, {})
    BY <1>4
  <2>3. FoldNext(f, q, m, {}) = NoRow
    BY DEF FoldNext
  <2>4. 0 \in 0..n /\ g[0] = f[1..0]
    OBVIOUS
  <2> HIDE DEF g
  <2> QED
    BY <2>1, <2>2, <2>3, <2>4
<1>6. \A i \in 1..n : g[i] = After(m, g[i - 1], q[i])
  <2> SUFFICES ASSUME NEW i \in 1..n PROVE f[1..i] = After(m, f[1..(i - 1)], q[i])
    OBVIOUS
  <2>1. 1..i \in SUBSET (1..n) /\ 1..i # {} /\ i \in 1..i /\ \A j \in 1..i : j \in 1..i
    OBVIOUS
  <2>2. Max(1..i) = i
    <3>1. Max(1..i) \in 1..i /\ \A j \in 1..i : j <= Max(1..i)
      BY <2>1, MaxIn
    <3> QED
      BY <2>1, <3>1
  <2>3. (1..i) \ {i} = 1..(i - 1)
    OBVIOUS
  <2>4. f[1..i] = FoldNext(f, q, m, 1..i)
    BY <1>4, <2>1
  <2>5. FoldNext(f, q, m, 1..i) = After(m, f[(1..i) \ {Max(1..i)}], q[Max(1..i)])
    BY <2>1 DEF FoldNext
  <2>6. (1..i) \ {Max(1..i)} = 1..(i - 1)
    BY <2>2, <2>3
  <2> QED
    BY <2>2, <2>4, <2>5, <2>6, Zenon
<1>7. g = [i \in 0..n |-> IF i = 0 THEN NoRow ELSE After(m, g[i - 1], q[i])]
  <2>1. g = [i \in 0..n |-> g[i]]
    OBVIOUS
  <2> HIDE DEF g
  <2>2. \A i \in 0..n : i = 0 \/ i \in 1..n
    OBVIOUS
  <2>3. \A i \in 0..n : g[i] = IF i = 0 THEN NoRow ELSE After(m, g[i - 1], q[i])
    BY <1>5, <1>6, <2>2
  <2> QED
    BY <2>1, <2>3
<1>8. Story(g, q, m)
  BY <1>1, <1>7 DEF Story
<1>9. g[n] = f[1..n]
  OBVIOUS
<1> QED
  BY <1>1, <1>2, <1>8, <1>9

LEMMA StoryUnique ==
    ASSUME NEW S, NEW q \in Seq(S), NEW l \in Seq(S), Len(q) <= Len(l),
           \A i \in 1..Len(q) : l[i] = q[i],
           NEW m, NEW f, Story(f, q, m), NEW g, Story(g, l, m)
    PROVE  \A i \in 0..Len(q) : g[i] = f[i]
<1> DEFINE Good == {i \in Nat : i <= Len(q) => g[i] = f[i]}
<1>1. Len(q) \in Nat /\ Len(l) \in Nat
  OBVIOUS
<1>2. f[0] = NoRow /\ \A i \in 1..Len(q) : f[i] = After(m, f[i - 1], q[i])
  BY <1>1 DEF Story
<1>3. g[0] = NoRow /\ \A i \in 1..Len(l) : g[i] = After(m, g[i - 1], l[i])
  BY <1>1 DEF Story
<1>4. 0 \in Good
  BY <1>2, <1>3
<1>5. ASSUME NEW i \in Nat, i \in Good PROVE i + 1 \in Good
  <2> SUFFICES ASSUME i + 1 <= Len(q) PROVE g[i + 1] = f[i + 1]
    OBVIOUS
  <2>1. i <= Len(q) /\ i + 1 \in 1..Len(q) /\ i + 1 \in 1..Len(l) /\ (i + 1) - 1 = i
    BY <1>1
  <2>2. g[i] = f[i] /\ l[i + 1] = q[i + 1]
    BY <1>5, <2>1
  <2>3. f[i + 1] = After(m, f[i], q[i + 1])
    BY <1>2, <2>1
  <2>4. g[i + 1] = After(m, g[i], l[i + 1])
    BY <1>3, <2>1
  <2> QED
    BY <2>2, <2>3, <2>4
<1>6. Nat \subseteq Good
  <2> HIDE DEF Good
  <2> QED
    BY <1>4, <1>5, NatSetInduction
<1> QED
  BY <1>1, <1>6

LEMMA RowAtIs ==
    ASSUME NEW S, NEW q \in Seq(S), NEW m
    PROVE  /\ RowAt(q, m, 0) = NoRow
           /\ \A i \in 1..Len(q) : RowAt(q, m, i) = After(m, RowAt(q, m, i - 1), q[i])
           /\ RowAt(q, m, Len(q)) = Final(q, m)
<1> DEFINE f == CHOOSE g : Story(g, q, m)
<1>1. PICK g : Story(g, q, m) /\ g[Len(q)] = Final(q, m)
  BY FoldIsStory
<1>2. Story(f, q, m)
  BY <1>1
<1>3. \A i : RowAt(q, m, i) = f[i]
  BY DEF RowAt
<1> HIDE DEF f
<1>4. Len(q) \in Nat
  OBVIOUS
<1>5. g[Len(q)] = f[Len(q)]
  <2>1. \A i \in 0..Len(q) : g[i] = f[i]
    BY <1>1, <1>2, <1>4, StoryUnique
  <2> QED
    BY <1>4, <2>1
<1>6. f[0] = NoRow /\ \A i \in 1..Len(q) : f[i] = After(m, f[i - 1], q[i])
  BY <1>2, <1>4 DEF Story
<1> QED
  BY <1>1, <1>3, <1>5, <1>6

LEMMA RowAtPrefix ==
    ASSUME NEW S, NEW q \in Seq(S), NEW l \in Seq(S), Len(q) <= Len(l),
           \A i \in 1..Len(q) : l[i] = q[i], NEW m
    PROVE  \A i \in 0..Len(q) : RowAt(l, m, i) = RowAt(q, m, i)
<1> DEFINE f == CHOOSE h : Story(h, q, m)
           g == CHOOSE h : Story(h, l, m)
<1>1. Story(f, q, m) /\ Story(g, l, m)
  BY FoldIsStory
<1>2. \A i : RowAt(q, m, i) = f[i] /\ RowAt(l, m, i) = g[i]
  BY DEF RowAt
<1> HIDE DEF f, g
<1>3. \A i \in 0..Len(q) : g[i] = f[i]
  BY <1>1, StoryUnique
<1> QED
  BY <1>2, <1>3

\* What one request does to a row: rows stay rows, a deleted row stays as it is,
\* and only a creation makes one.
LEMMA AfterKeeps ==
    ASSUME NEW m \in Message, NEW row \in Row \cup {NoRow}, NEW x \in Request
    PROVE  /\ After(m, row, x) \in Row \cup {NoRow}
           /\ row # NoRow => After(m, row, x) # NoRow
           /\ row # NoRow /\ row.deleted => After(m, row, x) = row
           /\ x.msg = m /\ x.op = "create" => After(m, row, x) # NoRow
           /\ x.msg = m /\ x.op = "create" /\ row # NoRow => After(m, row, x) = row
           /\ row = NoRow /\ After(m, row, x) # NoRow => x.msg = m /\ x.op = "create"
           /\ x.msg # m => After(m, row, x) = row
<1>1. x.text \in Content /\ x.op \in {"create", "edit", "delete", "react", "unreact"}
  BY DEF Request, Update, Content
<1>2. \A t \in Content, d \in BOOLEAN : [content |-> t, deleted |-> d] \in Row
  BY DEF Row
<1>3. \A r \in Row : r # NoRow /\ r.content \in Content /\ r.deleted \in BOOLEAN
                     /\ \A t \in Content : [r EXCEPT !.content = t] \in Row
  BY PersistenceAssumption DEF Row
<1>4. Tombstone \in Content
  BY DEF Content
<1>5. row = NoRow \/ (row \in Row /\ row # NoRow /\ row.deleted \in BOOLEAN)
  BY <1>3
<1>6. CASE x.msg # m
  BY <1>6 DEF After
<1>7. CASE x.msg = m /\ x.op = "create"
  <2>1. After(m, row, x) = IF row = NoRow THEN [content |-> x.text, deleted |-> FALSE] ELSE row
    BY <1>7 DEF After
  <2>2. [content |-> x.text, deleted |-> FALSE] \in Row
    BY <1>1, <1>2
  <2> QED
    BY <1>3, <1>7, <2>1, <2>2
<1>8. CASE x.msg = m /\ x.op = "edit"
  <2>1. After(m, row, x) = IF row # NoRow /\ ~row.deleted THEN [row EXCEPT !.content = x.text] ELSE row
    BY <1>8 DEF After
  <2> QED
    BY <1>1, <1>3, <1>5, <1>8, <2>1
<1>9. CASE x.msg = m /\ x.op = "delete"
  <2>1. After(m, row, x) = IF row # NoRow /\ ~row.deleted
                           THEN [content |-> Tombstone, deleted |-> TRUE] ELSE row
    BY <1>9 DEF After
  <2>2. [content |-> Tombstone, deleted |-> TRUE] \in Row
    BY <1>2, <1>4
  <2> QED
    BY <1>3, <1>5, <1>9, <2>1, <2>2
<1>10. CASE x.msg = m /\ x.op \in {"react", "unreact"}
  <2>1. After(m, row, x) = row
    BY <1>10 DEF After
  <2> QED
    BY <1>10, <2>1
<1> QED
  BY <1>1, <1>6, <1>7, <1>8, <1>9, <1>10

\* A request that is applied again, to the row r that it and later requests have
\* made of b, leaves r or makes the row that it made of b.
LEMMA AppliedAgain ==
    ASSUME NEW m \in Message, NEW b \in Row \cup {NoRow}, NEW r \in Row \cup {NoRow},
           NEW x \in Request,
           x.msg = m /\ x.op # "create" /\ r # NoRow => b # NoRow,
           After(m, b, x) # NoRow => r # NoRow,
           After(m, b, x) # NoRow /\ After(m, b, x).deleted => r.deleted
    PROVE  After(m, r, x) \in {r, After(m, b, x)}
<1>1. x.op \in {"create", "edit", "delete", "react", "unreact"}
  BY DEF Request, Update
<1>3. \A s \in Row : s # NoRow /\ s.deleted \in BOOLEAN /\ s = [content |-> s.content, deleted |-> s.deleted]
  BY PersistenceAssumption DEF Row
<1>6. CASE x.msg # m \/ x.op \in {"react", "unreact"}
  BY <1>6 DEF After
<1>7. CASE x.msg = m /\ x.op = "create"
  BY <1>7, AfterKeeps
<1>8. CASE x.msg = m /\ x.op = "edit"
  <2>1. CASE r = NoRow \/ r.deleted
    BY <1>8, <2>1 DEF After
  <2>2. CASE r # NoRow /\ ~r.deleted
    <3>1. b # NoRow /\ b \in Row /\ r \in Row
      BY <1>8, <2>2
    <3>2. ~b.deleted
      BY <2>2, <3>1, AfterKeeps
    <3>3. After(m, b, x) = [b EXCEPT !.content = x.text] /\ After(m, r, x) = [r EXCEPT !.content = x.text]
      BY <1>8, <2>2, <3>1, <3>2 DEF After
    <3>4. /\ [b EXCEPT !.content = x.text] = [content |-> x.text, deleted |-> b.deleted]
          /\ [r EXCEPT !.content = x.text] = [content |-> x.text, deleted |-> r.deleted]
      BY <3>1 DEF Row
    <3>5. b.deleted = FALSE /\ r.deleted = FALSE
      BY <1>3, <2>2, <3>1, <3>2
    <3> QED
      BY <3>3, <3>4, <3>5
  <2> QED
    BY <2>1, <2>2
<1>9. CASE x.msg = m /\ x.op = "delete"
  <2>1. CASE r = NoRow \/ r.deleted
    BY <1>9, <2>1 DEF After
  <2>2. CASE r # NoRow /\ ~r.deleted
    <3>1. b # NoRow /\ b \in Row
      BY <1>9, <2>2
    <3>2. ~b.deleted
      BY <2>2, <3>1, AfterKeeps
    <3>3. After(m, b, x) = [content |-> Tombstone, deleted |-> TRUE]
      BY <1>9, <3>1, <3>2 DEF After
    <3>4. After(m, b, x) \in Row
      BY <3>3 DEF Row, Content
    <3>5. After(m, b, x) # NoRow /\ After(m, b, x).deleted
      BY <1>3, <3>3, <3>4
    <3> QED
      BY <2>2, <3>5
  <2> QED
    BY <2>1, <2>2
<1> QED
  BY <1>1, <1>6, <1>7, <1>8, <1>9

----------------------------------------------------------------------------
(* The story of a message.                                                 *)

\* Creations of m come before what changes it.
CreatedFirst(q, m) ==
    \A i, j \in 1..Len(q) :
        i < j /\ q[i].msg = m /\ q[j].msg = m /\ q[j].op = "create" => q[i].op = "create"

LEMMA RowAtTyped ==
    ASSUME NEW q \in Seq(Request), NEW m \in Message
    PROVE  \A i \in 0..Len(q) : RowAt(q, m, i) \in Row \cup {NoRow}
<1> DEFINE Good == {i \in Nat : i <= Len(q) => RowAt(q, m, i) \in Row \cup {NoRow}}
<1>1. Len(q) \in Nat /\ \A i \in 1..Len(q) : q[i] \in Request
  OBVIOUS
<1>2. /\ RowAt(q, m, 0) = NoRow
      /\ \A i \in 1..Len(q) : RowAt(q, m, i) = After(m, RowAt(q, m, i - 1), q[i])
  BY RowAtIs
<1>3. 0 \in Good
  BY <1>2
<1>4. ASSUME NEW i \in Nat, i \in Good PROVE i + 1 \in Good
  <2> SUFFICES ASSUME i + 1 <= Len(q) PROVE RowAt(q, m, i + 1) \in Row \cup {NoRow}
    OBVIOUS
  <2>1. i <= Len(q) /\ i + 1 \in 1..Len(q) /\ (i + 1) - 1 = i
    BY <1>1
  <2>2. RowAt(q, m, i) \in Row \cup {NoRow}
    BY <1>4, <2>1
  <2>3. RowAt(q, m, i + 1) = After(m, RowAt(q, m, i), q[i + 1])
    BY <1>2, <2>1
  <2>4. q[i + 1] \in Request
    BY <1>1, <2>1
  <2> QED
    BY <2>2, <2>3, <2>4, AfterKeeps
<1>5. Nat \subseteq Good
  <2> HIDE DEF Good
  <2> QED
    BY <1>3, <1>4, NatSetInduction
<1> QED
  BY <1>1, <1>5

\* A row lasts, and so does its deletion.
LEMMA RowLasts ==
    ASSUME NEW q \in Seq(Request), NEW m \in Message, NEW j \in 0..Len(q)
    PROVE  \A i \in j..Len(q) :
              /\ RowAt(q, m, j) # NoRow => RowAt(q, m, i) # NoRow
              /\ RowAt(q, m, j) # NoRow /\ RowAt(q, m, j).deleted => RowAt(q, m, i) = RowAt(q, m, j)
<1> DEFINE Lasts(i) ==
              /\ RowAt(q, m, j) # NoRow => RowAt(q, m, i) # NoRow
              /\ RowAt(q, m, j) # NoRow /\ RowAt(q, m, j).deleted => RowAt(q, m, i) = RowAt(q, m, j)
           Good == {k \in Nat : j + k <= Len(q) => Lasts(j + k)}
<1>1. Len(q) \in Nat /\ j \in Nat /\ \A i \in 1..Len(q) : q[i] \in Request
  OBVIOUS
<1>2. \A i \in 1..Len(q) : RowAt(q, m, i) = After(m, RowAt(q, m, i - 1), q[i])
  BY RowAtIs
<1>3. 0 \in Good
  <2>1. j + 0 = j
    BY <1>1
  <2> QED
    BY <2>1
<1>4. ASSUME NEW k \in Nat, k \in Good PROVE k + 1 \in Good
  <2> SUFFICES ASSUME j + (k + 1) <= Len(q) PROVE Lasts(j + (k + 1))
    OBVIOUS
  <2>1. PICK i \in Nat : i = j + k
    BY <1>1
  <2>2. i <= Len(q) /\ i \in 0..Len(q) /\ i + 1 \in 1..Len(q) /\ (i + 1) - 1 = i /\ j + (k + 1) = i + 1
    BY <1>1, <2>1
  <2>3. Lasts(i)
    BY <1>4, <2>1, <2>2
  <2>4. RowAt(q, m, i) \in Row \cup {NoRow} /\ q[i + 1] \in Request
    BY <1>1, <2>2, RowAtTyped
  <2>5. RowAt(q, m, i + 1) = After(m, RowAt(q, m, i), q[i + 1])
    BY <1>2, <2>2
  <2>6. /\ RowAt(q, m, i) # NoRow => RowAt(q, m, i + 1) # NoRow
        /\ RowAt(q, m, i) # NoRow /\ RowAt(q, m, i).deleted => RowAt(q, m, i + 1) = RowAt(q, m, i)
    BY <2>4, <2>5, AfterKeeps
  <2>7. Lasts(i + 1)
    BY <2>3, <2>6
  <2> QED
    BY <2>2, <2>7
<1>5. Nat \subseteq Good
  <2> HIDE DEF Good
  <2> QED
    BY <1>3, <1>4, NatSetInduction
<1> SUFFICES ASSUME NEW i \in j..Len(q) PROVE Lasts(i)
  OBVIOUS
<1>6. i - j \in Nat /\ j + (i - j) = i /\ i <= Len(q)
  BY <1>1
<1>7. i - j \in Good
  BY <1>5, <1>6
<1>8. Lasts(j + (i - j))
  BY <1>6, <1>7
<1> QED
  BY <1>6, <1>8

\* A row was created.
LEMMA RowWasCreated ==
    ASSUME NEW q \in Seq(Request), NEW m \in Message, NEW i \in 0..Len(q),
           RowAt(q, m, i) # NoRow
    PROVE  \E h \in 1..i : q[h].msg = m /\ q[h].op = "create"
<1> DEFINE Good == {k \in Nat : k <= Len(q) /\ RowAt(q, m, k) # NoRow =>
                                   \E h \in 1..k : q[h].msg = m /\ q[h].op = "create"}
<1>1. Len(q) \in Nat /\ \A h \in 1..Len(q) : q[h] \in Request
  OBVIOUS
<1>2. /\ RowAt(q, m, 0) = NoRow
      /\ \A h \in 1..Len(q) : RowAt(q, m, h) = After(m, RowAt(q, m, h - 1), q[h])
  BY RowAtIs
<1>3. 0 \in Good
  BY <1>2
<1>4. ASSUME NEW k \in Nat, k \in Good PROVE k + 1 \in Good
  <2> SUFFICES ASSUME k + 1 <= Len(q), RowAt(q, m, k + 1) # NoRow
               PROVE  \E h \in 1..(k + 1) : q[h].msg = m /\ q[h].op = "create"
    OBVIOUS
  <2>1. k <= Len(q) /\ k \in 0..Len(q) /\ k + 1 \in 1..Len(q) /\ (k + 1) - 1 = k
        /\ \A h \in 1..k : h \in 1..(k + 1)
    BY <1>1
  <2>2. CASE RowAt(q, m, k) # NoRow
    BY <1>4, <2>1, <2>2
  <2>3. CASE RowAt(q, m, k) = NoRow
    <3>1. RowAt(q, m, k + 1) = After(m, RowAt(q, m, k), q[k + 1]) /\ q[k + 1] \in Request
      BY <1>1, <1>2, <2>1
    <3>2. q[k + 1].msg = m /\ q[k + 1].op = "create"
      BY <2>3, <3>1, AfterKeeps
    <3>3. k + 1 \in 1..(k + 1)
      OBVIOUS
    <3> QED
      BY <3>2, <3>3
  <2> QED
    BY <2>2, <2>3
<1>5. Nat \subseteq Good
  <2> HIDE DEF Good
  <2> QED
    BY <1>3, <1>4, NatSetInduction
<1> QED
  BY <1>1, <1>5

\* Redelivery: what the log has made of a message by entry i is not spoilt by
\* applying entry j once more.
LEMMA Replayed ==
    ASSUME NEW q \in Seq(Request), NEW m \in Message, CreatedFirst(q, m),
           NEW i \in 0..Len(q), NEW j \in 1..Len(q), j <= i + 1
    PROVE  \E k \in 0..Len(q) : k >= j /\ After(m, RowAt(q, m, i), q[j]) = RowAt(q, m, k)
<1>1. Len(q) \in Nat /\ \A h \in 1..Len(q) : q[h] \in Request
  OBVIOUS
<1>2. \A h \in 1..Len(q) : RowAt(q, m, h) = After(m, RowAt(q, m, h - 1), q[h])
  BY RowAtIs
<1>3. CASE j = i + 1
  <2>1. j - 1 = i /\ j \in 0..Len(q) /\ j >= j
    BY <1>3
  <2> QED
    BY <1>2, <2>1
<1>4. CASE j <= i
  <2> DEFINE b == RowAt(q, m, j - 1)
             r == RowAt(q, m, i)
  <2>1. j - 1 \in 0..Len(q) /\ j \in 0..Len(q) /\ i \in j..Len(q) /\ j \in (j - 1)..Len(q)
    BY <1>1, <1>4
  <2>2. b \in Row \cup {NoRow} /\ r \in Row \cup {NoRow} /\ q[j] \in Request
    BY <1>1, <2>1, RowAtTyped
  <2>3. RowAt(q, m, j) = After(m, b, q[j])
    BY <1>2
  <2>4. /\ After(m, b, q[j]) # NoRow => r # NoRow
        /\ After(m, b, q[j]) # NoRow /\ After(m, b, q[j]).deleted => r.deleted
    BY <2>1, <2>3, RowLasts
  <2>5. ASSUME q[j].msg = m, q[j].op # "create", r # NoRow
        PROVE  b # NoRow
    <3>1. PICK h \in 1..i : q[h].msg = m /\ q[h].op = "create"
      BY <2>5, RowWasCreated
    <3>2. h \in 1..Len(q)
      BY <1>1
    <3>3. h < j
      BY <2>5, <3>1, <3>2 DEF CreatedFirst
    <3>4. h - 1 \in 0..Len(q) /\ h \in 0..Len(q) /\ j - 1 \in h..Len(q)
      BY <1>1, <3>2, <3>3
    <3>5. PICK x \in Request : x = q[h]
      BY <1>1, <3>2
    <3>6. PICK a \in Row \cup {NoRow} : a = RowAt(q, m, h - 1)
      BY <3>4, RowAtTyped
    <3>7. RowAt(q, m, h) = After(m, a, x)
      BY <1>2, <3>2, <3>5, <3>6
    <3>8. RowAt(q, m, h) # NoRow
      <4>1. x.msg = m /\ x.op = "create"
        BY <3>1, <3>5
      <4>2. After(m, a, x) # NoRow
        BY <4>1, AfterKeeps
      <4> QED
        BY <3>7, <4>2
    <3> QED
      BY <3>4, <3>8, RowLasts
  <2> HIDE DEF b, r
  <2>6. After(m, r, q[j]) \in {r, After(m, b, q[j])}
    BY <2>2, <2>4, <2>5, AppliedAgain
  <2>7. CASE After(m, r, q[j]) = r
    <3>1. i \in 0..Len(q) /\ i >= j
      BY <1>4
    <3> QED
      BY <2>7, <3>1 DEF r
  <2>8. CASE After(m, r, q[j]) = After(m, b, q[j])
    BY <1>4, <2>1, <2>3, <2>8 DEF r
  <2> QED
    BY <2>6, <2>7, <2>8
<1> QED
  BY <1>1, <1>3, <1>4

----------------------------------------------------------------------------
(* One sender and one consumer, and no REST handlers.                      *)

SingleWriter ==
    /\ Handler = {}
    /\ \A s, t \in Sender : s = t
    /\ \A c, d \in Consumer : c = d

\* Creations come first: a message is changed by those who were shown it, and by
\* then the only sender has produced it or given it up.
SenderInv ==
    /\ \A p \in Partition : \A i \in 1..Len(log[p]) : log[p][i].msg \in shown
    /\ \A p \in Partition, m \in Message : CreatedFirst(log[p], m)
    /\ \A s \in Sender : \A o \in outbox[s] :
          /\ o[1].msg \in shown
          /\ \A x \in outbox[s] : x = o
          /\ o[1].op = "create" =>
                \A p \in Partition : \A i \in 1..Len(log[p]) :
                    log[p][i].msg = o[1].msg => log[p][i].op = "create"

LEMMA CommandSender ==
    ASSUME IInv, SingleWriter, SenderInv,
           NEW s \in Sender, NEW q \in Request, NEW p \in Partition, Command(s, q, p)
    PROVE  SenderInv'
<1>1. /\ outbox' = [outbox EXCEPT ![s] = {<<q, p>>}] /\ shown' = shown \cup {q.msg}
      /\ q.op = "create" => q.msg \notin shown
      /\ UNCHANGED log
  BY DEF Command, kafka
<1>2. outbox \in [Sender -> SUBSET (Request \X Partition)]
  BY DEF IInv, TypeOK
<1>3. \A t \in Sender : \A o \in outbox'[t] : o = <<q, p>>
  BY <1>1, <1>2 DEF SingleWriter
<1>4. \A t \in Sender : \A o \in outbox'[t] : o[1] = q
  BY <1>3
<1>5. \A r \in Partition : \A i \in 1..Len(log[r]) : log[r][i].msg \in shown
  BY DEF SenderInv
<1>6. q.op = "create" =>
          \A r \in Partition : \A i \in 1..Len(log[r]) : log[r][i].msg # q.msg
  BY <1>1, <1>5
<1>7. \A r \in Partition, m \in Message : CreatedFirst(log[r], m)'
  BY <1>1 DEF SenderInv, CreatedFirst
<1>8. q.msg \in shown'
  BY <1>1
<1> QED
  BY <1>1, <1>3, <1>4, <1>5, <1>6, <1>7, <1>8 DEF SenderInv

LEMMA ProduceSender ==
    ASSUME IInv, SingleWriter, SenderInv, NEW s \in Sender, Produce(s)
    PROVE  SenderInv'
<1>1. PICK o \in outbox[s] : log' = [log EXCEPT ![o[2]] = Append(@, o[1])]
  BY DEF Produce
<1>2. /\ outbox \in [Sender -> SUBSET (Request \X Partition)]
      /\ log \in [Partition -> Seq(Request)]
  BY DEF IInv, TypeOK
<1>3. PICK q \in Request : q = o[1]
  BY <1>2
<1>4. PICK r \in Partition : r = o[2]
  BY <1>2
<1>5. /\ log'[r] = Append(log[r], q)
      /\ \A p \in Partition \ {r} : log'[p] = log[p]
  BY <1>1, <1>2, <1>3, <1>4
<1>6. shown' = shown /\ \A t \in Sender : outbox'[t] \subseteq outbox[t]
  BY <1>2 DEF Produce
<1>7. \A t \in Sender : \A x \in outbox'[t] : x \in outbox[t] /\ x[1] = q /\ x = o
  BY <1>3, <1>6 DEF SingleWriter, SenderInv
<1>8. /\ q.msg \in shown
      /\ q.op = "create" =>
            \A p \in Partition : \A i \in 1..Len(log[p]) :
                log[p][i].msg = q.msg => log[p][i].op = "create"
  BY <1>3 DEF SenderInv
<1>9. PICK l \in Seq(Request) : l = log[r]
  BY <1>2
<1>10. PICK a \in Seq(Request) : a = Append(l, q)
  BY AppendKeeps
<1>11. /\ Len(l) \in Nat /\ Len(a) = Len(l) + 1 /\ a[Len(l) + 1] = q
       /\ \A i \in 1..Len(l) : a[i] = l[i]
  BY <1>10
<1>12. \A i \in 1..Len(a) : i \in 1..Len(l) \/ i = Len(l) + 1
  BY <1>11
<1>13. \A i \in 1..Len(a) : a[i] = q \/ (i \in 1..Len(l) /\ a[i] = l[i])
  BY <1>11, <1>12
<1>14. log'[r] = a
  BY <1>5, <1>9, <1>10
<1>15. \A p \in Partition : \A i \in 1..Len(log'[p]) :
          log'[p][i] = q \/ (i \in 1..Len(log[p]) /\ log'[p][i] = log[p][i])
  BY <1>5, <1>9, <1>13, <1>14
<1>16. \A p \in Partition : \A i \in 1..Len(log'[p]) : log'[p][i].msg \in shown'
  BY <1>6, <1>8, <1>15 DEF SenderInv
<1>17. ASSUME NEW m \in Message PROVE CreatedFirst(a, m)
  <2>1. CreatedFirst(l, m)
    BY <1>9 DEF SenderInv
  <2> SUFFICES ASSUME NEW i \in 1..Len(a), NEW j \in 1..Len(a), i < j,
                      a[i].msg = m, a[j].msg = m, a[j].op = "create"
               PROVE  a[i].op = "create"
    BY DEF CreatedFirst
  <2>2. i \in 1..Len(l) /\ a[i] = l[i]
    BY <1>11
  <2>3. CASE j \in 1..Len(l)
    BY <1>11, <2>1, <2>2, <2>3 DEF CreatedFirst
  <2>4. CASE j = Len(l) + 1
    BY <1>8, <1>9, <1>11, <2>2, <2>4
  <2> QED
    BY <1>12, <2>3, <2>4
<1>18. \A p \in Partition, m \in Message : CreatedFirst(log'[p], m)
  BY <1>5, <1>14, <1>17 DEF SenderInv
<1>19. \A p \in Partition, m \in Message : CreatedFirst(log[p], m)'
  BY <1>18 DEF CreatedFirst
<1>20. \A p \in Partition : \A i \in 1..Len(log'[p]) :
           q.op = "create" /\ log'[p][i].msg = q.msg => log'[p][i].op = "create"
  BY <1>8, <1>15
<1> QED
  BY <1>6, <1>7, <1>8, <1>16, <1>19, <1>20 DEF SenderInv

LEMMA SenderKept ==
    ASSUME IInv, SingleWriter, SenderInv, [Next]_vars
    PROVE  SenderInv'
<1>1. CASE \E s \in Sender, q \in Request, p \in Partition : Command(s, q, p)
  BY <1>1, CommandSender
<1>2. CASE \E s \in Sender : Produce(s)
  BY <1>2, ProduceSender
<1>3. CASE /\ UNCHANGED <<shown, log>>
           /\ \A s \in Sender : outbox'[s] \subseteq outbox[s]
  <2>1. \A p \in Partition, m \in Message : CreatedFirst(log[p], m)'
    BY <1>3 DEF SenderInv, CreatedFirst
  <2> QED
    BY <1>3, <2>1 DEF SenderInv
<1>4. ASSUME NEW s \in Sender, ProduceFails(s)
      PROVE  UNCHANGED <<shown, log>> /\ \A t \in Sender : outbox'[t] \subseteq outbox[t]
  <2>1. outbox \in [Sender -> SUBSET (Request \X Partition)]
    BY DEF IInv, TypeOK
  <2> QED
    BY <1>4, <2>1 DEF ProduceFails, kafka
<1>5. \/ \E s \in Sender, q \in Request, p \in Partition : Command(s, q, p)
      \/ \E s \in Sender : Produce(s) \/ ProduceFails(s)
      \/ UNCHANGED <<shown, outbox, log>>
  <2>1. ASSUME NEW w, Execute(w) PROVE UNCHANGED <<shown, outbox, log>>
    BY <2>1 DEF Execute, Create, Load, Write, React, producer, kafka
  <2>2. ASSUME NEW c \in Consumer, ConsumerStep(c) \/ Crash(c)
        PROVE  UNCHANGED <<shown, outbox, log>>
    BY <2>1, <2>2 DEF ConsumerStep, Crash, Start, Fetch, Retry, Commit, SendToDlq, producer, kafka
  <2>3. CASE Rebalance
    BY <2>3 DEF Rebalance, producer
  <2>4. ASSUME NEW h \in Handler, HandlerFails(h) \/ \E q \in Update : RestRequest(h, q)
        PROVE  UNCHANGED <<shown, outbox, log>>
    BY <2>4 DEF HandlerFails, RestRequest, producer, kafka
  <2>5. CASE UNCHANGED vars
    BY <2>5 DEF vars
  <2> QED
    BY <2>1, <2>2, <2>3, <2>4, <2>5 DEF Next
<1>6. CASE UNCHANGED <<shown, outbox, log>>
  <2>1. \A t \in Sender : outbox'[t] \subseteq outbox[t]
    BY <1>6
  <2> QED
    BY <1>3, <1>6, <2>1
<1> QED
  BY <1>1, <1>2, <1>3, <1>4, <1>5, <1>6

\* A busy consumer has not committed what it works on, nor been sent beyond it; when
\* it updates a row, the row is as it read it.
BusyAhead(c) ==
    Busy(c) => /\ committed[cur[c][1]] < cur[c][2]
               /\ owner[cur[c][1]] = c => position[c][cur[c][1]] <= cur[c][2]
Fresh(c) ==
    pc[c] = "write" => /\ loaded[c] = rows[Job(c).msg] /\ ~loaded[c].deleted
                       /\ Job(c).op \in {"edit", "delete"}

WriterInv == \A c \in Consumer : BusyAhead(c) /\ Fresh(c)

\* The consumer has yet to apply an entry of p, or to apply it once more.
Unapplied(c, p) == pc[c] \in {"process", "write", "dead"} /\ cur[c][1] = p

\* Entry i of p is not before what is committed, fetched and applied.
Late(p, i) ==
    /\ committed[p] <= i
    /\ \A c \in Consumer :
          /\ owner[p] = c /\ ~Unapplied(c, p) => position[c][p] <= i
          /\ Unapplied(c, p) => cur[c][2] - 1 <= i
          /\ pc[c] = "commit" /\ cur[c][1] = p => cur[c][2] <= i

OnlyIn(p, m) == \A s \in Partition \ {p} : \A i \in 1..Len(log[s]) : log[s][i].msg # m

\* Each row is what the first entries of its partition make of it, and what comes
\* again or is still to come goes on from there.
RowsInv ==
    deadLetter \cup dropped = {} =>
        \A p \in Partition, m \in Message :
            OnlyIn(p, m) => \E i \in 0..Len(log[p]) : rows[m] = RowAt(log[p], m, i) /\ Late(p, i)

\* Steps that write no row.
LEMMA RowsStay ==
    ASSUME IInv, IInv', RowsInv, UNCHANGED rows,
           deadLetter \subseteq deadLetter', dropped \subseteq dropped',
           \A p \in Partition : \A i \in 1..Len(log[p]) :
               i \in 1..Len(log'[p]) /\ log'[p][i] = log[p][i],
           \A p \in Partition, i \in Nat : Late(p, i) => Late(p, i)'
    PROVE  RowsInv'
<1>1. /\ log \in [Partition -> Seq(Request)]
      /\ log' \in [Partition -> Seq(Request)]
  BY DEF IInv, TypeOK
<1> SUFFICES ASSUME (deadLetter \cup dropped)' = {},
                    NEW p \in Partition, NEW m \in Message, OnlyIn(p, m)'
             PROVE  \E i \in 0..Len(log'[p]) : rows[m] = RowAt(log'[p], m, i) /\ Late(p, i)'
  BY DEF RowsInv
<1>2. deadLetter \cup dropped = {} /\ OnlyIn(p, m)
  BY DEF OnlyIn
<1>3. PICK i \in 0..Len(log[p]) : rows[m] = RowAt(log[p], m, i) /\ Late(p, i)
  BY <1>2 DEF RowsInv
<1>4. PICK q \in Seq(Request) : q = log[p]
  BY <1>1
<1>5. PICK l \in Seq(Request) : l = log'[p]
  BY <1>1
<1>6. \A j \in 1..Len(q) : j \in 1..Len(l) /\ l[j] = q[j]
  BY <1>4, <1>5
<1>7. Len(q) \in Nat /\ Len(l) \in Nat
  OBVIOUS
<1>8. Len(q) <= Len(l)
  <2>1. CASE Len(q) = 0
    BY <1>7, <2>1
  <2>2. CASE Len(q) # 0
    BY <1>6, <1>7, <2>2
  <2> QED
    BY <2>1, <2>2
<1>9. i \in 0..Len(q) /\ i \in 0..Len(l) /\ i \in Nat
  BY <1>3, <1>4, <1>7, <1>8
<1>10. RowAt(l, m, i) = RowAt(q, m, i)
  BY <1>6, <1>8, <1>9, RowAtPrefix
<1> QED
  BY <1>3, <1>4, <1>5, <1>9, <1>10

\* _process returns after it has applied the entry.
LEMMA RowsApplied ==
    ASSUME IInv, IInv', SingleWriter, SenderInv, WriterInv, RowsInv, NEW c \in Consumer,
           pc[c] \in {"process", "write"}, pc'[c] = "commit",
           UNCHANGED <<log, committed, owner, position, cur, deadLetter, dropped>>,
           \A m \in Message : rows'[m] = After(m, rows[m], Entry(cur[c]))
    PROVE  RowsInv'
<1>1. /\ log \in [Partition -> Seq(Request)]
      /\ cur[c] \in Slot
      /\ committed \in [Partition -> Nat]
      /\ position \in [Consumer -> [Partition -> Nat]]
      /\ rows \in [Message -> Row \cup {NoRow}]
  BY DEF IInv, TypeOK
<1>2. PICK r \in Partition : r = cur[c][1]
  BY <1>1 DEF Slot
<1>3. PICK j \in 1..Len(log[r]) : j = cur[c][2]
  BY <1>2 DEF IInv, CurInLog, Busy
<1>4. Entry(cur[c]) = log[r][j] /\ j \in Nat
  BY <1>1, <1>2, <1>3 DEF Entry
<1>5. committed[r] < j /\ (owner[r] = c => position[c][r] <= j)
  BY <1>2, <1>3 DEF WriterInv, BusyAhead, Busy
<1>6. \A d \in Consumer : d = c
  BY DEF SingleWriter
<1> SUFFICES ASSUME (deadLetter \cup dropped)' = {},
                    NEW p \in Partition, NEW m \in Message, OnlyIn(p, m)'
             PROVE  \E i \in 0..Len(log[p]) : rows'[m] = RowAt(log[p], m, i) /\ Late(p, i)'
  BY DEF RowsInv
<1>7. deadLetter \cup dropped = {} /\ OnlyIn(p, m)
  BY DEF OnlyIn
<1>8. PICK i \in 0..Len(log[p]) : rows[m] = RowAt(log[p], m, i) /\ Late(p, i)
  BY <1>7 DEF RowsInv
<1>9. PICK q \in Seq(Request) : q = log[p]
  BY <1>1
<1>10. Len(q) \in Nat
  OBVIOUS
<1>11. CASE p = r
  <2>1. j \in 1..Len(q) /\ i \in 0..Len(q) /\ j - 1 <= i
    BY <1>2, <1>3, <1>8, <1>9, <1>11 DEF Late, Unapplied
  <2>2. j <= i + 1 /\ CreatedFirst(q, m)
    BY <1>4, <1>9, <2>1 DEF SenderInv
  <2>3. PICK k \in 0..Len(q) : k >= j /\ After(m, RowAt(q, m, i), q[j]) = RowAt(q, m, k)
    BY <2>1, <2>2, Replayed
  <2>4. rows'[m] = RowAt(q, m, k)
    BY <1>4, <1>8, <1>9, <1>11, <2>3
  <2>5. committed[p] <= k /\ (owner[p] = c => position[c][p] <= k) /\ j <= k
    BY <1>1, <1>4, <1>5, <1>11, <2>3
  <2>6. Late(p, k)'
    BY <1>2, <1>3, <1>6, <1>11, <2>5 DEF Late, Unapplied
  <2> QED
    BY <1>9, <2>4, <2>6
<1>12. CASE p # r
  <2>1. Entry(cur[c]).msg # m
    BY <1>3, <1>4, <1>7, <1>12 DEF OnlyIn
  <2>2. rows'[m] = rows[m]
    BY <2>1 DEF After
  <2>3. Late(p, i)'
    BY <1>2, <1>6, <1>8, <1>12 DEF Late, Unapplied
  <2> QED
    BY <1>8, <2>2, <2>3
<1> QED
  BY <1>11, <1>12

OnceInv == SenderInv /\ WriterInv /\ RowsInv

\* What the lemmas below need of the types.
LEMMA ConsumerTypes ==
    ASSUME IInv, NEW c \in Consumer
    PROVE  /\ c \in Worker
           /\ cur[c] \in Partition \X (Nat \ {0})
           /\ cur[c][1] \in Partition /\ cur[c][2] \in Nat
           /\ \A p \in Partition : committed[p] \in Nat /\ position[c][p] \in Nat
           /\ \A x : pc' = [pc EXCEPT ![c] = x] => pc'[c] = x
BY DEF IInv, TypeOK, Slot, Worker

LEMMA LogGrowsOnce ==
    ASSUME IInv, IInv', WriterInv, RowsInv,
           UNCHANGED <<rows, committed, owner, position, pc, cur, loaded, deadLetter, dropped>>,
           \A p \in Partition : \A i \in 1..Len(log[p]) :
               i \in 1..Len(log'[p]) /\ log'[p][i] = log[p][i]
    PROVE  WriterInv' /\ RowsInv'
<1>1. ASSUME NEW c \in Consumer, pc[c] = "write" PROVE Job(c)' = Job(c)
  <2>1. cur[c][2] \in 1..Len(log[cur[c][1]]) /\ cur[c][1] \in Partition
    BY <1>1, ConsumerTypes DEF IInv, CurInLog, Busy
  <2>2. log'[cur[c][1]][cur[c][2]] = log[cur[c][1]][cur[c][2]]
    BY <2>1
  <2> QED
    BY <2>2 DEF Job, Entry
<1>2. WriterInv'
  <2>1. \A c \in Consumer : BusyAhead(c)'
    BY DEF WriterInv, BusyAhead, Busy
  <2>2. \A c \in Consumer : Fresh(c)'
    BY <1>1 DEF WriterInv, Fresh
  <2> QED
    BY <2>1, <2>2 DEF WriterInv
<1>3. \A p \in Partition, i \in Nat : Late(p, i) => Late(p, i)'
  BY DEF Late, Unapplied
<1> QED
  BY <1>2, <1>3, RowsStay

LEMMA StartOnce ==
    ASSUME IInv, IInv', SingleWriter, WriterInv, RowsInv, NEW c \in Consumer, Start(c)
    PROVE  WriterInv' /\ RowsInv'
<1>1. /\ pc[c] = "down" /\ pc'[c] = "idle"
      /\ UNCHANGED <<log, rows, committed, owner, position, cur, loaded, deadLetter, dropped>>
  BY ConsumerTypes DEF Start, Goto, kafka, database, locals, history
<1>2. \A d \in Consumer : d = c
  BY DEF SingleWriter
<1>3. WriterInv'
  BY <1>1, <1>2 DEF WriterInv, BusyAhead, Fresh, Busy
<1>4. \A p \in Partition, i \in Nat : Late(p, i) => Late(p, i)'
  BY <1>1, <1>2 DEF Late, Unapplied
<1> QED
  BY <1>1, <1>3, <1>4, RowsStay

LEMMA CrashOnce ==
    ASSUME IInv, IInv', SingleWriter, WriterInv, RowsInv, NEW c \in Consumer, Crash(c)
    PROVE  WriterInv' /\ RowsInv'
<1>1. /\ pc'[c] = "down"
      /\ owner' = [p \in Partition |-> IF owner[p] = c THEN Nobody ELSE owner[p]]
      /\ UNCHANGED <<log, rows, committed, position, cur, deadLetter, dropped>>
  BY ConsumerTypes DEF Crash, database, history
<1>2. \A d \in Consumer : d = c
  BY DEF SingleWriter
<1>3. WriterInv'
  BY <1>1, <1>2 DEF WriterInv, BusyAhead, Fresh, Busy
<1>4. \A p \in Partition : owner'[p] # c
  BY <1>1, PersistenceAssumption
<1>5. \A p \in Partition, i \in Nat : Late(p, i) => Late(p, i)'
  BY <1>1, <1>2, <1>4 DEF Late, Unapplied
<1> QED
  BY <1>1, <1>3, <1>5, RowsStay

\* The consumer goes on from what is committed, and what it works on is beyond that.
LEMMA RebalanceOnce ==
    ASSUME IInv, IInv', WriterInv, RowsInv, Rebalance
    PROVE  WriterInv' /\ RowsInv'
<1>1. /\ position' = [c \in Consumer |-> committed]
      /\ UNCHANGED <<log, rows, committed, pc, cur, loaded, deadLetter, dropped>>
  BY DEF Rebalance, Assign, database, locals, history
<1>2. \A c \in Consumer, p \in Partition : position'[c][p] = committed[p]
  BY <1>1
<1>3. WriterInv'
  <2>1. ASSUME NEW c \in Consumer PROVE BusyAhead(c)'
    <3>1. committed[cur[c][1]] \in Nat /\ cur[c][2] \in Nat /\ position'[c][cur[c][1]] = committed[cur[c][1]]
      BY <1>2, ConsumerTypes
    <3> QED
      BY <1>1, <3>1 DEF WriterInv, BusyAhead, Busy
  <2>2. \A c \in Consumer : Fresh(c)'
    BY <1>1 DEF WriterInv, Fresh, Job, Entry
  <2> QED
    BY <2>1, <2>2 DEF WriterInv
<1>4. \A p \in Partition, i \in Nat : Late(p, i) => Late(p, i)'
  BY <1>1, <1>2 DEF Late, Unapplied
<1> QED
  BY <1>1, <1>3, <1>4, RowsStay

LEMMA FetchOnce ==
    ASSUME IInv, IInv', SingleWriter, WriterInv, RowsInv,
           NEW c \in Consumer, NEW r \in Partition, Fetch(c, r)
    PROVE  WriterInv' /\ RowsInv'
<1>1. /\ pc[c] = "idle" /\ pc'[c] = "process" /\ owner[r] = c
      /\ position' = [position EXCEPT ![c][r] = @ + 1]
      /\ cur' = [cur EXCEPT ![c] = <<r, position[c][r] + 1>>]
      /\ UNCHANGED <<log, rows, committed, owner, deadLetter, dropped>>
  BY ConsumerTypes DEF Fetch, Goto, database, history
<1>2. \A d \in Consumer : d = c
  BY DEF SingleWriter
<1>3. /\ position \in [Consumer -> [Partition -> Nat]]
      /\ cur \in [Consumer -> Slot]
  BY DEF IInv, TypeOK
<1>4. /\ cur'[c] = <<r, position[c][r] + 1>>
      /\ cur'[c][1] = r /\ cur'[c][2] = position[c][r] + 1
      /\ position'[c][r] = position[c][r] + 1
      /\ \A p \in Partition \ {r} : position'[c][p] = position[c][p]
  BY <1>1, <1>3
<1>5. /\ position[c][r] \in Nat /\ committed[r] \in Nat
      /\ committed[r] <= position[c][r]
  BY <1>1, ConsumerTypes DEF IInv, FetchedAccounted
<1>6. WriterInv'
  <2>1. BusyAhead(c)'
    BY <1>1, <1>4, <1>5 DEF BusyAhead
  <2>2. Fresh(c)'
    BY <1>1 DEF Fresh
  <2> QED
    BY <1>2, <2>1, <2>2 DEF WriterInv
<1>7. ASSUME NEW p \in Partition, NEW i \in Nat, Late(p, i)
      PROVE  Late(p, i)'
  <2>1. committed[p] <= i /\ (owner[p] = c => position[c][p] <= i)
    BY <1>1, <1>7 DEF Late, Unapplied
  <2>2. CASE p = r
    BY <1>1, <1>2, <1>4, <1>5, <2>1, <2>2 DEF Late, Unapplied
  <2>3. CASE p # r
    BY <1>1, <1>2, <1>4, <2>1, <2>3 DEF Late, Unapplied
  <2> QED
    BY <2>2, <2>3
<1> QED
  BY <1>1, <1>6, <1>7, RowsStay

LEMMA RetryOnce ==
    ASSUME IInv, IInv', SingleWriter, WriterInv, RowsInv, NEW c \in Consumer, Retry(c)
    PROVE  WriterInv' /\ RowsInv'
<1>1. /\ pc[c] \in {"process", "write", "commit"} /\ pc'[c] \in {"process", "dead"}
      /\ UNCHANGED <<log, rows, committed, owner, position, cur, deadLetter, dropped>>
  BY ConsumerTypes DEF Retry, kafka, database, history
<1>2. \A d \in Consumer : d = c
  BY DEF SingleWriter
<1>3. WriterInv'
  BY <1>1, <1>2 DEF WriterInv, BusyAhead, Fresh, Busy
<1>4. cur[c][2] \in Nat
  BY ConsumerTypes
<1>5. \A p \in Partition, i \in Nat : Late(p, i) => Late(p, i)'
  BY <1>1, <1>2, <1>4 DEF Late, Unapplied
<1> QED
  BY <1>1, <1>3, <1>5, RowsStay

LEMMA CommitOnce ==
    ASSUME IInv, IInv', SingleWriter, WriterInv, RowsInv, NEW c \in Consumer, Commit(c)
    PROVE  WriterInv' /\ RowsInv'
<1>1. /\ pc[c] = "commit" /\ pc'[c] = "idle"
      /\ UNCHANGED <<log, rows, owner, position, cur, deadLetter, dropped>>
  BY ConsumerTypes DEF Commit, Goto, database, history
<1>2. \A d \in Consumer : d = c
  BY DEF SingleWriter
<1>3. WriterInv'
  BY <1>1, <1>2 DEF WriterInv, BusyAhead, Fresh, Busy
<1>4. ASSUME NEW p \in Partition, NEW i \in Nat, Late(p, i)
      PROVE  Late(p, i)'
  <2>1. /\ owner[p] = c => committed'[p] = position[c][p]
        /\ owner[p] # c => committed'[p] = committed[p]
    BY CommitEffect
  <2>2. committed[p] <= i /\ (owner[p] = c => position[c][p] <= i)
    BY <1>1, <1>4 DEF Late, Unapplied
  <2> QED
    BY <1>1, <1>2, <2>1, <2>2 DEF Late, Unapplied
<1> QED
  BY <1>1, <1>3, <1>4, RowsStay

LEMMA SendToDlqOnce ==
    ASSUME IInv, IInv', SingleWriter, WriterInv, RowsInv, NEW c \in Consumer, SendToDlq(c)
    PROVE  WriterInv' /\ RowsInv'
<1>1. pc'[c] = "idle" /\ cur[c] \in (deadLetter \cup dropped)'
  BY ConsumerTypes DEF SendToDlq, ProduceToDlq, Goto
<1>2. \A d \in Consumer : d = c
  BY DEF SingleWriter
<1>3. WriterInv'
  BY <1>1, <1>2 DEF WriterInv, BusyAhead, Fresh, Busy
<1> QED
  BY <1>1, <1>3 DEF RowsInv

LEMMA ReturnsOnce ==
    ASSUME IInv, IInv', SingleWriter, SenderInv, WriterInv, RowsInv, NEW c \in Consumer,
           NEW from \in {"process", "write"}, Returns(c, from),
           UNCHANGED <<log, committed, owner, position, cur, deadLetter, dropped>>,
           \A m \in Message : rows'[m] = After(m, rows[m], Job(c))
    PROVE  WriterInv' /\ RowsInv'
<1>1. pc[c] = from /\ pc'[c] = "commit" /\ Job(c) = Entry(cur[c])
  BY ConsumerTypes DEF Returns, Goto, Job
<1>2. \A d \in Consumer : d = c
  BY DEF SingleWriter
<1>3. WriterInv'
  BY <1>1, <1>2 DEF WriterInv, BusyAhead, Fresh, Busy
<1> QED
  BY <1>1, <1>3, RowsApplied

LEMMA ExecuteOnce ==
    ASSUME IInv, IInv', SingleWriter, SenderInv, WriterInv, RowsInv, NEW c \in Consumer, Execute(c)
    PROVE  WriterInv' /\ RowsInv'
<1>1. PICK q : q = Job(c)
  OBVIOUS
<1>2. rows \in [Message -> Row \cup {NoRow}]
  BY DEF IInv, TypeOK
<1>3. ASSUME pc[c] \in {"process", "write"} PROVE q \in Request /\ q.msg \in Message
  BY <1>1, <1>3, JobTyped, RequestFields, ConsumerTypes
<1>4. CASE Create(c)
  <2>1. /\ pc[c] = "process" /\ q.op = "create" /\ Insert(q.msg, q.text)
        /\ Returns(c, "process")
        /\ UNCHANGED <<log, committed, owner, position, cur, deadLetter, dropped>>
    BY <1>1, <1>4 DEF Create, kafka, locals
  <2>2. q \in Request /\ q.msg \in Message
    BY <1>3, <2>1
  <2>3. ASSUME NEW m \in Message PROVE rows'[m] = After(m, rows[m], q)
    <3>1. CASE m = q.msg
      BY <1>2, <2>1, <2>2, <3>1 DEF Insert, After
    <3>2. CASE m # q.msg
      BY <1>2, <2>1, <2>2, <3>2 DEF Insert, After
    <3> QED
      BY <3>1, <3>2
  <2> QED
    BY <1>1, <2>1, <2>3, ReturnsOnce
<1>5. CASE React(c)
  <2>1. /\ q.op \in {"react", "unreact"} /\ Returns(c, "process")
        /\ UNCHANGED <<log, committed, owner, position, cur, deadLetter, dropped, rows>>
    BY <1>1, <1>5 DEF React, kafka, locals
  <2>2. \A m \in Message : rows'[m] = After(m, rows[m], q)
    BY <2>1 DEF After
  <2> QED
    BY <1>1, <2>1, <2>2, ReturnsOnce
<1>6. CASE Load(c)
  <2>1. /\ pc[c] = "process" /\ q.op \in {"edit", "delete"}
        /\ UNCHANGED <<log, committed, owner, position, cur, deadLetter, dropped, rows>>
    BY <1>1, <1>6 DEF Load, kafka, database
  <2>2. q \in Request /\ q.msg \in Message
    BY <1>3, <2>1
  <2>3. CASE rows[q.msg] = NoRow \/ rows[q.msg].deleted
    <3>1. Returns(c, "process")
      BY <1>1, <1>6, <2>3 DEF Load
    <3>2. \A m \in Message : rows'[m] = After(m, rows[m], q)
      BY <2>1, <2>3 DEF After
    <3> QED
      BY <1>1, <2>1, <3>1, <3>2, ReturnsOnce
  <2>4. CASE rows[q.msg] # NoRow /\ ~rows[q.msg].deleted
    <3>1. Goto(c, "process", "write") /\ loaded' = [loaded EXCEPT ![c] = rows[q.msg]]
      BY <1>1, <1>6, <2>4 DEF Load
    <3>2. loaded \in [Worker -> Row \cup {NoRow}]
      BY DEF IInv, TypeOK
    <3>3. pc'[c] = "write" /\ loaded'[c] = rows[q.msg]
      BY <3>1, <3>2, ConsumerTypes DEF Goto
    <3>4. Job(c)' = q
      BY <1>1, <2>1 DEF Job, Entry
    <3>5. \A d \in Consumer : d = c
      BY DEF SingleWriter
    <3>6. WriterInv'
      <4>1. Fresh(c)'
        BY <2>1, <2>4, <3>3, <3>4 DEF Fresh
      <4>2. BusyAhead(c)'
        BY <2>1 DEF WriterInv, BusyAhead, Busy
      <4> QED
        BY <3>5, <4>1, <4>2 DEF WriterInv
    <3>7. \A p \in Partition, i \in Nat : Late(p, i) => Late(p, i)'
      BY <2>1, <3>3, <3>5 DEF Late, Unapplied
    <3> QED
      BY <2>1, <3>6, <3>7, RowsStay
  <2> QED
    BY <2>3, <2>4
<1>7. CASE Write(c)
  <2>1. /\ pc[c] = "write" /\ Returns(c, "write")
        /\ UNCHANGED <<log, committed, owner, position, cur, deadLetter, dropped>>
    BY <1>7, ConsumerTypes DEF Write, kafka, Returns, Goto
  <2>2. q \in Request /\ q.msg \in Message
    BY <1>3, <2>1
  <2>3. PICK row \in Row : row = rows[q.msg]
    BY <1>1, <1>2, <2>1, <2>2, ConsumerTypes DEF IInv, WriteHasRow
  <2>4. loaded[c] = row /\ ~row.deleted /\ q.op \in {"edit", "delete"}
    BY <1>1, <2>1, <2>3 DEF WriterInv, Fresh
  <2>5. rows' = [rows EXCEPT ![q.msg] =
            [content |-> IF q.text = row.content THEN row.content ELSE q.text,
             deleted |-> row.deleted \/ q.op = "delete"]]
    BY <1>1, <1>7, <2>3, <2>4 DEF Write
  <2>6. row # NoRow /\ row.deleted = FALSE
        /\ [row EXCEPT !.content = q.text] = [content |-> q.text, deleted |-> row.deleted]
    BY <2>4, RowFields DEF Row
  <2>7. q.op = "delete" => q.text = Tombstone
    BY <2>2 DEF Request, Update
  <2>8. [content |-> IF q.text = row.content THEN row.content ELSE q.text,
         deleted |-> row.deleted \/ q.op = "delete"] = After(q.msg, row, q)
    <3>1. CASE q.op = "edit"
      BY <2>4, <2>6, <3>1 DEF After
    <3>2. CASE q.op = "delete"
      BY <2>4, <2>6, <2>7, <3>2 DEF After
    <3> QED
      BY <2>4, <3>1, <3>2
  <2>9. rows' = [rows EXCEPT ![q.msg] = After(q.msg, row, q)]
    BY <2>5, <2>8
  <2>10. ASSUME NEW m \in Message PROVE rows'[m] = After(m, rows[m], q)
    <3>1. CASE m = q.msg
      BY <1>2, <2>2, <2>3, <2>9, <3>1
    <3>2. CASE m # q.msg
      BY <1>2, <2>2, <2>9, <3>2 DEF After
    <3> QED
      BY <3>1, <3>2
  <2> QED
    BY <1>1, <2>1, <2>10, ReturnsOnce
<1> QED
  BY <1>4, <1>5, <1>6, <1>7 DEF Execute

LEMMA OnceInit ==
    ASSUME Init
    PROVE  OnceInv
<1>1. /\ log = [p \in Partition |-> <<>>] /\ outbox = [s \in Sender |-> {}]
      /\ committed = [p \in Partition |-> 0] /\ rows = [m \in Message |-> NoRow]
      /\ owner = [p \in Partition |-> Nobody]
      /\ \A c \in Consumer : pc[c] = "down"
  BY DEF Init, Worker
<1>2. SenderInv
  <2>1. \A p \in Partition : log[p] = <<>> /\ Len(log[p]) = 0
    BY <1>1
  <2>2. \A p \in Partition, m \in Message : CreatedFirst(log[p], m)
    BY <2>1 DEF CreatedFirst
  <2> QED
    BY <1>1, <2>1, <2>2 DEF SenderInv
<1>3. WriterInv
  BY <1>1 DEF WriterInv, BusyAhead, Fresh, Busy
<1>4. RowsInv
  <2> SUFFICES ASSUME NEW p \in Partition, NEW m \in Message
               PROVE  \E i \in 0..Len(log[p]) : rows[m] = RowAt(log[p], m, i) /\ Late(p, i)
    BY DEF RowsInv
  <2>1. log[p] = <<>> /\ 0 \in 0..Len(log[p])
    BY <1>1
  <2>2. <<>> \in Seq(Request)
    OBVIOUS
  <2>3. RowAt(<<>>, m, 0) = NoRow
    BY <2>2, RowAtIs
  <2>4. Late(p, 0)
    BY <1>1, PersistenceAssumption DEF Late, Unapplied
  <2> QED
    BY <1>1, <2>1, <2>3, <2>4
<1> QED
  BY <1>2, <1>3, <1>4 DEF OnceInv

LEMMA OnceKept ==
    ASSUME IInv, OnceInv, SingleWriter, [Next]_vars
    PROVE  OnceInv'
<1>1. IInv'
  BY NextIInv
<1>2. SenderInv /\ WriterInv /\ RowsInv
  BY DEF OnceInv
<1>3. SenderInv'
  BY <1>2, SenderKept
<1>4. ASSUME NEW c \in Consumer, ConsumerStep(c) \/ Crash(c)
      PROVE  WriterInv' /\ RowsInv'
  BY <1>1, <1>2, <1>4, StartOnce, FetchOnce, ExecuteOnce, RetryOnce, CommitOnce, SendToDlqOnce,
     CrashOnce DEF ConsumerStep
<1>5. ASSUME Rebalance PROVE WriterInv' /\ RowsInv'
  BY <1>1, <1>2, <1>5, RebalanceOnce
<1>6. ASSUME NEW s \in Sender, NEW q \in Request, NEW p \in Partition, Command(s, q, p)
      PROVE  WriterInv' /\ RowsInv'
  <2>1. UNCHANGED <<log, rows, committed, owner, position, pc, cur, loaded, deadLetter, dropped>>
    BY <1>6 DEF Command, kafka, database, locals, history
  <2> QED
    BY <1>1, <1>2, <2>1, LogGrowsOnce
<1>7. ASSUME NEW s \in Sender, Produce(s)
      PROVE  WriterInv' /\ RowsInv'
  <2>1. UNCHANGED <<rows, committed, owner, position, pc, cur, loaded, deadLetter, dropped>>
    BY <1>7 DEF Produce, database, locals, history
  <2>2. PICK o \in outbox[s] : log' = [log EXCEPT ![o[2]] = Append(@, o[1])]
    BY <1>7 DEF Produce
  <2>3. o[1] \in Request /\ log \in [Partition -> Seq(Request)]
    BY DEF IInv, TypeOK
  <2>4. \A p \in Partition : log'[p] = log[p] \/ log'[p] = Append(log[p], o[1])
    BY <2>2, <2>3
  <2>5. ASSUME NEW p \in Partition, NEW i \in 1..Len(log[p])
        PROVE  i \in 1..Len(log'[p]) /\ log'[p][i] = log[p][i]
    <3>1. PICK l \in Seq(Request) : l = log[p]
      BY <2>3
    <3>2. \A k \in 1..Len(l) : k \in 1..Len(Append(l, o[1])) /\ Append(l, o[1])[k] = l[k]
      BY <2>3, AppendKeeps
    <3> QED
      BY <2>4, <3>1, <3>2
  <2> QED
    BY <1>1, <1>2, <2>1, <2>5, LogGrowsOnce
<1>8. ASSUME NEW s \in Sender, ProduceFails(s)
      PROVE  WriterInv' /\ RowsInv'
  <2>1. UNCHANGED <<log, rows, committed, owner, position, pc, cur, loaded, deadLetter, dropped>>
    BY <1>8 DEF ProduceFails, kafka, database, locals, history
  <2> QED
    BY <1>1, <1>2, <2>1, LogGrowsOnce
<1>9. ASSUME UNCHANGED vars PROVE WriterInv' /\ RowsInv'
  <2>1. UNCHANGED <<log, rows, committed, owner, position, pc, cur, loaded, deadLetter, dropped>>
    BY <1>9 DEF vars
  <2> QED
    BY <1>1, <1>2, <2>1, LogGrowsOnce
<1>10. WriterInv' /\ RowsInv'
  BY <1>4, <1>5, <1>6, <1>7, <1>8, <1>9 DEF Next, SingleWriter
<1> QED
  BY <1>3, <1>10 DEF OnceInv

\* When all is consumed, a row is what its partition makes of it to the end.
LEMMA OnceInvImplies ==
    ASSUME IInv, OnceInv, SingleWriter
    PROVE  ExactlyOnce
<1> SUFFICES ASSUME \A w \in Worker : pc[w] = "idle",
                    \A p \in Partition : owner[p] # Nobody /\ position[owner[p]][p] = Len(log[p]),
                    deadLetter \cup dropped = {},
                    NEW p \in Partition, NEW m \in Message, OnlyIn(p, m)
             PROVE  rows[m] = Final(log[p], m)
  BY DEF ExactlyOnce, OnlyIn, Final
<1>1. /\ log \in [Partition -> Seq(Request)]
      /\ owner \in [Partition -> Consumer \cup {Nobody}]
  BY DEF IInv, TypeOK
<1>2. PICK c \in Consumer : owner[p] = c
  BY <1>1
<1>3. position[c][p] = Len(log[p]) /\ pc[c] = "idle"
  BY <1>2 DEF Worker
<1>4. PICK i \in 0..Len(log[p]) : rows[m] = RowAt(log[p], m, i) /\ Late(p, i)
  BY DEF OnceInv, RowsInv
<1>5. position[c][p] <= i
  BY <1>2, <1>3, <1>4 DEF Late, Unapplied
<1>6. PICK q \in Seq(Request) : q = log[p]
  BY <1>1
<1>7. i = Len(q)
  <2>1. Len(q) \in Nat
    OBVIOUS
  <2> QED
    BY <1>3, <1>4, <1>5, <1>6, <2>1
<1>8. RowAt(q, m, Len(q)) = Final(q, m)
  BY RowAtIs
<1> QED
  BY <1>4, <1>6, <1>7, <1>8

\* With one sender and one consumer, at-least-once delivery and repeated writes leave
\* what applying each request of a partition once and in order would, for any number
\* of partitions, messages, crashes and attempts (overview.md:997).
THEOREM ExactlyOnceCorrect ==
    ASSUME SingleWriter
    PROVE  Spec => []ExactlyOnce
<1>1. Init => IInv /\ OnceInv
  BY InitIInv, OnceInit
<1>2. IInv /\ OnceInv /\ [Next]_vars => (IInv /\ OnceInv)'
  BY NextIInv, OnceKept
<1>3. IInv /\ OnceInv => ExactlyOnce
  BY OnceInvImplies
<1> QED
  BY <1>1, <1>2, <1>3, PTL DEF Spec

=============================================================================
