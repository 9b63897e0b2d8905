----------------------- MODULE MessageHistory_proofs -----------------------
(***************************************************************************)
(* Proofs about module MessageHistory, for any users, rooms, messages,     *)
(* limits, readers and writers: its type invariant, that no page has a     *)
(* hole, and that no answer shows what an answered clear hides.  The last  *)
(* needs that no user clears the same conversation twice at once (two      *)
(* clears that overlap may commit in either order, and the earlier time    *)
(* then replaces the later one).                                           *)
(***************************************************************************)
EXTENDS MessageHistory, FiniteSetTheorems, TLAPS

----------------------------------------------------------------------------
(* The invariant.                                                          *)

\* The message belongs to what the request asks for, or it is the target of a
\* context, of a conversation the user has no part in.
Asked(u, q, m) ==
    /\ q.kind \in Privates =>
          /\ q.with \in User /\ q.with # u
          /\ \/ sent[m].place = {u, q.with}
             \/ /\ q.kind = "pmcontext" /\ m = q.target
                /\ sent[m].place \notin Room /\ u \notin sent[m].place
    /\ q.kind \notin Privates => /\ sent[m].place \in Room
                                 /\ \/ sent[m].place = q.room
                                    \/ q.kind = "search" /\ q.room = AnyRoom

\* A reader serves one request, and its page is of the place asked for.
ReadersInv ==
    \A t \in Reader :
        /\ \A x, y \in request[t] : x = y
        /\ stage[t] = "deletion" => \A x \in request[t] : x.query.kind \in Privates
        /\ \A x \in request[t] : \A m \in page[t] : Asked(x.user, x.query, m)

\* No marker and no upsert in progress is later than the clock.
ClockInv ==
    /\ \A u \in Viewer, k \in Mark : marker[u][k] <= clock
    /\ \A w \in Writer : \A x \in writing[w] : x.at <= clock

\* An upsert in progress is the only one of its marker, and knows it as it is.
WritersInv ==
    /\ \A w, z \in Writer : \A x \in writing[w], y \in writing[z] :
          x.user = y.user /\ x.mark = y.mark => w = z /\ x = y
    /\ \A w \in Writer : \A x \in writing[w] :
          /\ marker[x.user][x.mark] <= x.at
          /\ x.exists <=> marker[x.user][x.mark] # Never

MarkersInv == ClockInv /\ WritersInv /\ acked = marker

----------------------------------------------------------------------------
(* Types.                                                                  *)

LEMMA TimeIs == Time \cup {Never} = 0..MaxTime
BY HistoryAssumption DEF Time, Never

LEMMA InitTyped == Init => TypeOK
<1> SUFFICES ASSUME Init PROVE TypeOK
  OBVIOUS
<1>1. clock \in 0..MaxTime /\ marks \in 0..MaxMarks
  BY HistoryAssumption DEF Init
<1>2. marker \in [Viewer -> [Mark -> Time \cup {Never}]]
  BY DEF Init
<1> QED
  BY <1>1, <1>2 DEF Init, TypeOK

LEMMA SendTyped ==
    ASSUME TypeOK, NEW m \in Message, NEW row \in Row, Send(m, row)
    PROVE  TypeOK'
<1>1. row.at \in Time /\ row \in Row \cup {Unsent}
  BY DEF Row
<1>2. clock' \in 0..MaxTime
  BY <1>1, TimeIs DEF Send
<1>3. sent' \in [Message -> Row \cup {Unsent}]
  BY <1>1 DEF Send, TypeOK
<1>4. \A n \in Message : sent[n] # Unsent => sent'[n] # Unsent
  BY HistoryAssumption DEF Send, TypeOK
<1> QED
  BY <1>2, <1>3, <1>4 DEF Send, TypeOK, markers, reading

LEMMA StoreTyped ==
    ASSUME TypeOK, NEW m \in Message, Store(m) \/ Delete(m)
    PROVE  TypeOK'
BY DEF Store, Delete, TypeOK, markers, reading

LEMMA StartUpsertTyped ==
    ASSUME TypeOK, NEW w \in Writer, NEW u \in Viewer, NEW k \in Mark, StartUpsert(w, u, k)
    PROVE  TypeOK'
<1>1. [user |-> u, mark |-> k, exists |-> marker[u][k] # Never, at |-> clock] \in Upsert
  BY DEF Upsert, TypeOK
<1>2. writing' \in [Writer -> SUBSET Upsert]
  BY <1>1 DEF StartUpsert, TypeOK
<1>3. marks' \in 0..MaxMarks
  BY HistoryAssumption DEF StartUpsert, TypeOK
<1> QED
  BY <1>2, <1>3 DEF StartUpsert, TypeOK, messages, reading

LEMMA CommitUpsertTyped ==
    ASSUME TypeOK, NEW w \in Writer, CommitUpsert(w)
    PROVE  TypeOK'
<1>1. PICK x \in writing[w] :
         IF x.exists \/ marker[x.user][x.mark] = Never
         THEN /\ marker' = [marker EXCEPT ![x.user][x.mark] = x.at]
              /\ acked'  = [acked EXCEPT ![x.user][x.mark] = IF @ < x.at THEN x.at ELSE @]
         ELSE UNCHANGED <<marker, acked>>
  BY DEF CommitUpsert
<1> PICK u \in Viewer, k \in Mark, at \in Time \cup {Never} :
      u = x.user /\ k = x.mark /\ at = x.at
  BY TimeIs DEF TypeOK, Upsert
<1>3. marker \in [Viewer -> [Mark -> Time \cup {Never}]] /\ acked \in [Viewer -> [Mark -> Time \cup {Never}]]
  BY DEF TypeOK
<1>4. marker' \in [Viewer -> [Mark -> Time \cup {Never}]]
  <2>1. marker' = marker \/ marker' = [marker EXCEPT ![u][k] = at]
    BY <1>1
  <2>2. PICK f, g : f = marker /\ g = marker'
    OBVIOUS
  <2>3. f \in [Viewer -> [Mark -> Time \cup {Never}]]
    BY <1>3, <2>2
  <2>4. g = f \/ g = [f EXCEPT ![u][k] = at]
    BY <2>1, <2>2
  <2>5. [f[u] EXCEPT ![k] = at] \in [Mark -> Time \cup {Never}]
    BY <2>3
  <2>6. g \in [Viewer -> [Mark -> Time \cup {Never}]]
    BY <2>3, <2>4, <2>5
  <2> QED
    BY <2>2, <2>6
<1>5. acked' \in [Viewer -> [Mark -> Time \cup {Never}]]
  <2>1. PICK new \in Time \cup {Never} :
           acked' = acked \/ acked' = [acked EXCEPT ![u][k] = new]
    <3>1. acked[u][k] \in Time \cup {Never}
      BY <1>3
    <3>2. acked' = acked \/ acked' = [acked EXCEPT ![u][k] = IF acked[u][k] < at THEN at ELSE acked[u][k]]
      BY <1>1
    <3> QED
      BY <3>1, <3>2
  <2>2. PICK f, g : f = acked /\ g = acked'
    OBVIOUS
  <2>3. f \in [Viewer -> [Mark -> Time \cup {Never}]]
    BY <1>3, <2>2
  <2>4. g = f \/ g = [f EXCEPT ![u][k] = new]
    BY <2>1, <2>2
  <2>5. [f[u] EXCEPT ![k] = new] \in [Mark -> Time \cup {Never}]
    BY <2>3
  <2>6. g \in [Viewer -> [Mark -> Time \cup {Never}]]
    BY <2>3, <2>4, <2>5
  <2> QED
    BY <2>2, <2>6
<1>6. writing' \in [Writer -> SUBSET Upsert]
  BY DEF CommitUpsert, TypeOK
<1> QED
  BY <1>4, <1>5, <1>6 DEF CommitUpsert, TypeOK, messages, reading

LEMMA SelectTyped ==
    ASSUME TypeOK, NEW t \in Reader, NEW u \in Viewer, NEW q \in Request, NEW pages,
           NEW next \in {"clear"}, pages \subseteq SUBSET stored, Select(t, u, q, pages, next)
    PROVE  TypeOK'
<1>1. PICK S \in SUBSET stored : page' = [page EXCEPT ![t] = S]
  BY DEF Select
<1>2. [user |-> u, query |-> q] \in [user : Viewer, query : Request]
  OBVIOUS
<1>3. request' \in [Reader -> SUBSET [user : Viewer, query : Request]]
  BY <1>2 DEF Select, TypeOK
<1>4. stage' \in [Reader -> {"idle", "clear", "deletion"}]
  BY DEF Select, TypeOK
<1>5. page' \in [Reader -> SUBSET stored] /\ basis' \in [Reader -> SUBSET stored]
  BY <1>1 DEF Select, TypeOK
<1> QED
  BY <1>3, <1>4, <1>5 DEF Select, TypeOK, messages, markers

\* What a request selects are rows of the place asked for.
LEMMA AroundFrom ==
    ASSUME NEW S, NEW m
    PROVE  AroundIn(S, m) \subseteq SUBSET (S \cup {m})
<1> SUFFICES ASSUME NEW T \in AroundIn(S, m) PROVE T \subseteq S \cup {m}
  OBVIOUS
<1>1. PICK before \in Newest({k \in S : At(k) < At(m)}, Around),
           after  \in Oldest({k \in S : At(k) > At(m)}, Around) :
        T = before \cup {m} \cup after
  BY DEF AroundIn
<1>2. before \subseteq S
  BY DEF Newest
<1>3. after \subseteq S
  BY DEF Oldest
<1> QED
  BY <1>1, <1>2, <1>3

LEMMA HistoryTyped ==
    ASSUME TypeOK, NEW t \in Reader, NEW u \in Viewer, NEW r \in Room,
           GetRoomHistoryRequest(t, u, r)
    PROVE  TypeOK'
<1>1. [kind |-> "history", room |-> r] \in Request
  BY DEF Request
<1>2. GetRoomHistory(r) \subseteq SUBSET stored
  BY DEF GetRoomHistory, Newest, InRoom
<1> QED
  BY <1>1, <1>2, SelectTyped DEF GetRoomHistoryRequest

LEMMA ReplayTyped ==
    ASSUME TypeOK, NEW t \in Reader, NEW u \in Viewer, NEW r \in Room, NEW since \in Stamp,
           GetRoomMessages(t, u, r, since)
    PROVE  TypeOK'
<1>1. [kind |-> "replay", room |-> r, since |-> since] \in Request
  BY DEF Request
<1>2. GetByRoomSince(r, since) \subseteq SUBSET stored
  BY DEF GetByRoomSince, Oldest, InRoom
<1> QED
  BY <1>1, <1>2, SelectTyped DEF GetRoomMessages

LEMMA ContextTyped ==
    ASSUME TypeOK, NEW t \in Reader, NEW u \in Viewer, NEW r \in Room, NEW m \in Message,
           GetMessageContext(t, u, r, m)
    PROVE  TypeOK'
<1>1. [kind |-> "context", room |-> r, target |-> m] \in Request
  BY DEF Request
<1>2. m \in InRoom(r) /\ InRoom(r) \subseteq stored
  BY DEF GetMessageContext, InRoom
<1>3. GetMessagesAround(r, m) \subseteq SUBSET stored
  BY <1>2, AroundFrom DEF GetMessagesAround
<1> QED
  BY <1>1, <1>3, SelectTyped DEF GetMessageContext

LEMMA SearchTyped ==
    ASSUME TypeOK, NEW t \in Reader, NEW u \in Viewer, NEW r \in Room \cup {AnyRoom},
           SearchRequest(t, u, r)
    PROVE  TypeOK'
<1>1. [kind |-> "search", room |-> r] \in Request
  BY DEF Request
<1>2. SearchMessages(r) \subseteq SUBSET stored
  BY DEF SearchMessages
<1> QED
  BY <1>1, <1>2, SelectTyped DEF SearchRequest

LEMMA PmTyped ==
    ASSUME TypeOK, NEW t \in Reader, NEW u \in Viewer, NEW v \in User, NEW before \in Stamp,
           GetPmHistoryRequest(t, u, v, before)
    PROVE  TypeOK'
<1>1. [kind |-> "pm", with |-> v, before |-> before] \in Request
  BY DEF Request
<1>2. GetPmHistory(u, v, before) \subseteq SUBSET stored
  BY DEF GetPmHistory, Oldest, Between
<1> QED
  BY <1>1, <1>2, SelectTyped DEF GetPmHistoryRequest

LEMMA PmContextTyped ==
    ASSUME TypeOK, NEW t \in Reader, NEW u \in Viewer, NEW v \in User, NEW m \in Message,
           GetPmContext(t, u, v, m)
    PROVE  TypeOK'
<1>1. [kind |-> "pmcontext", with |-> v, target |-> m] \in Request
  BY DEF Request
<1>2. m \in stored /\ Between(u, v) \subseteq stored
  BY DEF GetPmContext, Between
<1>3. GetPmMessagesAround(u, v, m) \subseteq SUBSET stored
  BY <1>2, AroundFrom DEF GetPmMessagesAround
<1> QED
  BY <1>1, <1>3, SelectTyped DEF GetPmContext

\* A marker only takes messages away.
LEMMA KeptFromPage ==
    ASSUME NEW t \in Reader
    PROVE  Kept(t) \subseteq page[t]
BY DEF Kept, ApplyPmDeletionFilter, ApplyClearFilter, ApplySearchFilter

LEMMA FilterTyped ==
    ASSUME TypeOK, NEW t \in Reader, FilterPmPage(t) \/ Respond(t)
    PROVE  TypeOK'
<1>1. CASE FilterPmPage(t)
  <2>1. page' \in [Reader -> SUBSET stored] /\ basis' \in [Reader -> SUBSET stored]
    <3>1. Kept(t) \subseteq stored
      BY KeptFromPage DEF TypeOK
    <3>2. \A u, c : ApplyClearFilter(u, c, basis[t]) \subseteq stored
      BY DEF ApplyClearFilter, TypeOK
    <3> QED
      BY <1>1, <3>1, <3>2 DEF FilterPmPage, TypeOK
  <2>2. stage' \in [Reader -> {"idle", "clear", "deletion"}]
    BY <1>1 DEF FilterPmPage, TypeOK
  <2> QED
    BY <1>1, <2>1, <2>2 DEF FilterPmPage, TypeOK, messages, markers
<1>2. CASE Respond(t)
  BY <1>2 DEF Respond, TypeOK, messages, markers
<1> QED
  BY <1>1, <1>2

LEMMA TypeKept == TypeOK /\ [Next]_vars => TypeOK'
<1> SUFFICES ASSUME TypeOK, [Next]_vars PROVE TypeOK'
  OBVIOUS
<1>1. CASE UNCHANGED vars
  BY <1>1 DEF vars, TypeOK
<1>2. \A u \in Viewer :
         /\ \A c \in Room \cup (User \ {u}) : <<"clear", c>> \in Mark
         /\ \A v \in User : <<"deleted", v>> \in Mark
  BY DEF Mark
<1>3. ASSUME NEW w \in Writer, NEW u \in Viewer,
             \/ \E c \in Room \cup (User \ {u}) : ClearHistory(w, u, c)
             \/ \E v \in User : DeletePmConversation(w, u, v)
      PROVE  TypeOK'
  BY <1>2, <1>3, StartUpsertTyped DEF ClearHistory, DeletePmConversation
<1>4. CASE Next
  BY <1>3, <1>4, SendTyped, StoreTyped, CommitUpsertTyped, HistoryTyped, ReplayTyped, ContextTyped,
     SearchTyped, PmTyped, PmContextTyped, FilterTyped DEF Next
<1> QED
  BY <1>1, <1>4

\* The clock, the rows, the markers, the requests and their pages keep their
\* types; a deleted message is a stored one, and a page is of stored messages.
THEOREM TypeCorrect == Spec => []TypeOK
BY InitTyped, TypeKept, PTL DEF Spec

----------------------------------------------------------------------------
(* Pages, clock and markers.                                               *)

LEMMA InitReads == Init => ReadersInv
BY DEF Init, ReadersInv

LEMMA InitHides == Init => MarkersInv
<1> SUFFICES ASSUME Init PROVE MarkersInv
  OBVIOUS
<1>2. ClockInv
  BY DEF Init, ClockInv, Never
<1>3. WritersInv
  BY DEF Init, WritersInv
<1> QED
  BY <1>2, <1>3 DEF Init, MarkersInv

\* A stored message keeps its row, so a page stays of the place asked for.
LEMMA ReadersStand ==
    ASSUME TypeOK, ReadersInv, UNCHANGED <<request, stage, page>>,
           \A m \in stored : sent'[m] = sent[m]
    PROVE  ReadersInv'
<1> SUFFICES ASSUME NEW t \in Reader, NEW x \in request[t], NEW m \in page[t]
             PROVE  Asked(x.user, x.query, m)'
  BY DEF ReadersInv
<1>1. m \in stored
  BY DEF TypeOK
<1>2. sent'[m] = sent[m] /\ Asked(x.user, x.query, m)
  BY <1>1 DEF ReadersInv
<1> QED
  BY <1>2 DEF Asked

LEMMA ClockGrows ==
    ASSUME TypeOK, ClockInv, UNCHANGED <<marker, writing>>, clock' \in Int, clock <= clock'
    PROVE  ClockInv'
<1>1. \A u \in Viewer, k \in Mark : marker[u][k] \in Int
  BY TimeIs DEF TypeOK
<1>2. \A w \in Writer : \A x \in writing[w] : x.at \in Int
  BY DEF TypeOK, Upsert
<1>3. clock \in Int
  BY DEF TypeOK
<1>4. ASSUME NEW u \in Viewer, NEW k \in Mark PROVE marker'[u][k] <= clock'
  <2>1. marker[u][k] <= clock
    BY DEF ClockInv
  <2>2. marker[u][k] <= clock'
    BY <1>1, <1>3, <2>1
  <2> QED
    BY <2>2
<1>5. ASSUME NEW w \in Writer, NEW x \in writing[w] PROVE x.at <= clock'
  <2>1. x.at <= clock
    BY DEF ClockInv
  <2> QED
    BY <1>2, <1>3, <2>1
<1> QED
  BY <1>4, <1>5 DEF ClockInv

LEMMA SendHides ==
    ASSUME TypeOK, MarkersInv, NEW m \in Message, NEW row \in Row, Send(m, row)
    PROVE  MarkersInv'
<1>3. clock \in Int /\ clock' \in {clock, clock + 1}
  BY DEF Send, TypeOK
<1>4. clock' \in Int /\ clock <= clock'
  BY <1>3
<1>5. ClockInv'
  BY <1>4, ClockGrows DEF MarkersInv, Send, markers
<1> QED
  BY <1>5 DEF MarkersInv, WritersInv, Send, markers

LEMMA StoreHides ==
    ASSUME TypeOK, MarkersInv, NEW m \in Message, Store(m) \/ Delete(m)
    PROVE  MarkersInv'
<1>1. UNCHANGED <<sent, clock, markers, reading>>
  BY DEF Store, Delete
<1> QED
  BY <1>1 DEF MarkersInv, ClockInv, WritersInv, markers

LEMMA StartUpsertHides ==
    ASSUME TypeOK, MarkersInv, ~Overlap, NEW w \in Writer, NEW u \in Viewer, NEW k \in Mark,
           StartUpsert(w, u, k)
    PROVE  MarkersInv'
<1> DEFINE new == [user |-> u, mark |-> k, exists |-> marker[u][k] # Never, at |-> clock]
<1>1. /\ UNCHANGED <<clock, sent, marker, acked, request, stage, page>>
      /\ ~InProgress(u, k)
      /\ writing' = [writing EXCEPT ![w] = {new}]
  BY DEF StartUpsert, messages, reading
<1>2. \A z \in Writer : writing'[z] = IF z = w THEN {new} ELSE writing[z]
  BY <1>1 DEF TypeOK
<1>3. clock \in Int
  BY DEF TypeOK
<1>5. ClockInv'
  <2>1. \A z \in Writer : \A x \in writing'[z] : x.at <= clock
    BY <1>2, <1>3 DEF MarkersInv, ClockInv
  <2> QED
    BY <1>1, <2>1 DEF MarkersInv, ClockInv
<1>6. WritersInv'
  <2>1. \A z \in Writer : \A y \in writing[z] : y.user # u \/ y.mark # k
    BY <1>1 DEF InProgress
  <2>2. new.user = u /\ new.mark = k /\ new.at = clock /\ new.exists = (marker[u][k] # Never)
    OBVIOUS
  <2> HIDE DEF new
  <2>3. ASSUME NEW z1 \in Writer, NEW z2 \in Writer, NEW x \in writing'[z1], NEW y \in writing'[z2],
               x.user = y.user, x.mark = y.mark
        PROVE  z1 = z2 /\ x = y
    <3>1. CASE z1 = w /\ z2 = w
      BY <1>2, <3>1
    <3>2. CASE z1 = w /\ z2 # w
      BY <1>2, <3>2, <2>1, <2>2, <2>3
    <3>3. CASE z1 # w /\ z2 = w
      BY <1>2, <3>3, <2>1, <2>2, <2>3
    <3>4. CASE z1 # w /\ z2 # w
      BY <1>2, <3>4, <2>3 DEF MarkersInv, WritersInv
    <3> QED
      BY <3>1, <3>2, <3>3, <3>4
  <2>4. ASSUME NEW z \in Writer, NEW x \in writing'[z]
        PROVE  marker[x.user][x.mark] <= x.at /\ (x.exists <=> marker[x.user][x.mark] # Never)
    <3>1. CASE z = w
      <4>1. x = new
        BY <1>2, <3>1
      <4>2. marker[u][k] <= clock
        BY DEF MarkersInv, ClockInv
      <4> QED
        BY <4>1, <4>2, <2>2
    <3>2. CASE z # w
      BY <1>2, <3>2 DEF MarkersInv, WritersInv
    <3> QED
      BY <3>1, <3>2
  <2> QED
    BY <1>1, <2>3, <2>4 DEF WritersInv
<1> QED
  BY <1>1, <1>5, <1>6 DEF MarkersInv

LEMMA CommitUpsertHides ==
    ASSUME TypeOK, MarkersInv, NEW w \in Writer, CommitUpsert(w)
    PROVE  MarkersInv'
<1>1. PICK x \in writing[w] :
         IF x.exists \/ marker[x.user][x.mark] = Never
         THEN /\ marker' = [marker EXCEPT ![x.user][x.mark] = x.at]
              /\ acked'  = [acked EXCEPT ![x.user][x.mark] = IF @ < x.at THEN x.at ELSE @]
         ELSE UNCHANGED <<marker, acked>>
  BY DEF CommitUpsert
<1>2. /\ UNCHANGED <<clock, sent, request, stage, page>>
      /\ writing' = [writing EXCEPT ![w] = {}]
  BY DEF CommitUpsert, messages, reading
<1>3. PICK u, k, at : u = x.user /\ k = x.mark /\ at = x.at
  OBVIOUS
<1>4. u \in Viewer /\ k \in Mark /\ at \in Int
  BY <1>3 DEF TypeOK, Upsert
<1>5. /\ x.exists \/ marker[u][k] = Never
      /\ marker[u][k] <= at /\ at <= clock
  BY <1>3 DEF MarkersInv, WritersInv, ClockInv
<1>6. /\ marker' = [marker EXCEPT ![u][k] = at]
      /\ acked'  = [acked EXCEPT ![u][k] = IF acked[u][k] < at THEN at ELSE acked[u][k]]
  BY <1>1, <1>3, <1>5
<1>7. acked' = marker'
  <2>1. acked = marker /\ marker[u][k] \in Int
    BY <1>4, TimeIs DEF MarkersInv, TypeOK
  <2>2. (IF marker[u][k] < at THEN at ELSE marker[u][k]) = at
    BY <2>1, <1>4, <1>5
  <2> QED
    BY <1>6, <2>1, <2>2
<1>8. \A v \in Viewer, j \in Mark :
         marker'[v][j] = IF v = u /\ j = k THEN at ELSE marker[v][j]
  BY <1>4, <1>6 DEF TypeOK
<1>9. \A z \in Writer : writing'[z] = IF z = w THEN {} ELSE writing[z]
  BY <1>2 DEF TypeOK
<1>11. ClockInv'
  <2>1. \A v \in Viewer, j \in Mark : marker'[v][j] <= clock
    BY <1>5, <1>8 DEF MarkersInv, ClockInv
  <2>2. \A z \in Writer : \A y \in writing'[z] : y.at <= clock
    BY <1>9 DEF MarkersInv, ClockInv
  <2> QED
    BY <1>2, <2>1, <2>2 DEF ClockInv
<1>12. WritersInv'
  <2>1. ASSUME NEW z \in Writer, NEW y \in writing'[z]
        PROVE  z # w /\ y \in writing[z] /\ marker'[y.user][y.mark] = marker[y.user][y.mark]
    <3>1. z # w /\ y \in writing[z]
      BY <1>9, <2>1
    <3>2. y.user \in Viewer /\ y.mark \in Mark
      BY <3>1 DEF TypeOK, Upsert
    <3>3. y.user # u \/ y.mark # k
      BY <1>3, <3>1 DEF MarkersInv, WritersInv
    <3> QED
      BY <1>8, <3>1, <3>2, <3>3
  <2> QED
    BY <2>1 DEF MarkersInv, WritersInv
<1> QED
  BY <1>7, <1>11, <1>12 DEF MarkersInv

----------------------------------------------------------------------------
(* Requests.                                                               *)

LEMMA SelectReads ==
    ASSUME TypeOK, ReadersInv, NEW t \in Reader, NEW u \in Viewer, NEW q \in Request, NEW pages,
           Select(t, u, q, pages, "clear"), \A S \in pages : \A m \in S : Asked(u, q, m)
    PROVE  ReadersInv'
<1>1. PICK S \in pages : page' = [page EXCEPT ![t] = S]
  BY DEF Select
<1>2. /\ UNCHANGED sent
      /\ request' = [request EXCEPT ![t] = {[user |-> u, query |-> q]}]
      /\ stage' = [stage EXCEPT ![t] = "clear"]
  BY DEF Select, messages
<1>3. ASSUME NEW s \in Reader
      PROVE  /\ \A x, y \in request'[s] : x = y
             /\ stage'[s] = "deletion" => \A x \in request'[s] : x.query.kind \in Privates
             /\ \A x \in request'[s] : \A m \in page'[s] : Asked(x.user, x.query, m)
  <2>1. CASE s = t
    <3>1. /\ request'[s] = {[user |-> u, query |-> q]} /\ stage'[s] = "clear"
          /\ page'[s] = S
      BY <1>1, <1>2, <2>1 DEF TypeOK
    <3>2. \A m \in S : Asked(u, q, m)
      OBVIOUS
    <3>3. \A x \in request'[s] : x.user = u /\ x.query = q
      BY <3>1
    <3> QED
      BY <3>1, <3>2, <3>3
  <2>2. CASE s # t
    <3>1. request'[s] = request[s] /\ stage'[s] = stage[s] /\ page'[s] = page[s]
      BY <1>1, <1>2, <2>2 DEF TypeOK
    <3> QED
      BY <3>1 DEF ReadersInv
  <2> QED
    BY <2>1, <2>2
<1>4. \A x, y, m : Asked(x, y, m)' <=> Asked(x, y, m)
  BY <1>2 DEF Asked
<1> QED
  BY <1>3, <1>4 DEF ReadersInv

LEMMA HistoryReads ==
    ASSUME TypeOK, ReadersInv, NEW t \in Reader, NEW u \in Viewer, NEW r \in Room,
           GetRoomHistoryRequest(t, u, r)
    PROVE  ReadersInv'
<1> DEFINE q == [kind |-> "history", room |-> r]
<1>1. q \in Request
  BY DEF Request
<1>2. \A S \in GetRoomHistory(r) : \A m \in S : Asked(u, q, m)
  BY DEF GetRoomHistory, Newest, InRoom, Asked, Privates
<1>3. Select(t, u, q, GetRoomHistory(r), "clear")
  BY DEF GetRoomHistoryRequest
<1> HIDE DEF q
<1> QED
  BY <1>1, <1>2, <1>3, SelectReads

LEMMA ReplayReads ==
    ASSUME TypeOK, ReadersInv, NEW t \in Reader, NEW u \in Viewer, NEW r \in Room,
           NEW since \in Stamp, GetRoomMessages(t, u, r, since)
    PROVE  ReadersInv'
<1> DEFINE q == [kind |-> "replay", room |-> r, since |-> since]
<1>1. q \in Request
  BY DEF Request
<1>2. \A S \in GetByRoomSince(r, since) : \A m \in S : Asked(u, q, m)
  BY DEF GetByRoomSince, Oldest, InRoom, Asked, Privates
<1>3. Select(t, u, q, GetByRoomSince(r, since), "clear")
  BY DEF GetRoomMessages
<1> HIDE DEF q
<1> QED
  BY <1>1, <1>2, <1>3, SelectReads

LEMMA ContextReads ==
    ASSUME TypeOK, ReadersInv, NEW t \in Reader, NEW u \in Viewer, NEW r \in Room,
           NEW n \in Message, GetMessageContext(t, u, r, n)
    PROVE  ReadersInv'
<1> DEFINE q == [kind |-> "context", room |-> r, target |-> n]
<1>1. q \in Request
  BY DEF Request
<1>2. n \in InRoom(r)
  BY DEF GetMessageContext
<1>3. \A S \in GetMessagesAround(r, n) : S \subseteq InRoom(r)
  BY <1>2, AroundFrom DEF GetMessagesAround
<1>4. \A m \in InRoom(r) : Asked(u, q, m)
  BY DEF InRoom, Asked, Privates
<1>5. Select(t, u, q, GetMessagesAround(r, n), "clear")
  BY DEF GetMessageContext
<1> HIDE DEF q
<1> QED
  BY <1>1, <1>3, <1>4, <1>5, SelectReads

LEMMA SearchReads ==
    ASSUME TypeOK, ReadersInv, NEW t \in Reader, NEW u \in Viewer, NEW r \in Room \cup {AnyRoom},
           SearchRequest(t, u, r)
    PROVE  ReadersInv'
<1> DEFINE q == [kind |-> "search", room |-> r]
<1>1. q \in Request
  BY DEF Request
<1>2. \A S \in SearchMessages(r) : \A m \in S : Asked(u, q, m)
  BY DEF SearchMessages, Asked, Privates
<1>3. Select(t, u, q, SearchMessages(r), "clear")
  BY DEF SearchRequest
<1> HIDE DEF q
<1> QED
  BY <1>1, <1>2, <1>3, SelectReads

LEMMA PmReads ==
    ASSUME TypeOK, ReadersInv, NEW t \in Reader, NEW u \in Viewer, NEW v \in User,
           NEW before \in Stamp, GetPmHistoryRequest(t, u, v, before)
    PROVE  ReadersInv'
<1> DEFINE q == [kind |-> "pm", with |-> v, before |-> before]
<1>1. q \in Request
  BY DEF Request
<1>2. \A S \in GetPmHistory(u, v, before) : \A m \in S : Asked(u, q, m)
  BY DEF GetPmHistory, Oldest, Between, Asked, Privates, GetPmHistoryRequest
<1>3. Select(t, u, q, GetPmHistory(u, v, before), "clear")
  BY DEF GetPmHistoryRequest
<1> HIDE DEF q
<1> QED
  BY <1>1, <1>2, <1>3, SelectReads

\* A conversation is of two users.
LEMMA PairOf ==
    ASSUME TypeOK, NEW m \in stored, sent[m].place \notin Room, NEW u \in sent[m].place,
           NEW v \in sent[m].place \ {u}
    PROVE  sent[m].place = {u, v}
<1>1. sent[m].place \in Conversation
  BY DEF TypeOK, Row, Place
<1> QED
  BY <1>1 DEF Conversation

LEMMA PmContextReads ==
    ASSUME TypeOK, ReadersInv, NEW t \in Reader, NEW u \in Viewer, NEW v \in User,
           NEW n \in Message, GetPmContext(t, u, v, n)
    PROVE  ReadersInv'
<1> DEFINE q == [kind |-> "pmcontext", with |-> v, target |-> n]
<1>1. q \in Request
  BY DEF Request
<1>2. u # v /\ v \in User /\ (sent[n].place = {u, v} \/ u \notin sent[n].place)
  BY PairOf DEF GetPmContext
<1>3. \A S \in GetPmMessagesAround(u, v, n) : S \subseteq Between(u, v) \cup {n}
  BY AroundFrom DEF GetPmMessagesAround
<1>4. \A m \in Between(u, v) \cup {n} : Asked(u, q, m)
  BY <1>2 DEF Between, Asked, Privates, GetPmContext
<1>5. Select(t, u, q, GetPmMessagesAround(u, v, n), "clear")
  BY DEF GetPmContext
<1> HIDE DEF q
<1> QED
  BY <1>1, <1>3, <1>4, <1>5, SelectReads

LEMMA FilterReads ==
    ASSUME TypeOK, ReadersInv, NEW t \in Reader, FilterPmPage(t) \/ Respond(t)
    PROVE  ReadersInv'
<1>1. UNCHANGED sent
  BY DEF FilterPmPage, Respond, messages
<1>2. ASSUME NEW s \in Reader
      PROVE  /\ \A x, y \in request'[s] : x = y
             /\ stage'[s] = "deletion" => \A x \in request'[s] : x.query.kind \in Privates
             /\ \A x \in request'[s] : \A m \in page'[s] : Asked(x.user, x.query, m)
  <2>1. CASE s # t
    <3>1. request'[s] = request[s] /\ stage'[s] = stage[s] /\ page'[s] = page[s]
      BY <2>1 DEF FilterPmPage, Respond, TypeOK
    <3> QED
      BY <3>1 DEF ReadersInv
  <2>2. CASE s = t /\ FilterPmPage(t)
    <3>1. /\ request'[s] = request[s] /\ page'[s] \subseteq page[s]
          /\ \E x \in request[s] : x.query.kind \in Privates
      BY <2>2, KeptFromPage DEF FilterPmPage, TypeOK
    <3> QED
      BY <3>1 DEF ReadersInv
  <2>3. CASE s = t /\ Respond(t)
    <3>1. request'[s] = {}
      BY <2>3 DEF Respond, TypeOK
    <3> QED
      BY <3>1
  <2> QED
    BY <2>1, <2>2, <2>3
<1>3. \A x, y, m : Asked(x, y, m)' <=> Asked(x, y, m)
  BY <1>1 DEF Asked
<1> QED
  BY <1>2, <1>3 DEF ReadersInv

LEMMA ReadsKept == TypeOK /\ ReadersInv /\ [Next]_vars => ReadersInv'
<1> SUFFICES ASSUME TypeOK, ReadersInv, [Next]_vars PROVE ReadersInv'
  OBVIOUS
<1>1. CASE UNCHANGED vars
  BY <1>1 DEF vars, ReadersInv, Asked
<1>2. ASSUME \/ \E m \in Message : Store(m) \/ Delete(m) \/ \E row \in Row : Send(m, row)
             \/ \E w \in Writer : CommitUpsert(w)
             \/ \E w \in Writer, u \in Viewer, k \in Mark : StartUpsert(w, u, k)
      PROVE  ReadersInv'
  <2>1. UNCHANGED <<request, stage, page>>
    BY <1>2 DEF Store, Delete, Send, CommitUpsert, StartUpsert, reading
  <2>2. \A m \in stored : sent'[m] = sent[m]
    BY <1>2 DEF Store, Delete, Send, CommitUpsert, StartUpsert, messages, TypeOK
  <2> QED
    BY <2>1, <2>2, ReadersStand
<1>3. ASSUME NEW w \in Writer, NEW u \in Viewer,
             \/ \E c \in Room \cup (User \ {u}) : ClearHistory(w, u, c)
             \/ \E v \in User : DeletePmConversation(w, u, v)
      PROVE  ReadersInv'
  <2>1. \E k \in Mark : StartUpsert(w, u, k)
    BY <1>3 DEF ClearHistory, DeletePmConversation, Mark
  <2> QED
    BY <1>2, <2>1
<1>4. CASE Next
  BY <1>2, <1>3, <1>4, HistoryReads, ReplayReads, ContextReads, SearchReads, PmReads,
     PmContextReads, FilterReads DEF Next
<1> QED
  BY <1>1, <1>4

\* A request leaves the markers alone.
LEMMA RequestsHide ==
    ASSUME MarkersInv, NEW t \in Reader,
           \/ \E u \in Viewer : \E q, pages : Select(t, u, q, pages, "clear")
           \/ FilterPmPage(t) \/ Respond(t)
    PROVE  MarkersInv'
<1>1. UNCHANGED <<clock, marker, writing, acked>>
  BY DEF Select, FilterPmPage, Respond, messages, markers
<1> QED
  BY <1>1 DEF MarkersInv, ClockInv, WritersInv

LEMMA HidesKept ==
    ASSUME ~Overlap
    PROVE  TypeOK /\ MarkersInv /\ [Next]_vars => MarkersInv'
<1> SUFFICES ASSUME TypeOK, MarkersInv, [Next]_vars PROVE MarkersInv'
  OBVIOUS
<1>1. CASE UNCHANGED vars
  BY <1>1 DEF vars, MarkersInv, ClockInv, WritersInv
<1>2. \A u \in Viewer :
         /\ \A c \in Room \cup (User \ {u}) : <<"clear", c>> \in Mark
         /\ \A v \in User : <<"deleted", v>> \in Mark
  BY DEF Mark
<1>3. ASSUME NEW w \in Writer, NEW u \in Viewer,
             \/ \E c \in Room \cup (User \ {u}) : ClearHistory(w, u, c)
             \/ \E v \in User : DeletePmConversation(w, u, v)
      PROVE  MarkersInv'
  BY <1>2, <1>3, StartUpsertHides DEF ClearHistory, DeletePmConversation
<1>4. ASSUME NEW t \in Reader, NEW u \in Viewer,
             \/ \E r \in Room :
                   \/ GetRoomHistoryRequest(t, u, r)
                   \/ \E since \in Stamp : GetRoomMessages(t, u, r, since)
                   \/ \E m \in Message : GetMessageContext(t, u, r, m)
             \/ \E r \in Room \cup {AnyRoom} : SearchRequest(t, u, r)
             \/ \E v \in User : \/ \E before \in Stamp : GetPmHistoryRequest(t, u, v, before)
                               \/ \E m \in Message : GetPmContext(t, u, v, m)
      PROVE  MarkersInv'
  <2>1. \E q, pages : Select(t, u, q, pages, "clear")
    BY <1>4 DEF GetRoomHistoryRequest, GetRoomMessages, GetMessageContext, SearchRequest,
                GetPmHistoryRequest, GetPmContext
  <2> QED
    BY <2>1, RequestsHide
<1>5. CASE Next
  BY <1>3, <1>4, <1>5, SendHides, StoreHides, CommitUpsertHides, RequestsHide DEF Next
<1> QED
  BY <1>1, <1>5

\* What a filter keeps of a page is later than the marker it reads.
LEMMA FilterHolds == TypeOK /\ ReadersInv /\ MarkersInv => ClearedStaysHidden
<1> SUFFICES ASSUME TypeOK, ReadersInv, MarkersInv, NEW t \in Reader, NEW x \in request[t], NEW m \in Kept(t),
                    NEW k \in MarksOf(x.user, m),
                    k[1] = (IF stage[t] = "deletion" THEN "deleted" ELSE "clear")
             PROVE  At(m) > marker[x.user][k]
  BY DEF ClearedStaysHidden, MarkersInv
<1> DEFINE u == x.user
           q == x.query
<1>1. /\ q \in Request /\ u \in Viewer
      /\ \A y \in request[t] : y = x
      /\ stage[t] = "deletion" => q.kind \in Privates
  BY DEF TypeOK, ReadersInv
<1>2. m \in page[t] /\ Asked(u, q, m)
  BY KeptFromPage DEF ReadersInv
<1>3. m \in CASE stage[t] = "deletion" -> ApplyPmDeletionFilter(u, q.with, page[t])
              [] stage[t] # "deletion" /\ q.kind \in Privates
                                        -> ApplyClearFilter(u, q.with, page[t])
              [] q.kind = "search"      -> ApplySearchFilter(u, q.room, page[t])
              [] OTHER                  -> ApplyClearFilter(u, q.room, page[t])
  BY <1>1 DEF Kept
<1>4. CASE q.kind \in Privates
  <2>1. /\ q.with \in User /\ q.with # u
        /\ sent[m].place = {u, q.with} /\ {u, q.with} \notin Room
    <3>1. u \in sent[m].place
      BY <1>1, <1>2, <1>4, HistoryAssumption DEF Asked, MarksOf
    <3> QED
      BY <1>1, <1>2, <1>4, <3>1, HistoryAssumption DEF Asked
  <2>2. k \in {"clear", "deleted"} \X {q.with}
    BY <2>1 DEF MarksOf
  <2>3. CASE stage[t] = "deletion"
    <3>1. k = <<"deleted", q.with>>
      BY <2>2, <2>3
    <3>2. m \in ApplyPmDeletionFilter(u, q.with, page[t])
      BY <1>3, <1>4, <2>3 DEF Privates
    <3> QED
      BY <3>1, <3>2 DEF ApplyPmDeletionFilter, GetPmDeletionTimestamp
  <2>4. CASE stage[t] # "deletion"
    <3>1. k = <<"clear", q.with>>
      BY <2>2, <2>4
    <3>2. m \in ApplyClearFilter(u, q.with, page[t])
      BY <1>3, <1>4, <2>4 DEF Privates
    <3> QED
      BY <3>1, <3>2 DEF ApplyClearFilter, GetClear
  <2> QED
    BY <2>3, <2>4
<1>5. CASE q.kind \notin Privates
  <2>1. /\ stage[t] # "deletion" /\ sent[m].place \in Room
        /\ \/ sent[m].place = q.room
           \/ q.kind = "search" /\ q.room = AnyRoom
    BY <1>1, <1>2, <1>5 DEF Asked
  <2>2. k = <<"clear", sent[m].place>>
    BY <2>1 DEF MarksOf
  <2>3. CASE q.kind = "search" /\ q.room = AnyRoom
    <3>1. m \in {n \in page[t] : At(n) > GetAllClearsForUser(u)[sent[n].place]}
      BY <1>3, <1>5, <2>1, <2>3 DEF ApplySearchFilter
    <3>2. GetAllClearsForUser(u)[sent[m].place] = marker[u][k]
      BY <2>1, <2>2 DEF GetAllClearsForUser, GetClear
    <3> QED
      BY <3>1, <3>2
  <2>4. CASE sent[m].place = q.room
    <3>1. q.room # AnyRoom
      BY <2>1, <2>4, HistoryAssumption
    <3>2. m \in ApplyClearFilter(u, q.room, page[t])
      BY <1>3, <1>5, <2>1, <3>1 DEF ApplySearchFilter
    <3> QED
      BY <2>2, <2>4, <3>2 DEF ApplyClearFilter, GetClear
  <2> QED
    BY <2>1, <2>3, <2>4
<1> QED
  BY <1>4, <1>5

\* Once a clear, or the deletion of a conversation, has been answered, no
\* request that reads its marker afterwards shows a message it hides, whenever
\* the page was selected: provided that no user clears one conversation twice
\* at once.
THEOREM ClearedStaysHiddenCorrect ==
    ASSUME ~Overlap
    PROVE  Spec => []ClearedStaysHidden
<1>1. Init => TypeOK /\ ReadersInv /\ MarkersInv
  BY InitTyped, InitReads, InitHides
<1>2. TypeOK /\ ReadersInv /\ MarkersInv /\ [Next]_vars
         => (TypeOK /\ ReadersInv /\ MarkersInv)'
  BY TypeKept, ReadsKept, HidesKept
<1>3. TypeOK /\ ReadersInv /\ MarkersInv => ClearedStaysHidden
  BY FilterHolds
<1> QED
  BY <1>1, <1>2, <1>3, PTL DEF Spec

----------------------------------------------------------------------------
(* What a page leaves out.                                                 *)

\* The rows around a target that a SELECT may return: those before, those after.
Neighbours(S, target) ==
    Newest({m \in S : At(m) < At(target)}, Around)
        \X Oldest({m \in S : At(m) > At(target)}, Around)

\* The place whose messages the context q of user u is made of.
PlaceOf(u, q) == IF q.kind = "context" THEN q.room ELSE {u, q.with}
RowsOf(u, q)  == {m \in stored : sent[m].place = PlaceOf(u, q)}

\* P is a page around a target: what a SELECT returned of the rows S, of which
\* those in B have remained, with every row that remained all that are later.
ContextOf(u, q, P, B) ==
    /\ q.target \in stored
    /\ \E S \in SUBSET stored :
          /\ \A m \in S : sent[m].place = PlaceOf(u, q)
          /\ \A m \in B : sent[m].place = PlaceOf(u, q) => m \in S
          /\ \A m \in (S \cup {q.target}) \cap B, k \in S : At(m) <= At(k) => k \in B
          /\ \E n \in Neighbours(S, q.target) : P = (n[1] \cup {q.target} \cup n[2]) \cap B

\* P is a page of request q by user u when the rows were B.
PageOf(u, q, P, B) ==
    /\ q.kind = "history" => P \in Newest({m \in B : sent[m].place = q.room}, Limit)
    /\ q.kind = "replay" =>
          P \in Oldest({m \in B : sent[m].place = q.room /\ At(m) >= q.since}, Limit)
    /\ q.kind \in {"context", "pmcontext"} => ContextOf(u, q, P, B)

PagesInv ==
    /\ IsFiniteSet(stored)
    /\ \A t \in Reader : \A x \in request[t] :
          PageOf(x.user, x.query, page[t], basis[t])

\* Under a limit, rows are left out only when the limit is reached.
LEMMA LimitReached ==
    ASSUME NEW S, IsFiniteSet(S), NEW n \in Nat, NEW T, T \in Newest(S, n) \/ T \in Oldest(S, n),
           NEW m \in S \ T
    PROVE  Cardinality(T) = n
<1>1. T \in SUBSET S /\ Cardinality(T) = IF Cardinality(S) < n THEN Cardinality(S) ELSE n
  BY DEF Newest, Oldest
<1>2. Cardinality(S) # Cardinality(T)
  BY <1>1, FS_Subset
<1> QED
  BY <1>1, <1>2

LEMMA StoredRows ==
    ASSUME TypeOK, NEW m \in stored, NEW u
    PROVE  /\ m \in Message /\ sent[m] \in Row /\ At(m) \in Int
           /\ MarksOf(u, m) \subseteq Mark
<1>1. m \in Message /\ sent[m] \in Row
  BY DEF TypeOK
<1>2. At(m) \in Int
  BY <1>1 DEF At, Row, Time
<1>3. MarksOf(u, m) \subseteq Mark
  BY DEF MarksOf, Mark
<1> QED
  BY <1>1, <1>2, <1>3

LEMMA MarkersAreTimes ==
    ASSUME TypeOK, NEW u \in Viewer, NEW k \in Mark
    PROVE  marker[u][k] \in Int
BY TimeIs DEF TypeOK

\* A message of one place is hidden by the same markers as an earlier one.
LEMMA VisibleLater ==
    ASSUME TypeOK, NEW u \in Viewer, NEW m \in stored, NEW k \in stored,
           sent[k].place = sent[m].place, At(m) <= At(k), NEW S, NEW T, k \in T,
           m \in Visible(u, S)
    PROVE  k \in Visible(u, T)
<1>1. MarksOf(u, k) = MarksOf(u, m) /\ MarksOf(u, m) \subseteq Mark
  BY StoredRows DEF MarksOf
<1>2. At(m) \in Int /\ At(k) \in Int
  BY StoredRows
<1>3. \A j \in MarksOf(u, m) : At(m) > marker[u][j]
  BY DEF Visible
<1>4. ASSUME NEW j \in MarksOf(u, k) PROVE At(k) > marker[u][j]
  <2>1. At(m) > marker[u][j] /\ marker[u][j] \in Int
    BY <1>1, <1>3, MarkersAreTimes
  <2> QED
    BY <1>2, <2>1
<1> QED
  BY <1>4 DEF Visible

----------------------------------------------------------------------------
(* Pages stay what they are while rows are added.                          *)

LEMMA NewestStands ==
    ASSUME NEW S, NEW n, NEW T, \A m \in S : sent'[m] = sent[m]
    PROVE  /\ T \in Newest(S, n) => (T \in Newest(S, n))'
           /\ T \in Oldest(S, n) => (T \in Oldest(S, n))'
<1>1. \A m \in S : At(m)' = At(m)
  BY DEF At
<1> QED
  BY <1>1 DEF Newest, Oldest

LEMMA PageStands ==
    ASSUME NEW u, NEW q, NEW P, NEW B, B \subseteq stored,
           stored \subseteq stored', \A m \in stored : sent'[m] = sent[m],
           PageOf(u, q, P, B)
    PROVE  PageOf(u, q, P, B)'
<1>1. \A m \in B : sent'[m] = sent[m] /\ At(m)' = At(m)
  BY DEF At
<1>2. ASSUME q.kind = "history"
      PROVE  (P \in Newest({m \in B : sent[m].place = q.room}, Limit))'
  <2>1. PICK S : S = {m \in B : sent[m].place = q.room}
    OBVIOUS
  <2>2. S = {m \in B : sent'[m].place = q.room} /\ \A m \in S : sent'[m] = sent[m]
    BY <1>1, <2>1
  <2>3. P \in Newest(S, Limit)
    BY <1>2, <2>1 DEF PageOf
  <2>4. (P \in Newest(S, Limit))'
    BY <2>2, <2>3, NewestStands
  <2> QED
    BY <2>2, <2>4
<1>3. ASSUME q.kind = "replay"
      PROVE  (P \in Oldest({m \in B : sent[m].place = q.room /\ At(m) >= q.since}, Limit))'
  <2>1. PICK S : S = {m \in B : sent[m].place = q.room /\ At(m) >= q.since}
    OBVIOUS
  <2>2. /\ S = {m \in B : sent'[m].place = q.room /\ At(m)' >= q.since}
        /\ \A m \in S : sent'[m] = sent[m]
    BY <1>1, <2>1
  <2>3. P \in Oldest(S, Limit)
    BY <1>3, <2>1 DEF PageOf
  <2>4. (P \in Oldest(S, Limit))'
    BY <2>2, <2>3, NewestStands
  <2> QED
    BY <2>2, <2>4
<1>4. ASSUME q.kind \in {"context", "pmcontext"}
      PROVE  ContextOf(u, q, P, B)'
  <2>1. q.target \in stored
    BY <1>4 DEF PageOf, ContextOf
  <2>2. PICK S \in SUBSET stored :
           /\ \A m \in S : sent[m].place = PlaceOf(u, q)
           /\ \A m \in B : sent[m].place = PlaceOf(u, q) => m \in S
           /\ \A m \in (S \cup {q.target}) \cap B, k \in S : At(m) <= At(k) => k \in B
           /\ \E n \in Neighbours(S, q.target) : P = (n[1] \cup {q.target} \cup n[2]) \cap B
    BY <1>4 DEF PageOf, ContextOf
  <2>3. PICK n \in Neighbours(S, q.target) : P = (n[1] \cup {q.target} \cup n[2]) \cap B
    BY <2>2
  <2>4. \A m \in stored : sent'[m] = sent[m] /\ At(m)' = At(m)
    BY DEF At
  <2>5. /\ (\A m \in S : sent[m].place = PlaceOf(u, q))'
        /\ (\A m \in B : sent[m].place = PlaceOf(u, q) => m \in S)'
        /\ (\A m \in (S \cup {q.target}) \cap B, k \in S : At(m) <= At(k) => k \in B)'
    <3>1. S \subseteq stored /\ PlaceOf(u, q)' = PlaceOf(u, q)
      BY DEF PlaceOf
    <3> QED
      BY <2>2, <2>4, <3>1
  <2>6. PICK earlier, later : /\ earlier = {m \in S : At(m) < At(q.target)}
                              /\ later = {m \in S : At(m) > At(q.target)}
    OBVIOUS
  <2>7. /\ earlier = {m \in S : At(m)' < At(q.target)'}
        /\ later = {m \in S : At(m)' > At(q.target)'}
    BY <2>1, <2>4, <2>6
  <2>8. n \in Newest(earlier, Around) \X Oldest(later, Around)
    BY <2>3, <2>6 DEF Neighbours
  <2>9. /\ \A m \in earlier : sent'[m] = sent[m]
        /\ \A m \in later : sent'[m] = sent[m]
    BY <2>4, <2>6
  <2>10. PICK a, b : a = n[1] /\ b = n[2] /\ n = <<a, b>>
    BY <2>8
  <2>11. (a \in Newest(earlier, Around))' /\ (b \in Oldest(later, Around))'
    BY <2>8, <2>9, <2>10, NewestStands
  <2>12. (n \in Neighbours(S, q.target))'
    <3>1. (n \in Newest(earlier, Around) \X Oldest(later, Around))'
      BY <2>10, <2>11
    <3> QED
      BY <2>7, <3>1 DEF Neighbours
  <2> QED
    BY <2>1, <2>3, <2>5, <2>12 DEF ContextOf
<1> QED
  BY <1>2, <1>3, <1>4 DEF PageOf

----------------------------------------------------------------------------
(* Every step keeps the pages what they are.                               *)

\* A reader that a step leaves alone keeps its page.
LEMMA OthersStand ==
    ASSUME TypeOK, PagesInv, NEW t \in Reader,
           UNCHANGED <<request[t], page[t], basis[t]>>,
           stored \subseteq stored', \A m \in stored : sent'[m] = sent[m],
           NEW x \in request'[t]
    PROVE  PageOf(x.user, x.query, page[t], basis[t])'
<1>1. PICK u, q, P, B : u = x.user /\ q = x.query /\ P = page[t] /\ B = basis[t]
  OBVIOUS
<1>2. B \subseteq stored
  BY <1>1 DEF TypeOK
<1>3. PageOf(u, q, P, B)
  BY <1>1 DEF PagesInv
<1>4. PageOf(u, q, P, B)'
  BY <1>2, <1>3, PageStands
<1>5. P = page'[t] /\ B = basis'[t]
  BY <1>1
<1> QED
  BY <1>1, <1>4, <1>5

LEMMA WritesKeepPages ==
    ASSUME TypeOK, PagesInv,
           \/ \E m \in Message : Store(m) \/ Delete(m) \/ \E row \in Row : Send(m, row)
           \/ \E w \in Writer : CommitUpsert(w)
           \/ \E w \in Writer, u \in Viewer, k \in Mark : StartUpsert(w, u, k)
    PROVE  PagesInv'
<1>1. UNCHANGED <<request, page, basis>>
  BY DEF Store, Delete, Send, CommitUpsert, StartUpsert, reading
<1>2. \A m \in stored : sent'[m] = sent[m]
  BY DEF Store, Delete, Send, CommitUpsert, StartUpsert, messages, TypeOK
<1>3. stored' = stored \/ \E m \in Message : stored' = stored \cup {m}
  BY DEF Store, Delete, Send, CommitUpsert, StartUpsert, messages
<1>4. IsFiniteSet(stored')
  BY <1>3, FS_AddElement DEF PagesInv
<1>5. ASSUME NEW t \in Reader, NEW x \in request'[t]
      PROVE  PageOf(x.user, x.query, page[t], basis[t])'
  <2>1. UNCHANGED <<request[t], page[t], basis[t]>> /\ stored \subseteq stored'
    BY <1>1, <1>3
  <2> QED
    BY <1>2, <2>1, OthersStand
<1> QED
  BY <1>4, <1>5 DEF PagesInv

LEMMA SelectKeepsPages ==
    ASSUME TypeOK, PagesInv, NEW t \in Reader, NEW u \in Viewer, NEW q, NEW pages,
           Select(t, u, q, pages, "clear"), \A S \in pages : PageOf(u, q, S, stored)
    PROVE  PagesInv'
<1>1. PICK S \in pages : page' = [page EXCEPT ![t] = S]
  BY DEF Select
<1>2. /\ UNCHANGED <<sent, stored>>
      /\ request' = [request EXCEPT ![t] = {[user |-> u, query |-> q]}]
      /\ basis' = [basis EXCEPT ![t] = stored]
  BY DEF Select, messages
<1>3. stored \subseteq stored' /\ \A m \in stored : sent'[m] = sent[m]
  BY <1>2
<1>4. ASSUME NEW x \in request'[t]
      PROVE  PageOf(x.user, x.query, page[t], basis[t])'
  <2>1. PICK B : B = stored
    OBVIOUS
  <2>2. PageOf(u, q, S, B)
    BY <2>1
  <2>3. PageOf(u, q, S, B)'
    BY <1>3, <2>1, <2>2, PageStands
  <2>4. page'[t] = S /\ basis'[t] = B /\ x = [user |-> u, query |-> q]
    BY <1>1, <1>2, <2>1 DEF TypeOK
  <2>5. x.user = u /\ x.query = q
    BY <2>4
  <2> QED
    BY <2>3, <2>4, <2>5
<1>5. ASSUME NEW r \in Reader, r # t, NEW x \in request'[r]
      PROVE  PageOf(x.user, x.query, page[r], basis[r])'
  <2>1. UNCHANGED <<request[r], page[r], basis[r]>>
    BY <1>1, <1>2, <1>5 DEF TypeOK
  <2> QED
    BY <1>3, <2>1, OthersStand
<1> QED
  BY <1>2, <1>4, <1>5 DEF PagesInv

LEMMA HistoryPages ==
    ASSUME TypeOK, PagesInv, NEW t \in Reader, NEW u \in Viewer, NEW r \in Room,
           GetRoomHistoryRequest(t, u, r)
    PROVE  PagesInv'
<1> DEFINE q == [kind |-> "history", room |-> r]
<1>1. \A S \in GetRoomHistory(r) : PageOf(u, q, S, stored)
  BY DEF GetRoomHistory, InRoom, PageOf
<1>2. Select(t, u, q, GetRoomHistory(r), "clear")
  BY DEF GetRoomHistoryRequest
<1> HIDE DEF q
<1> QED
  BY <1>1, <1>2, SelectKeepsPages

LEMMA ReplayPages ==
    ASSUME TypeOK, PagesInv, NEW t \in Reader, NEW u \in Viewer, NEW r \in Room,
           NEW since \in Stamp, GetRoomMessages(t, u, r, since)
    PROVE  PagesInv'
<1> DEFINE q == [kind |-> "replay", room |-> r, since |-> since]
<1>1. ASSUME NEW S \in GetByRoomSince(r, since) PROVE PageOf(u, q, S, stored)
  <2>1. {m \in InRoom(r) : At(m) >= since}
           = {m \in stored : sent[m].place = q.room /\ At(m) >= q.since}
    BY DEF InRoom
  <2>2. S \in Oldest({m \in stored : sent[m].place = q.room /\ At(m) >= q.since}, Limit)
    BY <2>1 DEF GetByRoomSince
  <2> QED
    BY <2>2 DEF PageOf
<1>2. Select(t, u, q, GetByRoomSince(r, since), "clear")
  BY DEF GetRoomMessages
<1> HIDE DEF q
<1> QED
  BY <1>1, <1>2, SelectKeepsPages

LEMMA AroundNeighbours ==
    ASSUME NEW S, NEW m, NEW T, T \in AroundIn(S, m)
    PROVE  \E n \in Neighbours(S, m) : T = n[1] \cup {m} \cup n[2]
<1>1. PICK before \in Newest({k \in S : At(k) < At(m)}, Around),
           after  \in Oldest({k \in S : At(k) > At(m)}, Around) :
        T = before \cup {m} \cup after
  BY DEF AroundIn
<1>2. PICK n : n = <<before, after>>
  OBVIOUS
<1>3. n \in Neighbours(S, m) /\ n[1] = before /\ n[2] = after
  BY <1>1, <1>2 DEF Neighbours
<1> QED
  BY <1>1, <1>3

LEMMA AroundIsPage ==
    ASSUME NEW u, NEW q, q.kind \in {"context", "pmcontext"}, q.target \in stored,
           NEW S, S \in AroundIn(RowsOf(u, q), q.target)
    PROVE  PageOf(u, q, S, stored)
<1>1. PICK R, m : R = RowsOf(u, q) /\ m = q.target
  OBVIOUS
<1>2. PICK n \in Neighbours(R, m) : S = n[1] \cup {m} \cup n[2]
  BY <1>1, AroundNeighbours
<1>3. R \subseteq stored /\ \A k \in stored : sent[k].place = PlaceOf(u, q) <=> k \in R
  BY <1>1 DEF RowsOf
<1>4. n[1] \subseteq R /\ n[2] \subseteq R
  BY DEF Neighbours, Newest, Oldest
<1>5. S = (n[1] \cup {m} \cup n[2]) \cap stored
  BY <1>1, <1>2, <1>3, <1>4
<1>6. ContextOf(u, q, S, stored)
  BY <1>1, <1>2, <1>3, <1>5 DEF ContextOf
<1> QED
  BY <1>6 DEF PageOf

LEMMA ContextPages ==
    ASSUME TypeOK, PagesInv, NEW t \in Reader, NEW u \in Viewer, NEW r \in Room,
           NEW n \in Message, GetMessageContext(t, u, r, n)
    PROVE  PagesInv'
<1> DEFINE q == [kind |-> "context", room |-> r, target |-> n]
<1>1. q.kind \in {"context", "pmcontext"} /\ q.target \in stored
  BY DEF GetMessageContext, InRoom
<1>2. GetMessagesAround(r, n) = AroundIn(RowsOf(u, q), q.target)
  BY DEF GetMessagesAround, InRoom, RowsOf, PlaceOf
<1>3. Select(t, u, q, GetMessagesAround(r, n), "clear")
  BY DEF GetMessageContext
<1> HIDE DEF q
<1> QED
  BY <1>1, <1>2, <1>3, AroundIsPage, SelectKeepsPages

LEMMA PmContextPages ==
    ASSUME TypeOK, PagesInv, NEW t \in Reader, NEW u \in Viewer, NEW v \in User,
           NEW n \in Message, GetPmContext(t, u, v, n)
    PROVE  PagesInv'
<1> DEFINE q == [kind |-> "pmcontext", with |-> v, target |-> n]
<1>1. q.kind \in {"context", "pmcontext"} /\ q.target \in stored
  BY DEF GetPmContext
<1>2. GetPmMessagesAround(u, v, n) = AroundIn(RowsOf(u, q), q.target)
  BY DEF GetPmMessagesAround, Between, RowsOf, PlaceOf
<1>3. Select(t, u, q, GetPmMessagesAround(u, v, n), "clear")
  BY DEF GetPmContext
<1> HIDE DEF q
<1> QED
  BY <1>1, <1>2, <1>3, AroundIsPage, SelectKeepsPages

\* Of a search and of the history of a conversation nothing is claimed.
LEMMA OtherPages ==
    ASSUME TypeOK, PagesInv, NEW t \in Reader, NEW u \in Viewer,
           \/ \E r \in Room \cup {AnyRoom} : SearchRequest(t, u, r)
           \/ \E v \in User, before \in Stamp : GetPmHistoryRequest(t, u, v, before)
    PROVE  PagesInv'
<1>1. PICK q, pages : Select(t, u, q, pages, "clear") /\ q.kind \in {"search", "pm"}
  <2>1. CASE \E r \in Room \cup {AnyRoom} : SearchRequest(t, u, r)
    <3>1. PICK r \in Room \cup {AnyRoom} : SearchRequest(t, u, r)
      BY <2>1
    <3>2. Select(t, u, [kind |-> "search", room |-> r], SearchMessages(r), "clear")
      BY <3>1 DEF SearchRequest
    <3>3. [kind |-> "search", room |-> r].kind = "search"
      OBVIOUS
    <3> QED
      BY <3>2, <3>3
  <2>2. CASE \E v \in User, before \in Stamp : GetPmHistoryRequest(t, u, v, before)
    <3>1. PICK v \in User, before \in Stamp : GetPmHistoryRequest(t, u, v, before)
      BY <2>2
    <3>2. Select(t, u, [kind |-> "pm", with |-> v, before |-> before],
                 GetPmHistory(u, v, before), "clear")
      BY <3>1 DEF GetPmHistoryRequest
    <3>3. [kind |-> "pm", with |-> v, before |-> before].kind = "pm"
      OBVIOUS
    <3> QED
      BY <3>2, <3>3
  <2> QED
    BY <2>1, <2>2
<1>2. \A S \in pages : PageOf(u, q, S, stored)
  BY <1>1 DEF PageOf
<1> QED
  BY <1>1, <1>2, SelectKeepsPages

\* Of a page a filter leaves what the user may see, but for the target of a
\* context that is not of his own conversation.
LEMMA VisibleKept ==
    ASSUME TypeOK, ReadersInv, NEW t \in Reader, NEW x \in request[t], NEW m \in page[t],
           x.query.kind \in Privates => sent[m].place = {x.user, x.query.with},
           NEW S, m \in Visible(x.user, S)
    PROVE  m \in Kept(t)
<1> DEFINE u == x.user
           q == x.query
<1>1. /\ q \in Request /\ u \in Viewer
      /\ stage[t] = "deletion" => q.kind \in Privates
      /\ Asked(u, q, m)
  BY DEF TypeOK, ReadersInv
<1>2. \A k \in MarksOf(u, m) : At(m) > marker[u][k]
  BY DEF Visible
<1> SUFFICES m \in CASE stage[t] = "deletion" -> ApplyPmDeletionFilter(u, q.with, page[t])
                     [] stage[t] # "deletion" /\ q.kind \in Privates
                                               -> ApplyClearFilter(u, q.with, page[t])
                     [] q.kind = "search"      -> ApplySearchFilter(u, q.room, page[t])
                     [] OTHER                  -> ApplyClearFilter(u, q.room, page[t])
  BY DEF Kept
<1>3. CASE q.kind \in Privates
  <2>1. /\ q.with \in User /\ q.with # u
        /\ sent[m].place = {u, q.with} /\ {u, q.with} \notin Room
    BY <1>1, <1>3, HistoryAssumption DEF Asked
  <2>2. MarksOf(u, m) = {<<"clear", q.with>>, <<"deleted", q.with>>}
    BY <2>1 DEF MarksOf
  <2>3. /\ m \in ApplyPmDeletionFilter(u, q.with, page[t])
        /\ m \in ApplyClearFilter(u, q.with, page[t])
    BY <1>2, <2>2 DEF ApplyPmDeletionFilter, GetPmDeletionTimestamp, ApplyClearFilter, GetClear
  <2> QED
    BY <1>3, <2>3 DEF Privates
<1>4. CASE q.kind \notin Privates
  <2>1. /\ stage[t] # "deletion" /\ sent[m].place \in Room
        /\ \/ sent[m].place = q.room
           \/ q.kind = "search" /\ q.room = AnyRoom
    BY <1>1, <1>4 DEF Asked
  <2>2. At(m) > marker[u][<<"clear", sent[m].place>>]
    BY <1>2, <2>1 DEF MarksOf
  <2>3. CASE q.kind = "search" /\ q.room = AnyRoom
    <3>1. At(m) > GetAllClearsForUser(u)[sent[m].place]
      BY <2>1, <2>2 DEF GetAllClearsForUser, GetClear
    <3>2. m \in ApplySearchFilter(u, q.room, page[t])
      BY <2>3, <3>1 DEF ApplySearchFilter
    <3> QED
      BY <1>4, <2>1, <2>3, <3>2
  <2>4. CASE sent[m].place = q.room
    <3>1. q.room # AnyRoom
      BY <2>1, <2>4, HistoryAssumption
    <3>2. m \in ApplyClearFilter(u, q.room, page[t])
      BY <2>2, <2>4 DEF ApplyClearFilter, GetClear
    <3>3. m \in ApplySearchFilter(u, q.room, page[t])
      BY <3>1, <3>2 DEF ApplySearchFilter
    <3> QED
      BY <1>4, <2>1, <3>2, <3>3
  <2> QED
    BY <2>1, <2>3, <2>4
<1> QED
  BY <1>3, <1>4

\* The first filter of a page of private messages.
LEMMA KeptPrivate ==
    ASSUME ReadersInv, NEW t \in Reader, NEW x \in request[t], x.query.kind \in Privates,
           stage[t] = "clear"
    PROVE  Kept(t) = ApplyClearFilter(x.user, x.query.with, page[t])
<1>1. \A y \in request[t] : y = x
  BY DEF ReadersInv
<1>2. stage[t] # "deletion"
  OBVIOUS
<1>3. Kept(t) = CASE stage[t] = "deletion" -> ApplyPmDeletionFilter(x.user, x.query.with, page[t])
                  [] stage[t] # "deletion" /\ x.query.kind \in Privates
                                            -> ApplyClearFilter(x.user, x.query.with, page[t])
                  [] x.query.kind = "search" -> ApplySearchFilter(x.user, x.query.room, page[t])
                  [] OTHER                  -> ApplyClearFilter(x.user, x.query.room, page[t])
  BY <1>1 DEF Kept
<1> QED
  BY <1>2, <1>3 DEF Privates

\* Every filter but that of a search keeps what is later than some time.
LEMMA KeptIsLater ==
    ASSUME TypeOK, ReadersInv, NEW t \in Reader, NEW x \in request[t], x.query.kind # "search"
    PROVE  \E c \in Int : Kept(t) = {m \in page[t] : At(m) > c}
<1> DEFINE u == x.user
           q == x.query
<1>1. /\ q \in Request /\ u \in Viewer
      /\ stage[t] = "deletion" => q.kind \in Privates
      /\ \A y \in request[t] : y = x
  BY DEF TypeOK, ReadersInv
<1>2. Kept(t) = CASE stage[t] = "deletion" -> ApplyPmDeletionFilter(u, q.with, page[t])
                  [] stage[t] # "deletion" /\ q.kind \in Privates
                                            -> ApplyClearFilter(u, q.with, page[t])
                  [] q.kind = "search"      -> ApplySearchFilter(u, q.room, page[t])
                  [] OTHER                  -> ApplyClearFilter(u, q.room, page[t])
  BY <1>1 DEF Kept
<1>3. CASE q.kind \in Privates
  <2>1. q.with \in User
    BY <1>1, <1>3 DEF Request, Privates
  <2>2. /\ <<"deleted", q.with>> \in Mark /\ <<"clear", q.with>> \in Mark
    BY <2>1 DEF Mark
  <2>3. marker[u][<<"deleted", q.with>>] \in Int /\ marker[u][<<"clear", q.with>>] \in Int
    BY <1>1, <2>2, MarkersAreTimes
  <2>4. CASE stage[t] = "deletion"
    BY <1>2, <2>3, <2>4 DEF ApplyPmDeletionFilter, GetPmDeletionTimestamp
  <2>5. CASE stage[t] # "deletion"
    <3>1. Kept(t) = ApplyClearFilter(u, q.with, page[t])
      BY <1>2, <1>3, <2>5
    <3> QED
      BY <2>3, <3>1 DEF ApplyClearFilter, GetClear
  <2> QED
    BY <2>4, <2>5
<1>4. CASE q.kind \notin Privates
  <2>1. Kept(t) = ApplyClearFilter(u, q.room, page[t])
    BY <1>1, <1>2, <1>4
  <2>2. q.room \in Room
    BY <1>1, <1>4 DEF Request, Privates
  <2>3. marker[u][<<"clear", q.room>>] \in Int
    BY <1>1, <2>2, MarkersAreTimes DEF Mark
  <2> QED
    BY <2>1, <2>3 DEF ApplyClearFilter, GetClear
<1> QED
  BY <1>3, <1>4

\* The first filter of a page of private messages takes the same from the page and
\* from the rows it is of.
LEMMA FilterPages ==
    ASSUME TypeOK, ReadersInv, PagesInv, NEW t \in Reader, FilterPmPage(t) \/ Respond(t)
    PROVE  PagesInv'
<1>1. UNCHANGED <<sent, stored>>
  BY DEF FilterPmPage, Respond, messages
<1>2. stored \subseteq stored' /\ \A m \in stored : sent'[m] = sent[m]
  BY <1>1
<1>3. ASSUME NEW r \in Reader, r # t, NEW x \in request'[r]
      PROVE  PageOf(x.user, x.query, page[r], basis[r])'
  <2>1. UNCHANGED <<request[r], page[r], basis[r]>>
    BY <1>3 DEF FilterPmPage, Respond, TypeOK
  <2> QED
    BY <1>2, <2>1, OthersStand
<1>4. ASSUME NEW x \in request'[t]
      PROVE  PageOf(x.user, x.query, page[t], basis[t])'
  <2>1. FilterPmPage(t)
    BY <1>4 DEF Respond, TypeOK
  <2>2. /\ x \in request[t] /\ page'[t] = Kept(t)
        /\ stage[t] = "clear" /\ x.query.kind \in Privates
        /\ basis'[t] = ApplyClearFilter(x.user, x.query.with, basis[t])
    BY <1>4, <2>1 DEF FilterPmPage, TypeOK, ReadersInv
  <2>3. PICK u, q, P, B, c : /\ u = x.user /\ q = x.query /\ P = page[t] /\ B = basis[t]
                             /\ c = marker[u][<<"clear", q.with>>]
    OBVIOUS
  <2>4. PageOf(u, q, P, B) /\ B \subseteq stored
    BY <2>2, <2>3 DEF PagesInv, TypeOK
  <2>5. PICK Q, C : /\ Q = {m \in P : At(m) > c} /\ C = {m \in B : At(m) > c}
    OBVIOUS
  <2>6. page'[t] = Q /\ basis'[t] = C
    <3>1. Kept(t) = ApplyClearFilter(u, q.with, P)
      BY <2>2, <2>3, KeptPrivate
    <3> QED
      BY <2>2, <2>3, <2>5, <3>1 DEF ApplyClearFilter, GetClear
  <2>7. q.kind \in {"pm", "pmcontext"}
    BY <2>2, <2>3 DEF Privates
  <2>8. ASSUME q.kind = "pmcontext"
        PROVE  ContextOf(u, q, Q, C)
    <3>1. ContextOf(u, q, P, B)
      BY <2>4, <2>8 DEF PageOf
    <3>2. PICK S \in SUBSET stored :
             /\ \A m \in S : sent[m].place = PlaceOf(u, q)
             /\ \A m \in B : sent[m].place = PlaceOf(u, q) => m \in S
             /\ \A m \in (S \cup {q.target}) \cap B, k \in S : At(m) <= At(k) => k \in B
             /\ \E n \in Neighbours(S, q.target) : P = (n[1] \cup {q.target} \cup n[2]) \cap B
      BY <3>1 DEF ContextOf
    <3>3. q.target \in stored /\ c \in Int
      <4>1. x.user \in Viewer /\ x.query \in Request
        BY <2>2 DEF TypeOK
      <4>2. <<"clear", q.with>> \in Mark
        BY <2>3, <2>8, <4>1 DEF Request, Mark
      <4> QED
        BY <2>3, <3>1, <4>1, <4>2, MarkersAreTimes DEF ContextOf
    <3>4. \A m \in S \cup {q.target} : At(m) \in Int
      BY <3>3, StoredRows
    <3>5. ASSUME NEW m \in (S \cup {q.target}) \cap C, NEW k \in S, At(m) <= At(k)
          PROVE  k \in C
      <4>1. m \in B /\ At(m) > c /\ k \in B
        BY <2>5, <3>2, <3>5
      <4>2. At(k) > c
        BY <3>3, <3>4, <3>5, <4>1
      <4> QED
        BY <2>5, <4>1, <4>2
    <3>6. PICK n \in Neighbours(S, q.target) : P = (n[1] \cup {q.target} \cup n[2]) \cap B
      BY <3>2
    <3>7. Q = (n[1] \cup {q.target} \cup n[2]) \cap C
      BY <2>5, <3>6
    <3>8. \A m \in C : sent[m].place = PlaceOf(u, q) => m \in S
      BY <2>5, <3>2
    <3> QED
      BY <3>2, <3>3, <3>5, <3>6, <3>7, <3>8 DEF ContextOf
  <2>9. PageOf(u, q, Q, C) /\ C \subseteq stored
    BY <2>4, <2>5, <2>7, <2>8 DEF PageOf
  <2>10. PageOf(u, q, Q, C)'
    BY <1>2, <2>9, PageStands
  <2> QED
    BY <2>3, <2>6, <2>10
<1> QED
  BY <1>1, <1>3, <1>4 DEF PagesInv

LEMMA InitPages == Init => PagesInv
BY FS_EmptySet DEF Init, PagesInv

LEMMA PagesKept == TypeOK /\ ReadersInv /\ PagesInv /\ [Next]_vars => PagesInv'
<1> SUFFICES ASSUME TypeOK, ReadersInv, PagesInv, [Next]_vars PROVE PagesInv'
  OBVIOUS
<1>1. CASE UNCHANGED vars
  <2>1. ASSUME NEW t \in Reader, NEW x \in request'[t]
        PROVE  PageOf(x.user, x.query, page[t], basis[t])'
    <3>1. UNCHANGED <<request[t], page[t], basis[t]>> /\ stored \subseteq stored'
      BY <1>1 DEF vars
    <3>2. \A m \in stored : sent'[m] = sent[m]
      BY <1>1 DEF vars
    <3> QED
      BY <3>1, <3>2, OthersStand
  <2> QED
    BY <1>1, <2>1 DEF PagesInv, vars
<1>2. ASSUME NEW w \in Writer, NEW u \in Viewer,
             \/ \E c \in Room \cup (User \ {u}) : ClearHistory(w, u, c)
             \/ \E v \in User : DeletePmConversation(w, u, v)
      PROVE  PagesInv'
  <2>1. \E k \in Mark : StartUpsert(w, u, k)
    BY <1>2 DEF ClearHistory, DeletePmConversation, Mark
  <2> QED
    BY <2>1, WritesKeepPages
<1>3. CASE Next
  BY <1>2, <1>3, WritesKeepPages, HistoryPages, ReplayPages, ContextPages, PmContextPages,
     OtherPages, FilterPages DEF Next
<1> QED
  BY <1>1, <1>3

----------------------------------------------------------------------------
(* What a reader learns from its page.                                     *)

\* The row m of S that the user may see and does not get.
LEMMA LeftOut ==
    ASSUME TypeOK, ReadersInv, NEW t \in Reader, NEW x \in request[t], NEW S,
           NEW m \in Visible(x.user, S) \ Kept(t),
           x.query.kind \in Privates => sent[m].place = {x.user, x.query.with}
    PROVE  m \in S /\ m \notin page[t]
BY VisibleKept DEF Visible

LEMMA HistoryPageHolds ==
    ASSUME TypeOK, ReadersInv, PagesInv, NEW t \in Reader, NEW x \in request[t],
           x.query.kind = "history",
           NEW m \in Visible(x.user, {n \in basis[t] : sent[n].place = x.query.room}) \ Kept(t)
    PROVE  Cardinality(Kept(t)) = Limit /\ \A k \in Kept(t) : At(m) <= At(k)
<1>1. PICK S, P : S = {n \in basis[t] : sent[n].place = x.query.room} /\ P = page[t]
  OBVIOUS
<1>2. /\ x.user \in Viewer /\ S \subseteq stored /\ IsFiniteSet(stored)
      /\ P \in Newest(S, Limit) /\ P \subseteq S
  <2>1. PageOf(x.user, x.query, page[t], basis[t]) /\ IsFiniteSet(stored)
    BY DEF PagesInv
  <2>2. P \in Newest(S, Limit)
    BY <1>1, <2>1 DEF PageOf
  <2>3. P \subseteq S
    BY <2>2 DEF Newest
  <2>4. x.user \in Viewer /\ S \subseteq stored
    BY <1>1 DEF TypeOK
  <2> QED
    BY <2>1, <2>2, <2>3, <2>4
<1>3. m \in S /\ m \notin P
  BY <1>1, LeftOut DEF Privates
<1>4. IsFiniteSet(S) /\ Limit \in Nat
  BY <1>2, FS_Subset, HistoryAssumption
<1>5. Cardinality(P) = Limit
  BY <1>2, <1>3, <1>4, LimitReached
<1>6. \A k \in P : At(k) >= At(m) /\ At(k) \in Int /\ At(m) \in Int
  BY <1>2, <1>3, StoredRows DEF Newest
<1>7. ASSUME NEW k \in P PROVE k \in Kept(t)
  <2>1. k \in stored /\ m \in stored /\ sent[k].place = sent[m].place /\ At(m) <= At(k)
    BY <1>1, <1>2, <1>3, <1>6
  <2>2. k \in Visible(x.user, P)
    BY <1>1, <1>2, <2>1, VisibleLater
  <2> QED
    BY <1>1, <2>2, VisibleKept DEF Privates
<1>8. Kept(t) = P
  BY <1>1, <1>7, KeptFromPage
<1> QED
  BY <1>5, <1>6, <1>8

LEMMA ReplayPageHolds ==
    ASSUME TypeOK, ReadersInv, PagesInv, NEW t \in Reader, NEW x \in request[t],
           x.query.kind = "replay",
           NEW m \in Visible(x.user, {n \in basis[t] : sent[n].place = x.query.room}) \ Kept(t)
    PROVE  \/ At(m) < x.query.since
           \/ Cardinality(page[t]) = Limit /\ \A k \in page[t] : At(k) <= At(m)
<1>1. m \in basis[t] /\ sent[m].place = x.query.room /\ m \notin page[t]
  BY LeftOut DEF Privates
<1>2. x.query.since \in Int
  <2>1. x.query \in Request
    BY DEF TypeOK
  <2>2. x.query.since \in Stamp
    BY <2>1 DEF Request
  <2> QED
    BY <2>2, HistoryAssumption
<1>3. At(m) \in Int
  BY <1>1, StoredRows DEF TypeOK
<1>4. CASE At(m) >= x.query.since
  <2>1. PICK S : S = {n \in basis[t] : sent[n].place = x.query.room /\ At(n) >= x.query.since}
    OBVIOUS
  <2>2. page[t] \in Oldest(S, Limit) /\ m \in S \ page[t]
    BY <1>1, <1>4, <2>1 DEF PagesInv, PageOf
  <2>3. S \subseteq stored /\ IsFiniteSet(stored)
    BY <2>1 DEF TypeOK, PagesInv
  <2>4. IsFiniteSet(S) /\ Limit \in Nat
    BY <2>3, FS_Subset, HistoryAssumption
  <2>5. Cardinality(page[t]) = Limit
    BY <2>2, <2>4, LimitReached
  <2> QED
    BY <2>2, <2>5 DEF Oldest
<1> QED
  BY <1>2, <1>3, <1>4

LEMMA ContextPageHolds ==
    ASSUME TypeOK, ReadersInv, PagesInv, NEW t \in Reader, NEW x \in request[t],
           x.query.kind \in {"context", "pmcontext"},
           NEW around,
           around = Visible(x.user, {n \in basis[t] : sent[n].place = ContextPlace(x)})
    PROVE  /\ x.query.target \in around => x.query.target \in Kept(t)
           /\ x.query.target \in Kept(t) /\ Around > 0 => \A m \in around \ Kept(t) :
                \/ At(m) = At(x.query.target)
                \/ \E k \in Kept(t) : At(m) <= At(k) /\ At(k) < At(x.query.target)
                \/ \E k \in Kept(t) : At(m) >= At(k) /\ At(k) > At(x.query.target)
<1>1. PICK target, u, q, P, B :
         target = q.target /\ u = x.user /\ q = x.query /\ P = page[t] /\ B = basis[t]
  OBVIOUS
<1>2. ContextOf(u, q, P, B) /\ u \in Viewer /\ B \subseteq stored
  <2>1. PageOf(u, q, P, B)
    BY <1>1 DEF PagesInv
  <2>2. u \in Viewer /\ B \subseteq stored
    BY <1>1 DEF TypeOK
  <2> QED
    BY <1>1, <2>1, <2>2 DEF PageOf
<1>3. PICK S \in SUBSET stored :
         /\ \A m \in S : sent[m].place = PlaceOf(u, q)
         /\ \A m \in B : sent[m].place = PlaceOf(u, q) => m \in S
         /\ \A m \in (S \cup {target}) \cap B, k \in S : At(m) <= At(k) => k \in B
         /\ \E n \in Neighbours(S, target) : P = (n[1] \cup {target} \cup n[2]) \cap B
  BY <1>1, <1>2 DEF ContextOf
<1>4. PICK n \in Neighbours(S, target) : P = (n[1] \cup {target} \cup n[2]) \cap B
  BY <1>3
<1>5. PICK earlier, later : /\ earlier = {m \in S : At(m) < At(target)}
                            /\ later = {m \in S : At(m) > At(target)}
  OBVIOUS
<1>6. PICK before, after : before = n[1] /\ after = n[2]
  OBVIOUS
<1>7. /\ before \in Newest(earlier, Around) /\ after \in Oldest(later, Around)
      /\ before \subseteq earlier /\ after \subseteq later
  BY <1>4, <1>5, <1>6 DEF Neighbours, Newest, Oldest
<1>8. /\ target \in stored /\ IsFiniteSet(S)
      /\ \A m \in S \cup {target} : At(m) \in Int
  <2>1. target \in stored
    BY <1>1, <1>2 DEF ContextOf
  <2> QED
    BY <2>1, StoredRows, FS_Subset DEF PagesInv
<1>9. PlaceOf(u, q) = ContextPlace(x) /\ (q.kind \in Privates => PlaceOf(u, q) = {u, q.with})
  BY <1>1 DEF PlaceOf, ContextPlace, Privates
<1>10. \A m \in around : m \in S \cap B /\ sent[m].place = PlaceOf(u, q) /\ m \in Visible(u, B)
  BY <1>1, <1>3, <1>9 DEF Visible
<1>11. \A m \in P : sent[m].place = PlaceOf(u, q) /\ m \in Visible(u, B) => m \in Kept(t)
  BY <1>1, <1>9, VisibleKept
<1>12. target \in around => target \in Kept(t)
  BY <1>4, <1>10, <1>11
<1>13. ASSUME target \in Kept(t), Around > 0, NEW m \in around \ Kept(t), At(m) # At(target)
       PROVE  \/ \E k \in Kept(t) : At(m) <= At(k) /\ At(k) < At(target)
              \/ \E k \in Kept(t) : At(m) >= At(k) /\ At(k) > At(target)
  <2>1. m \in S /\ m \in B /\ m \in Visible(u, B) /\ At(m) \in Int /\ At(target) \in Int
    BY <1>8, <1>10
  <2>2. m \notin before \cup {target} \cup after
    BY <1>4, <1>6, <1>10, <1>11, <1>13, <2>1
  <2>3. IsFiniteSet(earlier) /\ IsFiniteSet(later) /\ Around \in Nat
    BY <1>5, <1>8, FS_Subset, HistoryAssumption
  <2>4. target \in P /\ target \in B
    BY <1>1, <1>4, <1>13, KeptFromPage
  <2>5. CASE At(m) < At(target)
    <3>1. m \in earlier \ before
      BY <1>5, <2>1, <2>2, <2>5
    <3>2. Cardinality(before) = Around
      BY <1>7, <2>3, <3>1, LimitReached
    <3>3. PICK k \in before : TRUE
      <4>1. Cardinality(before) # 0
        BY <1>13, <2>3, <3>2
      <4> QED
        BY <4>1, FS_EmptySet
    <3>4. At(k) >= At(m) /\ k \in S /\ At(k) < At(target)
      BY <1>5, <1>7, <3>1 DEF Newest
    <3>5. At(m) <= At(k) /\ k \in P
      BY <1>3, <1>4, <1>6, <1>8, <2>1, <3>4
    <3>6. k \in Visible(u, B)
      <4>1. sent[k].place = sent[m].place /\ k \in B /\ k \in stored /\ m \in stored
        BY <1>3, <1>4, <2>1, <3>4, <3>5
      <4> QED
        BY <1>2, <2>1, <3>5, <4>1, VisibleLater
    <3> QED
      BY <1>3, <1>11, <3>4, <3>5, <3>6
  <2>6. CASE At(m) > At(target)
    <3>1. m \in later \ after
      BY <1>5, <2>1, <2>2, <2>6
    <3>2. Cardinality(after) = Around
      BY <1>7, <2>3, <3>1, LimitReached
    <3>3. PICK k \in after : TRUE
      <4>1. Cardinality(after) # 0
        BY <1>13, <2>3, <3>2
      <4> QED
        BY <4>1, FS_EmptySet
    <3>4. At(k) <= At(m) /\ k \in S /\ At(k) > At(target)
      BY <1>5, <1>7, <3>1 DEF Oldest
    <3>5. At(target) <= At(k) /\ At(m) >= At(k) /\ At(k) \in Int
      BY <1>8, <2>1, <3>4
    <3>6. k \in P
      BY <1>3, <1>4, <1>6, <2>4, <3>4, <3>5
    <3>7. PICK c \in Int : Kept(t) = {j \in page[t] : At(j) > c}
      BY KeptIsLater
    <3>8. At(k) > c
      BY <1>13, <2>1, <3>5, <3>4, <3>7
    <3> QED
      BY <1>1, <3>4, <3>5, <3>6, <3>7, <3>8
  <2> QED
    BY <1>13, <2>1, <2>5, <2>6
<1> QED
  BY <1>1, <1>12, <1>13

LEMMA PagesHold == TypeOK /\ ReadersInv /\ PagesInv => PagesSkipNothing
<1> SUFFICES ASSUME TypeOK, ReadersInv, PagesInv PROVE PagesSkipNothing
  OBVIOUS
<1>1. ASSUME NEW kinds, NEW t \in Responding(kinds), NEW x \in request[t]
      PROVE  t \in Reader /\ x.query.kind \in kinds
  BY <1>1 DEF Responding, ReadersInv
<1>2. HistoryIsNewest
  <2> SUFFICES ASSUME NEW t \in Responding({"history"}), NEW x \in request[t],
                      NEW m \in Visible(x.user, {n \in basis[t] : sent[n].place = x.query.room})
                                   \ Kept(t)
               PROVE  Cardinality(Kept(t)) = Limit /\ \A k \in Kept(t) : At(m) <= At(k)
    BY DEF HistoryIsNewest
  <2>1. t \in Reader /\ x.query.kind = "history"
    BY <1>1
  <2> QED
    BY <2>1, HistoryPageHolds
<1>3. ReplayNeverSkips
  <2> SUFFICES ASSUME NEW t \in Responding({"replay"}), NEW x \in request[t],
                      NEW m \in Visible(x.user, {n \in basis[t] : sent[n].place = x.query.room})
                                   \ Kept(t)
               PROVE  \/ At(m) < x.query.since
                      \/ Cardinality(page[t]) = Limit /\ \A k \in page[t] : At(k) <= At(m)
    BY DEF ReplayNeverSkips
  <2>1. t \in Reader /\ x.query.kind = "replay"
    BY <1>1
  <2> QED
    BY <2>1, ReplayPageHolds
<1>4. ContextIsNearest
  <2> SUFFICES ASSUME NEW t \in Responding({"context"}) \cup Responding({"pmcontext"}),
                      NEW x \in request[t], NEW around,
                      around = Visible(x.user,
                                  {n \in basis[t] : sent[n].place = ContextPlace(x)})
               PROVE  /\ x.query.target \in around => x.query.target \in Kept(t)
                      /\ x.query.target \in Kept(t) /\ Around > 0 => \A m \in around \ Kept(t) :
                           \/ At(m) = At(x.query.target)
                           \/ \E k \in Kept(t) : At(m) <= At(k) /\ At(k) < At(x.query.target)
                           \/ \E k \in Kept(t) : At(m) >= At(k) /\ At(k) > At(x.query.target)
    BY DEF ContextIsNearest
  <2>1. t \in Reader /\ x.query.kind \in {"context", "pmcontext"}
    BY <1>1
  <2> QED
    BY <2>1, ContextPageHolds
<1> QED
  BY <1>2, <1>3, <1>4 DEF PagesSkipNothing

\* A short page of the history is all the user may see, no page shows less
\* recent messages in place of more recent ones, a replay leaves out a message only
\* when Limit rows at least as early come first, and around a target only the
\* farther messages are left out, although the limit is applied before the markers
\* and the markers are read one after the other, however requests and clears
\* interleave.
THEOREM PagesSkipNothingCorrect == Spec => []PagesSkipNothing
<1>1. Init => TypeOK /\ ReadersInv /\ PagesInv
  BY InitTyped, InitReads, InitPages
<1>2. TypeOK /\ ReadersInv /\ PagesInv /\ [Next]_vars
         => (TypeOK /\ ReadersInv /\ PagesInv)'
  BY TypeKept, ReadsKept, PagesKept
<1>3. TypeOK /\ ReadersInv /\ PagesInv => PagesSkipNothing
  BY PagesHold
<1> QED
  BY <1>1, <1>2, <1>3, PTL DEF Spec
=============================================================================
