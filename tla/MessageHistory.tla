--------------------------- MODULE MessageHistory ---------------------------
(***************************************************************************)
(* The read side of message-service: room history, replay, search, context *)
(* and private-message history (routers/messages.py, message_service.py,   *)
(* search_service.py, message_dal.py), and the two markers by which a user *)
(* hides what is older from his own view (clear_service.py, clear_dal.py,  *)
(* pm_deletion_dal.py).                                                    *)
(*                                                                         *)
(* A message is stamped when it is sent and stored when the consumer gets  *)
(* to it (MessagePersistence), so rows appear in any order of sent_at.  A  *)
(* request is a thread that selects a page of rows and then reads the      *)
(* markers and drops what they hide: statements of different requests      *)
(* interleave.  The SELECTs that make one page are one step: rows are      *)
(* added or soft-deleted between them, never removed.  Pages are sets; all *)
(* endpoints but search return them in order of sent_at.                   *)
(***************************************************************************)
EXTENDS Integers, FiniteSets

CONSTANTS User,
          Viewer,     \* users whose requests are modelled
          Room,
          AnyRoom,    \* a search without room_id
          Message,
          Unsent,     \* value of sent for a message that does not exist yet
          Reader,     \* threads that serve GET requests
          Writer,     \* threads that serve POST /clear and /pm/delete-conversation
          Limit,      \* query parameter limit of history, replay and search
          Around,     \* query parameters before and after of the context endpoints
          Overlap,    \* whether a user may clear a conversation twice at once
          Stamp,      \* times that requests give as since and before
          MaxTime,    \* bound: the clock
          MaxDeletes, \* bound: soft deletions
          MaxMarks    \* bound: requests that set a marker

Time  == 1..MaxTime
Never == 0            \* a marker that was never set: all messages are later

\* Where a message belongs: a room, or the two users of a private conversation.
Conversation == UNION {{{u, v} : v \in User \ {u}} : u \in User}
Place        == Room \cup Conversation

\* What table messages keeps of a message, but for the deletion flag.
Row == [place : Place, at : Time]

\* Rows of user_message_clears ("clear", of a room or of the private messages
\* with a user) and of deleted_pm_conversations ("deleted").
Mark == ({"clear"} \X (Room \cup User)) \cup ({"deleted"} \X User)

Privates == {"pm", "pmcontext"}

Request == [kind : {"history"}, room : Room]
     \cup [kind : {"replay"}, room : Room, since : Stamp]
     \cup [kind : {"context"}, room : Room, target : Message]
     \cup [kind : {"search"}, room : Room \cup {AnyRoom}]
     \cup [kind : {"pm"}, with : User, before : Stamp]
     \cup [kind : {"pmcontext"}, with : User, target : Message]

ASSUME HistoryAssumption ==
    /\ Viewer \subseteq User
    /\ Room \cap User = {} /\ \A u, v \in User : {u, v} \notin Room
    /\ Unsent \notin Row /\ AnyRoom \notin Room
    /\ Limit \in Nat \ {0} /\ Around \in Nat
    /\ Overlap \in BOOLEAN
    /\ MaxTime \in Nat \ {0} /\ Stamp \subseteq Nat
    /\ MaxMarks \in Nat /\ MaxDeletes \in Nat

VARIABLES clock,     \* time of the latest message: nothing happens in between
          sent,      \* message -> its row once it is sent, or Unsent
          stored,    \* messages with a row
          deleted,   \* messages whose row has is_deleted set
          marker,    \* user -> Mark -> cleared_at or deleted_at, or Never
          writing,   \* writer -> the upserts it is in the middle of (none or one)
          request,   \* reader -> the requests it is in the middle of (none or one)
          stage,     \* reader -> what it does next
          page,      \* reader -> messages it has selected
          basis,     \* history: reader -> rows that stood when it selected them, less
                     \*          those hidden by a marker it has read since
          acked,     \* history: user -> Mark -> latest time an answered request set
          marks      \* requests that set a marker so far, for the bound

vars == <<clock, sent, stored, deleted, marker, writing, request, stage, page, basis,
          acked, marks>>

messages == <<clock, sent, stored, deleted>>
markers  == <<marker, writing, acked, marks>>
reading  == <<request, stage, page, basis>>

At(m) == sent[m].at

----------------------------------------------------------------------------
(* message_dal.py: what a SELECT may return.                               *)

\* ORDER BY sent_at DESC (ASC) LIMIT n; rows of one instant come in any order.
Newest(S, n) ==
    {T \in SUBSET S : /\ Cardinality(T) = IF Cardinality(S) < n THEN Cardinality(S) ELSE n
                      /\ \A m \in T, k \in S \ T : At(m) >= At(k)}
Oldest(S, n) ==
    {T \in SUBSET S : /\ Cardinality(T) = IF Cardinality(S) < n THEN Cardinality(S) ELSE n
                      /\ \A m \in T, k \in S \ T : At(m) <= At(k)}

InRoom(r)     == {m \in stored : sent[m].place = r}
Between(u, v) == {m \in stored : sent[m].place = {u, v}}

\* Mutant: the oldest messages of the room.
GetRoomHistoryOldest(r) == Oldest(InRoom(r), Limit)

GetRoomHistory(r) == Newest(InRoom(r), Limit)

\* Mutant: the newest messages since then.
GetByRoomSinceNewest(r, since) == Newest({m \in InRoom(r) : At(m) >= since}, Limit)

GetByRoomSince(r, since) == Oldest({m \in InRoom(r) : At(m) >= since}, Limit)

GetPmHistory(u, v, before) ==
    Oldest({m \in Between(u, v) \ deleted : At(m) < before}, Limit)

\* Ranked by relevance, which has nothing to do with time.
SearchMessages(r) ==
    LET hits == {m \in stored \ deleted :
                    IF r = AnyRoom THEN sent[m].place \in Room ELSE sent[m].place = r}
    IN  {T \in SUBSET hits :
            Cardinality(T) = IF Cardinality(hits) < Limit THEN Cardinality(hits) ELSE Limit}

\* Mutant: the messages before the target are not taken in descending order.
AroundInAscending(S, target) ==
    {before \cup {target} \cup after :
        before \in Oldest({m \in S : At(m) < At(target)}, Around),
        after  \in Oldest({m \in S : At(m) > At(target)}, Around)}

AroundIn(S, target) ==
    {before \cup {target} \cup after :
        before \in Newest({m \in S : At(m) < At(target)}, Around),
        after  \in Oldest({m \in S : At(m) > At(target)}, Around)}

GetMessagesAround(r, target)      == AroundIn(InRoom(r), target)
GetPmMessagesAround(u, v, target) == AroundIn(Between(u, v), target)

----------------------------------------------------------------------------
(* The markers of a user (clear_dal.py, pm_deletion_dal.py), and what they  *)
(* leave of a page (clear_service.py, search_service.py): what is strictly *)
(* later, or all when there is no marker.                                  *)

GetClear(u, c)               == marker[u][<<"clear", c>>]
GetAllClearsForUser(u)       == [r \in Room |-> GetClear(u, r)]
GetPmDeletionTimestamp(u, v) == marker[u][<<"deleted", v>>]

ApplyClearFilter(u, c, S)      == {m \in S : At(m) > GetClear(u, c)}
ApplyPmDeletionFilter(u, v, S) == {m \in S : At(m) > GetPmDeletionTimestamp(u, v)}

\* A search in all rooms holds each hit against the marker of its own room.
ApplySearchFilter(u, r, S) ==
    LET clears == GetAllClearsForUser(u)
    IN  IF r = AnyRoom THEN {m \in S : At(m) > clears[sent[m].place]}
        ELSE ApplyClearFilter(u, r, S)

----------------------------------------------------------------------------
Init ==
    /\ clock   = 0
    /\ sent    = [m \in Message |-> Unsent]
    /\ stored  = {}
    /\ deleted = {}
    /\ marker  = [u \in Viewer |-> [k \in Mark |-> Never]]
    /\ writing = [w \in Writer |-> {}]
    /\ request = [t \in Reader |-> {}]
    /\ stage   = [t \in Reader |-> "idle"]
    /\ page    = [t \in Reader |-> {}]
    /\ basis   = [t \in Reader |-> {}]
    /\ acked   = marker
    /\ marks   = 0

\* chat-service stamps a message; it may do so in the instant of the one before.
Send(m, row) ==
    /\ sent[m] = Unsent
    /\ row.at \in {clock, clock + 1}
    /\ sent'  = [sent EXCEPT ![m] = row]
    /\ clock' = row.at
    /\ UNCHANGED <<stored, deleted, markers, reading>>

\* create_idempotent, by the consumer.
Store(m) ==
    /\ sent[m] # Unsent
    /\ stored' = stored \cup {m}
    /\ UNCHANGED <<clock, sent, deleted, markers, reading>>

\* Mutant: a deletion that does not look for the row.
DeleteUnseen(m) ==
    /\ sent[m] # Unsent /\ Cardinality(deleted) < MaxDeletes
    /\ deleted' = deleted \cup {m}
    /\ UNCHANGED <<clock, sent, stored, markers, reading>>

\* soft_delete_message: the row stays.
Delete(m) ==
    /\ m \in stored /\ Cardinality(deleted) < MaxDeletes
    /\ deleted' = deleted \cup {m}
    /\ UNCHANGED <<clock, sent, stored, markers, reading>>

----------------------------------------------------------------------------
(* POST /clear and POST /pm/delete-conversation: upsert_clear and          *)
(* delete_conversation query the marker, take the time, and commit.        *)

Upsert == [user : Viewer, mark : Mark, exists : BOOLEAN, at : 0..MaxTime]

InProgress(u, k) == \E w \in Writer : \E x \in writing[w] : x.user = u /\ x.mark = k

StartUpsert(w, u, k) ==
    /\ marks < MaxMarks /\ marks' = marks + 1
    /\ writing[w] = {} /\ clock # Never
    /\ Overlap \/ ~InProgress(u, k)
    /\ writing' = [writing EXCEPT ![w] =
                      {[user |-> u, mark |-> k, exists |-> marker[u][k] # Never, at |-> clock]}]
    /\ UNCHANGED <<messages, marker, acked, reading>>

\* The router of each kind of marker.
ClearHistory(w, u, c)          == StartUpsert(w, u, <<"clear", c>>)
DeletePmConversation(w, u, v)  == u # v /\ StartUpsert(w, u, <<"deleted", v>>)

\* Mutant: the time of the first clear is kept.
CommitUpsertOnce(w) ==
    /\ \E x \in writing[w] :
          /\ marker' = [marker EXCEPT ![x.user][x.mark] = IF @ = Never THEN x.at ELSE @]
          /\ acked'  = [acked EXCEPT ![x.user][x.mark] = IF @ < x.at THEN x.at ELSE @]
    /\ writing' = [writing EXCEPT ![w] = {}]
    /\ UNCHANGED <<messages, marks, reading>>

\* UPDATE of the row that was found; or INSERT, which the unique constraint
\* refuses when the row has come up meanwhile: the request then fails.
CommitUpsert(w) ==
    /\ \E x \in writing[w] :
          IF x.exists \/ marker[x.user][x.mark] = Never
          THEN /\ marker' = [marker EXCEPT ![x.user][x.mark] = x.at]
               /\ acked'  = [acked EXCEPT ![x.user][x.mark] = IF @ < x.at THEN x.at ELSE @]
          ELSE UNCHANGED <<marker, acked>>
    /\ writing' = [writing EXCEPT ![w] = {}]
    /\ UNCHANGED <<messages, marks, reading>>

----------------------------------------------------------------------------
(* The GET requests.                                                       *)

\* The rows a reader gets; next come the markers.
Select(t, u, q, pages, next) ==
    /\ stage[t] = "idle"
    /\ \E S \in pages : page' = [page EXCEPT ![t] = S]
    /\ request' = [request EXCEPT ![t] = {[user |-> u, query |-> q]}]
    /\ stage'   = [stage EXCEPT ![t] = next]
    /\ basis'   = [basis EXCEPT ![t] = stored]
    /\ UNCHANGED <<messages, markers>>

GetRoomHistoryRequest(t, u, r) ==
    Select(t, u, [kind |-> "history", room |-> r], GetRoomHistory(r), "clear")

GetRoomMessages(t, u, r, since) ==
    Select(t, u, [kind |-> "replay", room |-> r, since |-> since],
           GetByRoomSince(r, since), "clear")

\* The target is looked up first; without it the request ends with 404.
GetMessageContext(t, u, r, m) ==
    /\ m \in InRoom(r)
    /\ Select(t, u, [kind |-> "context", room |-> r, target |-> m],
              GetMessagesAround(r, m), "clear")

SearchRequest(t, u, r) ==
    Select(t, u, [kind |-> "search", room |-> r], SearchMessages(r), "clear")

\* The name of the other user is resolved first (auth_client.py).
GetPmHistoryRequest(t, u, v, before) ==
    /\ u # v
    /\ Select(t, u, [kind |-> "pm", with |-> v, before |-> before],
              GetPmHistory(u, v, before), "clear")

\* The target may be any private message.  The context is that of the user and
\* the other one of the two whose message it is: its sender (one of the two), if
\* it is not the user's own.
GetPmContext(t, u, v, m) ==
    /\ m \in stored /\ sent[m].place \notin Room
    /\ v \in sent[m].place \ {u}
    /\ Select(t, u, [kind |-> "pmcontext", with |-> v, target |-> m],
              GetPmMessagesAround(u, v, m), "clear")

\* What the marker that is read next leaves of a page.
Kept(t) ==
    UNION {LET u == x.user  q == x.query  IN
           CASE stage[t] = "deletion" -> ApplyPmDeletionFilter(u, q.with, page[t])
             [] stage[t] # "deletion" /\ q.kind \in Privates
                                       -> ApplyClearFilter(u, q.with, page[t])
             [] q.kind = "search"      -> ApplySearchFilter(u, q.room, page[t])
             [] OTHER                  -> ApplyClearFilter(u, q.room, page[t])
           : x \in request[t]}

\* A page of private messages has a second marker to be read.
FilterPmPage(t) ==
    /\ stage[t] = "clear"
    /\ \E x \in request[t] :
          /\ x.query.kind \in Privates
          /\ basis' = [basis EXCEPT ![t] = ApplyClearFilter(x.user, x.query.with, @)]
    /\ page'  = [page EXCEPT ![t] = Kept(t)]
    /\ stage' = [stage EXCEPT ![t] = "deletion"]
    /\ UNCHANGED <<messages, markers, request>>

\* The last marker is read, Kept(t) gets its reactions and is sent.  (A request
\* that fails ends the same way, and sends nothing.)
Respond(t) ==
    /\ stage[t] # "idle"
    /\ stage[t] = "clear" => \A x \in request[t] : x.query.kind \notin Privates
    /\ request' = [request EXCEPT ![t] = {}]
    /\ stage'   = [stage EXCEPT ![t] = "idle"]
    /\ page'    = [page EXCEPT ![t] = {}]
    /\ basis'   = [basis EXCEPT ![t] = {}]
    /\ UNCHANGED <<messages, markers>>

----------------------------------------------------------------------------
Next ==
    \/ \E m \in Message : Store(m) \/ Delete(m) \/ \E row \in Row : Send(m, row)
    \/ \E w \in Writer : CommitUpsert(w)
    \/ \E w \in Writer, u \in Viewer :
          \/ \E c \in Room \cup (User \ {u}) : ClearHistory(w, u, c)
          \/ \E v \in User : DeletePmConversation(w, u, v)
    \/ \E t \in Reader, u \in Viewer, r \in Room :
          \/ GetRoomHistoryRequest(t, u, r)
          \/ \E since \in Stamp : GetRoomMessages(t, u, r, since)
          \/ \E m \in Message : GetMessageContext(t, u, r, m)
    \/ \E t \in Reader, u \in Viewer, r \in Room \cup {AnyRoom} : SearchRequest(t, u, r)
    \/ \E t \in Reader, u \in Viewer, v \in User :
          \/ \E before \in Stamp : GetPmHistoryRequest(t, u, v, before)
          \/ \E m \in Message : GetPmContext(t, u, v, m)
    \/ \E t \in Reader : FilterPmPage(t) \/ Respond(t)

Spec == Init /\ [][Next]_vars

----------------------------------------------------------------------------
(* Properties.                                                             *)

TypeOK ==
    /\ clock \in 0..MaxTime
    /\ sent \in [Message -> Row \cup {Unsent}]
    /\ deleted \subseteq stored /\ stored \subseteq {m \in Message : sent[m] # Unsent}
    /\ marker \in [Viewer -> [Mark -> Time \cup {Never}]]
    /\ acked  \in [Viewer -> [Mark -> Time \cup {Never}]]
    /\ writing \in [Writer -> SUBSET Upsert]
    /\ request \in [Reader -> SUBSET [user : Viewer, query : Request]]
    /\ stage \in [Reader -> {"idle", "clear", "deletion"}]
    /\ page \in [Reader -> SUBSET stored] /\ basis \in [Reader -> SUBSET stored]
    /\ marks \in 0..MaxMarks

\* The markers that hide a message from a user: of its room, or of his
\* conversation with the other one.
MarksOf(u, m) ==
    IF sent[m].place \in Room THEN {<<"clear", sent[m].place>>}
    ELSE {"clear", "deleted"} \X {v \in User : sent[m].place = {u, v}}

\* What a user may see of the rows S.
Visible(u, S) == {m \in S : \A k \in MarksOf(u, m) : At(m) > marker[u][k]}

\* "messages sent before this time are hidden from the requesting user only"
\* and "cleared/deleted history is never returned" (messages.py:101-102,
\* 161-162): once a clear has been answered, no request that reads the marker
\* afterwards shows a message it hides, whenever it selected its page.
ClearedStaysHidden ==
    \A t \in Reader : \A x \in request[t] : \A m \in Kept(t) : \A k \in MarksOf(x.user, m) :
        k[1] = (IF stage[t] = "deletion" THEN "deleted" ELSE "clear") =>
            At(m) > acked[x.user][k]

\* Readers of one kind of request whose next step is the response.
Responding(kinds) ==
    {t \in Reader : /\ \E x \in request[t] : x.query.kind \in kinds
                    /\ stage[t] = IF kinds \subseteq Privates THEN "deletion" ELSE "clear"}

\* "fetch the most recent messages in a room" (messages.py:272): a short page of
\* the history is all the user may see, and no page leaves out a message that is
\* more recent than one it shows, although the marker is applied after the limit.
HistoryIsNewest ==
    \A t \in Responding({"history"}) : \A x \in request[t] :
        \A m \in Visible(x.user, {n \in basis[t] : sent[n].place = x.query.room}) \ Kept(t) :
            /\ Cardinality(Kept(t)) = Limit
            /\ \A k \in Kept(t) : At(m) <= At(k)

\* "provides the timestamp of the last message it received, and gets everything it
\* missed" (messages.py:249-250): a replay leaves out a message only when Limit
\* rows at least as early come first, so a client that goes on from the last one
\* loses nothing.  (When the marker hides all of them the answer is empty, and
\* the client has nothing to go on from.)
ReplayNeverSkips ==
    \A t \in Responding({"replay"}) : \A x \in request[t] :
        \A m \in Visible(x.user, {n \in basis[t] : sent[n].place = x.query.room}) \ Kept(t) :
            \/ At(m) < x.query.since
            \/ Cardinality(page[t]) = Limit /\ \A k \in page[t] : At(k) <= At(m)

\* The place whose messages a context is made of.
ContextPlace(x) == IF x.query.kind = "context" THEN x.query.room ELSE {x.user, x.query.with}

\* "Returns up to before messages before and after messages after the target"
\* (message_service.py:88-90): a target the user may see is returned, and around
\* one that is returned, whoever its two users are, a message that was left out has
\* a neighbour nearer to the target in its place, or the target's own time.
ContextIsNearest ==
    \A t \in Responding({"context"}) \cup Responding({"pmcontext"}) : \A x \in request[t] :
        LET target == x.query.target
            around == Visible(x.user, {n \in basis[t] : sent[n].place = ContextPlace(x)})
        IN  /\ target \in around => target \in Kept(t)
            /\ target \in Kept(t) /\ Around > 0 => \A m \in around \ Kept(t) :
                  \/ At(m) = At(target)
                  \/ \E k \in Kept(t) : At(m) <= At(k) /\ At(k) < At(target)
                  \/ \E k \in Kept(t) : At(m) >= At(k) /\ At(k) > At(target)

\* The limit, applied before the marker in some queries and around a target in
\* others, leaves no hole that going on from the page would not fill.
PagesSkipNothing == HistoryIsNewest /\ ReplayNeverSkips /\ ContextIsNearest
=============================================================================
