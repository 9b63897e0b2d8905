------------------------------ MODULE LinkPreview ------------------------------
(***************************************************************************)
(* Link previews in message-service (routers/messages.py,                  *)
(* preview_service.py, url_preview_service.py, redis_client.py): look in   *)
(* Redis, resolve the name, fetch the page from the address that was       *)
(* resolved, parse its head, and cache what came of it.  A request is a    *)
(* coroutine; requests interleave between these.  What the DNS and the     *)
(* site answer is anything, and may be something else every time.          *)
(*                                                                         *)
(* A page is the sequence of what the HTML parser reports of it.  og:image *)
(* is left out: it is taken as it comes and competes with nothing.         *)
(***************************************************************************)
EXTENDS Integers, FiniteSets, SequencesExt

CONSTANTS Url,
          Address,
          Blocked,   \* addresses in _BLOCKED_NETWORKS
          Blank,     \* the empty string
          Text,      \* other strings
          Page,      \* pages that sites serve
          Miss,      \* no preview
          Request    \* threads that serve GET /preview

ASSUME LinkPreviewAssumption ==
    /\ Blocked \subseteq Address
    /\ Blank \notin Text

MetaTag == {"og:title", "og:description", "description"}

\* Callbacks of the parser: start tags, character data and the end of a title.
Event == [kind : {"title", "end title", "body"}]
    \cup [kind : {"data"} \cup MetaTag, text : Text \cup {Blank}]

ASSUME PageAssumption == Page \subseteq Seq(Event)

Preview == [title : Text \cup {Blank}, description : Text \cup {Blank}]

VARIABLES cache,   \* Redis: url -> preview, Miss, or none (a set of none or one)
          stage,   \* request -> what it does next
          wanted,  \* request -> the url it was asked for (none or one)
          address, \* request -> the address it connects to (none or one)
          result,  \* request -> what it is about to cache and to answer (none or one)
          page     \* request -> the page that it has just parsed (none or one)

previewVars == <<cache, stage, wanted, address, result, page>>

----------------------------------------------------------------------------
(* MetadataParser.                                                         *)

NewParser == [title |-> Blank, description |-> Blank, inTitle |-> FALSE, done |-> FALSE]

StartTag(s, e) ==
    CASE e.kind = "title"          -> [s EXCEPT !.inTitle = TRUE]
      [] e.kind = "body"           -> [s EXCEPT !.done = TRUE]
      [] e.kind = "og:title"       -> [s EXCEPT !.title = e.text]
      [] e.kind = "og:description" -> [s EXCEPT !.description = e.text]
      [] e.kind = "description"    -> IF s.description = Blank
                                      THEN [s EXCEPT !.description = e.text] ELSE s

\* Mutant: the text of the title replaces what og:title said.
HandleDataAlways(s, e) == IF s.inTitle THEN [s EXCEPT !.title = e.text] ELSE s

HandleData(s, e) == IF s.inTitle /\ s.title = Blank THEN [s EXCEPT !.title = e.text] ELSE s

HandleEvent(s, e) ==
    CASE e.kind = "data"      -> HandleData(s, e)
      [] e.kind = "end title" -> [s EXCEPT !.inTitle = FALSE]
      [] OTHER                -> IF s.done THEN s ELSE StartTag(s, e)

\* What fetch_preview makes of a page.
Parse(q) ==
    LET s == FoldLeft(HandleEvent, NewParser, q)
    IN  IF s.title = Blank /\ s.description = Blank THEN Miss
        ELSE [title |-> s.title, description |-> s.description]

----------------------------------------------------------------------------
PreviewInit ==
    /\ cache   = [u \in Url |-> {}]
    /\ stage   = [r \in Request |-> "idle"]
    /\ wanted  = [r \in Request |-> {}]
    /\ address = [r \in Request |-> {}]
    /\ result  = [r \in Request |-> {}]
    /\ page    = [r \in Request |-> {}]

Goto(r, s) == stage' = [stage EXCEPT ![r] = s]

\* GET /preview of a url that is not in Redis, or when Redis does not answer.
GetLinkPreview(r, u) ==
    /\ stage[r] = "idle" /\ Goto(r, "resolve")
    /\ wanted' = [wanted EXCEPT ![r] = {u}]
    /\ UNCHANGED <<cache, address, result, page>>

\* GET /preview of a url that is in Redis: the answer is what is there.
GetCachedPreview(r, u) ==
    /\ stage[r] = "idle" /\ cache[u] # {} /\ Goto(r, "answer")
    /\ wanted' = [wanted EXCEPT ![r] = {u}]
    /\ result' = [result EXCEPT ![r] = cache[u]]
    /\ UNCHANGED <<cache, address, page>>

\* The name has the addresses A; none may be blocked, and one of them is kept.
ResolveSafeIp(r) ==
    /\ stage[r] = "resolve"
    /\ \E A \in SUBSET Address :
          IF A = {} \/ A \cap Blocked # {}
          THEN /\ Goto(r, "store")
               /\ result' = [result EXCEPT ![r] = {Miss}]
               /\ UNCHANGED address
          ELSE /\ Goto(r, "fetch")
               /\ \E a \in A : address' = [address EXCEPT ![r] = {a}]
               /\ UNCHANGED result
    /\ UNCHANGED <<cache, wanted, page>>

\* Mutant: the connection is made by name, which is resolved again.
BuildConnectionUrlByName(r) ==
    /\ stage[r] = "fetch" /\ Goto(r, "connected")
    /\ \E a \in Address : address' = [address EXCEPT ![r] = {a}]
    /\ UNCHANGED <<cache, wanted, result, page>>

BuildConnectionUrl(r) ==
    /\ stage[r] = "fetch" /\ Goto(r, "connected")
    /\ UNCHANGED <<cache, wanted, address, result, page>>

\* The page, which is parsed; or a redirect, an error or a timeout.
FetchHtml(r) ==
    /\ stage[r] = "connected" /\ Goto(r, "store")
    /\ \/ \E q \in Page : /\ page'   = [page EXCEPT ![r] = {q}]
                          /\ result' = [result EXCEPT ![r] = {Parse(q)}]
       \/ result' = [result EXCEPT ![r] = {Miss}] /\ UNCHANGED page
    /\ UNCHANGED <<cache, wanted, address>>

\* SETEX, or Redis fails, which is ignored.
CachePreview(r) ==
    /\ stage[r] = "store" /\ Goto(r, "answer")
    /\ \E u \in wanted[r] : cache' \in {cache, [cache EXCEPT ![u] = result[r]]}
    /\ page' = [page EXCEPT ![r] = {}]
    /\ UNCHANGED <<wanted, address, result>>

Answer(r) ==
    /\ stage[r] = "answer" /\ Goto(r, "idle")
    /\ wanted'  = [wanted EXCEPT ![r] = {}]
    /\ address' = [address EXCEPT ![r] = {}]
    /\ result'  = [result EXCEPT ![r] = {}]
    /\ UNCHANGED <<cache, page>>

\* CACHE_TTL or NEGATIVE_CACHE_TTL is over.
Expire(u) ==
    /\ cache' = [cache EXCEPT ![u] = {}]
    /\ UNCHANGED <<stage, wanted, address, result, page>>

PreviewTypeOK ==
    /\ cache \in [Url -> SUBSET (Preview \cup {Miss})]
    /\ stage \in [Request -> {"idle", "resolve", "fetch", "connected", "store", "answer"}]
    /\ wanted \in [Request -> SUBSET Url] /\ address \in [Request -> SUBSET Address]
    /\ result \in [Request -> SUBSET (Preview \cup {Miss})]
    /\ page \in [Request -> SUBSET Page]
    /\ \A r \in Request : Cardinality(wanted[r]) = IF stage[r] = "idle" THEN 0 ELSE 1

\* The page is fetched from an address that the check of the network ranges has
\* passed, although the name may resolve to another one by then.
PinnedAddress ==
    \A r \in Request : stage[r] = "connected" => address[r] # {} /\ address[r] \cap Blocked = {}

\* What a page says of itself, wherever in the head it says it: the last og: tag
\* before the first title and the first plain description, and nothing that comes
\* after <body>.
InHead(q)  == {i \in DOMAIN q : \A j \in 1..i : q[j].kind # "body"}
Tags(q, k) == {i \in InHead(q) : q[i].kind = k}
Titles(q)  == {i \in Tags(q, "data") : i > 1 /\ q[i - 1].kind = "title"}

\* The text of the last event of I, or of the first of J if there is none.
LastOr(q, I, J) ==
    IF I # {} THEN q[Max(I)].text ELSE IF J # {} THEN q[Min(J)].text ELSE Blank

Deserved(q) ==
    LET title       == LastOr(q, Tags(q, "og:title"), Titles(q))
        description == LastOr(q, Tags(q, "og:description"), Tags(q, "description"))
    IN  IF title = Blank /\ description = Blank THEN Miss
        ELSE [title |-> title, description |-> description]

\* The parser, which sees one tag at a time, finds what the page says.
ParserFindsMetadata ==
    \A r \in Request : \A q \in page[r] : result[r] = {Deserved(q)}

=============================================================================
