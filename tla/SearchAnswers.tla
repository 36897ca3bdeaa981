--------------------------- MODULE SearchAnswers ---------------------------
(***************************************************************************)
(* Asking the mailbox: a search or digest from the keystroke to the answer *)
(* on the screen, its citations, and the rail of related messages.         *)
(*   - src/app/components/VibeMailApp.tsx   debounce, loadFirstPage, the   *)
(*     reader and the related effect                                       *)
(*   - src/app/lib/data-source.ts           fetchSemanticSearch and others *)
(*   - src/src/routes/messages/semantic.ts, digest.ts, related.ts          *)
(*   - src/src/memory/answerFromMessages.ts, digest.ts, src/src/reason     *)
(*   - src/app/lib/demo-store.ts            the same promises, in memory   *)
(* What retrieval computes is in Retrieval.  Paging and polling of the     *)
(* list are the subject of MailList; here a page holds every hit.          *)
(***************************************************************************)
EXTENDS Retrieval

CONSTANTS
  Apis,         \* which APIs answer: "server", "demo"
  Initial,      \* statuses the rows may start with
  Touched,      \* messages that are moved to and from the trash
  Citations,    \* sets of numbers the model may cite
  Attempts,     \* RETRY_ATTEMPTS (3)
  MaxRequests,  \* bound: reqIdRef stays at or below it
  MaxOpens,     \* bound: messages opened or closed
  MaxEvents     \* bound: moves and failed requests together

ASSUME SearchAssumption ==
  /\ Apis \subseteq {"server", "demo"}
  /\ Initial \subseteq [Messages -> Statuses] /\ Touched \subseteq Mine
  /\ Citations \subseteq SUBSET Nat
  /\ {"off", "blank"} \cap Queries = {}
  /\ Attempts \in Nat \ {0}
  /\ {MaxRequests, MaxOpens, MaxEvents} \subseteq Nat

VARIABLES
  api,
  status,      \* of each row in the database
  query,       \* the search text, "blank", or "off" outside search mode
  digestMode,
  timer,       \* the debounce timer is running
  reqId, loading, error,
  messages,    \* the list, as message ids
  searchAnswer, searchNotice,
  requests,    \* first pages asked for and not received
  selectedId,  \* the open message, or Nobody
  related,     \* the rail
  rails,       \* related requests: of which message, and not cancelled
  opens, events,
  seen         \* history: what the reasoner read for the answer on the screen

Nobody == 0

page   == <<reqId, loading, error, messages, searchAnswer, searchNotice, seen>>
reader == <<selectedId, related, rails>>
vars   == <<api, status, query, digestMode, timer, page, requests, reader, opens, events>>

Kind(q, digest) ==
  IF q = "off" THEN "folder" ELSE IF digest THEN "digest"
  ELSE IF NeedsReasoning(q) THEN "semantic" ELSE "search"

-----------------------------------------------------------------------------
(* A request goes from "sent" through "reasoning" to "answered"; `kind`    *)
(* changes when the client falls back to the keyword search.               *)

Request(id, kind, q) ==
  [id |-> id, kind |-> kind, query |-> q, stage |-> "sent", hits |-> <<>>,
   tries |-> 0, text |-> NoText, unavailable |-> FALSE]

Stages == {"sent", "reasoning", "answered", "failed"}

Becomes(r, s) == requests' = (requests \ {r}) \cup {s}

Answered(r, hits, text, unavailable) ==
  [r EXCEPT !.stage = "answered", !.hits = hits, !.text = text, !.unavailable = unavailable]

(* GET /messages/search. *)
SearchHandler(r) == Becomes(r, Answered(r, SearchMessages(r.query, status), NoText, FALSE))

(* GET /messages/semantic before the model is asked. *)
SemanticHandler(r) ==
  \E rare \in RareHits(r.query, status) :
    LET merged == MergeRetrieval(rare, SearchByMeaning(r.query, status), MatchCount)
    IN Becomes(r, IF merged = <<>>
                  THEN Answered(r, SearchByKeyword(r.query, status), NoText, FALSE)
                  ELSE [r EXCEPT !.stage = "reasoning", !.hits = merged])

(* GET /messages/digest before the model is asked. *)
DigestHandler(r) ==
  LET hits == MessagesForDigest(r.query, status)
  IN Becomes(r, IF hits = <<>> THEN Answered(r, <<>>, NoText, FALSE)
                ELSE [r EXCEPT !.stage = "reasoning", !.hits = hits])

Folder == Read(NewestFirst({m \in Mine : status[m] = "inbox"}), status)

(* The sample mailbox answers at once. *)
DemoFetch(r) ==
  LET hits  == DemoSemanticHits(r.query, status)
      wide  == Take(hits, 12)
      eight == Take(hits, 8)
      found == Without(SearchMessages(r.query, status), {"trash"})
  IN CASE r.kind = "search" -> Answered(r, found, NoText, FALSE)
       [] r.kind = "digest" ->
            Answered(r, wide, IF wide = <<>> THEN NoText ELSE DemoDigest(wide), FALSE)
       [] OTHER -> IF eight = <<>> THEN Answered(r, found, NoText, FALSE)
                   ELSE Answered(r, eight, DemoAnswer(eight), FALSE)

Serve(r) ==
  /\ r.stage = "sent"
  /\ \/ r.kind = "folder" /\ Becomes(r, Answered(r, Folder, NoText, FALSE))
     \/ r.kind # "folder" /\ api = "demo" /\ Becomes(r, DemoFetch(r))
     \/ api = "server" /\ r.kind = "search" /\ SearchHandler(r)
     \/ api = "server" /\ r.kind = "digest" /\ DigestHandler(r)
     \/ api = "server" /\ r.kind = "semantic" /\ SemanticHandler(r)
  /\ UNCHANGED <<api, status, query, digestMode, timer, page, reader, opens, events>>

(* A query of the database or the embedding fails: the route answers 5xx.  *)
ServeFails(r) ==
  /\ api = "server" /\ r.stage = "sent" /\ events < MaxEvents
  /\ Becomes(r, [r EXCEPT !.stage = "failed"])
  /\ events' = events + 1
  /\ UNCHANGED <<api, status, query, digestMode, timer, page, reader, opens>>

(* reason() answered or gave up; what the two routes make of it. *)
AnswerFromMessages(r, text) ==
  Answered(r, r.hits, ConstrainCitedNames(text, r.hits), text = NoText)

DigestFromMessages(r, text) ==
  LET grounded == ConstrainCitedNames(text, r.hits)
  IN Answered(r, r.hits, IF grounded = NoText THEN FallbackDigest(r.hits) ELSE grounded,
              text = NoText)

Grounded(r, text) ==
  IF r.kind = "digest" THEN DigestFromMessages(r, text) ELSE AnswerFromMessages(r, text)

(* The model writes something, citing what it likes; no text at all, or    *)
(* any error but the quota, is given up at once.                           *)
GenerateContent(r) ==
  /\ r.stage = "reasoning"
  /\ \E cites \in Citations, words \in BOOLEAN :
       Becomes(r, Grounded(r, [cites |-> cites, words |-> words]))
  /\ UNCHANGED <<api, status, query, digestMode, timer, page, reader, opens, events>>

(* A defect: the count of attempts starts over instead of ending. *)
QuotaError_Forever(r) ==
  /\ r.stage = "reasoning"
  /\ Becomes(r, [r EXCEPT !.tries = (@ + 1) % Attempts])
  /\ UNCHANGED <<api, status, query, digestMode, timer, page, reader, opens, events>>

(* 429: asked again, and given up after the last attempt. *)
QuotaError(r) ==
  /\ r.stage = "reasoning"
  /\ Becomes(r, IF r.tries + 1 < Attempts THEN [r EXCEPT !.tries = @ + 1]
                ELSE Grounded(r, NoText))
  /\ UNCHANGED <<api, status, query, digestMode, timer, page, reader, opens, events>>

-----------------------------------------------------------------------------
(* The client. *)

(* The related effect runs when the open message changes: the request for  *)
(* the previous one is cancelled, the rail emptied, its own rail asked for.*)
Selected(ms, id) == IF id \in Range(ms) THEN id ELSE Nobody

(* A defect: the effect has no cleanup. *)
RelatedEffect_NotCancelled ==
  LET now == Selected(messages', selectedId')
  IN IF now = Selected(messages, selectedId) THEN UNCHANGED <<related, rails>>
     ELSE /\ related' = <<>>
          /\ rails' = rails \cup {[of |-> m, live |-> TRUE] : m \in {now} \ {Nobody}}

RelatedEffect ==
  LET now == Selected(messages', selectedId')
  IN IF now = Selected(messages, selectedId) THEN UNCHANGED <<related, rails>>
     ELSE /\ related' = <<>>
          /\ rails' = {[x EXCEPT !.live = FALSE] : x \in rails}
                      \cup {[of |-> m, live |-> TRUE] : m \in {now} \ {Nobody}}

ShowNothing == searchAnswer' = NoText /\ searchNotice' = FALSE /\ seen' = <<>>

(* loadFirstPage for the view (q, digest): the old rows stay until it is   *)
(* answered, the answer does not.                                          *)
LoadFirstPage(q, digest) ==
  /\ reqId' = reqId + 1
  /\ loading' = TRUE /\ error' = FALSE
  /\ ShowNothing
  /\ requests' = requests \cup {Request(reqId + 1, Kind(q, digest), q)}
  /\ UNCHANGED messages

(* The search effect: nothing to search empties the view, a text waits for *)
(* the keystrokes to settle.                                               *)
SearchEffect(q) ==
  IF q = "blank"
  THEN /\ reqId' = reqId + 1
       /\ timer' = FALSE /\ loading' = FALSE /\ error' = FALSE
       /\ messages' = <<>>
       /\ ShowNothing
  ELSE timer' = TRUE /\ UNCHANGED page

(* A keystroke; search mode is entered with the text still empty. *)
Type(q) ==
  /\ reqId < MaxRequests
  /\ q # query /\ (query = "off" => q = "blank")
  /\ query' = q
  /\ SearchEffect(q)
  /\ UNCHANGED selectedId /\ RelatedEffect
  /\ UNCHANGED <<api, status, digestMode, requests, opens, events>>

ToggleDigest ==
  /\ reqId < MaxRequests
  /\ digestMode' = ~digestMode
  /\ query' = IF query = "off" THEN "blank" ELSE query
  /\ SearchEffect(query')
  /\ UNCHANGED selectedId /\ RelatedEffect
  /\ UNCHANGED <<api, status, requests, opens, events>>

Debounced ==
  /\ timer
  /\ timer' = FALSE
  /\ LoadFirstPage(query, digestMode)
  /\ UNCHANGED <<api, status, query, digestMode, reader, opens, events>>

LeaveSearch ==
  /\ reqId < MaxRequests /\ query # "off"
  /\ query' = "off" /\ digestMode' = FALSE /\ timer' = FALSE
  /\ LoadFirstPage("off", FALSE)

ClearSearch ==
  /\ LeaveSearch
  /\ UNCHANGED <<api, status, reader, opens, events>>

SelectFolder ==
  /\ LeaveSearch
  /\ selectedId' = Nobody /\ RelatedEffect
  /\ UNCHANGED <<api, status, opens, events>>

(* The rows a fetch keeps of those the server sent. *)
Kept(r) == Without(r.hits, CASE r.kind = "folder" -> {}
                             [] r.kind = "digest" -> {"trash", "draft"}
                             [] OTHER             -> {"trash"})

(* A defect: an empty answer to a question is final. *)
NeedsKeyword_Never(r) == FALSE

NeedsKeyword(r) == r.stage = "answered" /\ r.kind = "semantic" /\ Kept(r) = <<>>

(* fetchSemanticSearch: nothing by meaning is left, so by keyword.         *)
FetchByKeyword(r) ==
  /\ NeedsKeyword(r)
  /\ Becomes(r, Request(r.id, "search", r.query))
  /\ UNCHANGED <<api, status, query, digestMode, timer, page, reader, opens, events>>

Show(r) ==
  /\ loading' = FALSE
  /\ messages' = Ids(Kept(r))
  /\ searchAnswer' = r.text
  /\ seen' = IF r.text = NoText THEN <<>> ELSE Ids(r.hits)
  /\ searchNotice' = (/\ r.kind # "digest" /\ r.text = NoText
                     /\ r.unavailable /\ Kept(r) # <<>>)
  /\ UNCHANGED <<reqId, error>>

ShowError ==
  /\ loading' = FALSE /\ error' = TRUE
  /\ messages' = <<>>
  /\ ShowNothing
  /\ UNCHANGED reqId

(* A defect: an answer that was overtaken is shown all the same. *)
Current_Always(r) == TRUE

Current(r) == r.id = reqId

Receive(r) ==
  /\ r.stage \in {"answered", "failed"} /\ ~NeedsKeyword(r)
  /\ requests' = requests \ {r}
  /\ IF ~Current(r) THEN UNCHANGED page
     ELSE IF r.stage = "failed" THEN ShowError ELSE Show(r)
  /\ UNCHANGED selectedId /\ RelatedEffect
  /\ UNCHANGED <<api, status, query, digestMode, timer, opens, events>>

(* A defect: a message that is listed already is put on top again. *)
KeptInMessages_Always(m) == <<m>> \o messages

KeptInMessages(m) == IF m \in Range(messages) THEN messages ELSE <<m>> \o messages

(* A click on a row, a citation or a related message.  A draft opens the   *)
(* compose drawer, the open message closes, and a message from outside the *)
(* list is put on top of it.                                               *)
OpenMessage(m) ==
  /\ opens < MaxOpens
  /\ status[m] # "draft"
  /\ opens' = opens + 1
  /\ IF m = selectedId THEN selectedId' = Nobody /\ UNCHANGED messages
     ELSE selectedId' = m /\ messages' = KeptInMessages(m)
  /\ RelatedEffect
  /\ UNCHANGED <<api, status, query, digestMode, timer, reqId, loading, error,
                 searchAnswer, searchNotice, seen, requests, events>>

(* What [n] leads to: the n-th row of the list, or nothing. *)
SourceOf(n) == IF n \in DOMAIN messages THEN messages[n] ELSE Nobody

OpenListed   == \E m \in Range(messages) : OpenMessage(m)
OpenRelated  == \E m \in Range(related) : OpenMessage(m)
OpenCitation == \E n \in searchAnswer.cites : SourceOf(n) # Nobody /\ OpenMessage(SourceOf(n))

(* GET /messages/:id/related, and what the client keeps of it. *)
RelatedHandler(m) ==
  IF api = "demo" THEN DemoRelated(m, status) ELSE RelatedMessages(m, status)

FetchRelated(m) ==
  LET hits == RelatedHandler(m)
  IN Ids(At(hits, {i \in DOMAIN hits : hits[i].status # "trash" /\ hits[i].id # m}))

(* fetchRelated is answered, or fails and leaves the rail empty. *)
RelatedArrives(x) ==
  /\ rails' = rails \ {x}
  /\ IF x.live THEN related' \in {FetchRelated(x.of), <<>>} ELSE UNCHANGED related
  /\ UNCHANGED <<api, status, query, digestMode, timer, page, requests, selectedId, opens, events>>

(* To the trash and back: by this user's actions, in Gmail, in another tab.*)
Move(m) ==
  /\ events < MaxEvents /\ status[m] # "draft"
  /\ status' = [status EXCEPT ![m] = IF @ = "trash" THEN "inbox" ELSE "trash"]
  /\ events' = events + 1
  /\ UNCHANGED <<api, query, digestMode, timer, page, requests, reader, opens>>

-----------------------------------------------------------------------------
Init ==
  /\ api \in Apis /\ status \in Initial
  /\ query = "off" /\ digestMode = FALSE /\ timer = FALSE
  /\ reqId = 0 /\ loading = FALSE /\ error = FALSE
  /\ messages = Ids(Folder)
  /\ searchAnswer = NoText /\ searchNotice = FALSE /\ seen = <<>>
  /\ requests = {}
  /\ selectedId = Nobody /\ related = <<>> /\ rails = {}
  /\ opens = 0 /\ events = 0

Reason(r) == GenerateContent(r) \/ QuotaError(r)

Loads == \E r \in requests : Serve(r) \/ Reason(r) \/ FetchByKeyword(r) \/ Receive(r)

Next ==
  \/ \E q \in Queries \cup {"blank"} : Type(q)
  \/ ToggleDigest \/ Debounced \/ ClearSearch \/ SelectFolder
  \/ Loads
  \/ \E r \in requests : ServeFails(r)
  \/ OpenCitation \/ OpenRelated \/ OpenListed
  \/ \E x \in rails : RelatedArrives(x)
  \/ \E m \in Touched : Move(m)

Fairness == WF_vars(Debounced) /\ WF_vars(Loads)

Spec == Init /\ [][Next]_vars /\ Fairness

-----------------------------------------------------------------------------
(* Every variable has its type; no message is listed twice, in the list or *)
(* in the rail.                                                            *)
TypeOK ==
  /\ api \in Apis /\ status \in [Messages -> Statuses]
  /\ query \in Queries \cup {"off", "blank"}
  /\ {digestMode, timer, loading, error, searchNotice} \subseteq BOOLEAN
  /\ reqId \in 0..MaxRequests /\ opens \in 0..MaxOpens /\ events \in 0..MaxEvents
  /\ IsInjective(messages) /\ IsInjective(related)
  /\ Range(messages) \cup Range(related) \subseteq Mine
  /\ searchAnswer \in [cites : SUBSET Nat, words : BOOLEAN]
  /\ selectedId \in Mine \cup {Nobody}
  /\ rails \subseteq [of : Mine, live : BOOLEAN]
  /\ \A r \in requests : /\ r.id \in 1..reqId /\ r.stage \in Stages
                         /\ r.tries \in 0 .. Attempts - 1
                         /\ r.stage = "reasoning" =>
                              Len(r.hits) \in 1 .. IF r.kind = "digest" THEN DigestCount ELSE MatchCount

(* Once typing has settled, an answer on the screen is about the query in  *)
(* the search field and of the kind its heading says, whatever requests    *)
(* overtook one another: the reasoner read at least one message, only the  *)
(* user's own, each near the query or (in an answer) holding a rare word   *)
(* of it, and the text cites only numbers it read.                         *)
AnswerOfQuery ==
  searchAnswer # NoText /\ ~timer =>
    /\ query \in (IF digestMode THEN Queries ELSE Questions)
    /\ seen # <<>> /\ Range(seen) \subseteq Mine
    /\ searchAnswer.cites \subseteq DOMAIN seen
    /\ \A m \in Range(seen) :
         IF api = "demo" THEN m \in Range(Overlap[query])
         ELSE \/ Clears(m, QueryDistance[query])
              \/ ~digestMode /\ \E c \in RareRows[query] : c[1] = m

(* A settled search without an error lists the mail that contains the      *)
(* query: all of it for a lookup, something for a question, be the index   *)
(* empty, the model out of quota or every near message in the trash.       *)
SearchFinds ==
  \A m \in Mine \ Touched :
    /\ query \in Queries /\ ~digestMode /\ ~timer /\ ~loading /\ ~error
    /\ status[m] # "trash" /\ m \in WholeHits[query]
    => IF query \in Lookups THEN m \in Range(messages) ELSE messages # <<>>

(* The rail shows neighbours of the message that is open now: own mail,    *)
(* other threads, near its first chunk; and nothing when none is open.     *)
RelatedOfOpen ==
  \A m \in Range(related) :
    /\ selectedId \in Range(messages)
    /\ m \in Mine /\ ThreadOf[m] # ThreadOf[selectedId]
    /\ IF api = "demo" THEN m \in Range(DemoNear[selectedId])
       ELSE Clears(m, ChunkDistance[selectedId])

Resolves == \A n \in searchAnswer.cites : SourceOf(n) = seen[n]

(* When the brief asked for comes up, every [n] in it leads to the message *)
(* the reasoner had as number n: what the client drops from a page, the    *)
(* server had already dropped.                                             *)
BriefResolves ==
  [][searchAnswer' # searchAnswer /\ searchAnswer' # NoText /\ digestMode /\ ~timer
     => Resolves']_vars

(* A search that was typed ends with rows, an empty list or an error.      *)
SearchEnds == (timer \/ loading) ~> (~timer /\ ~loading)

(* "[n] citation marks so the UI can link each cite to a retrieved         *)
(* message" (search-answer.ts): as long as an answer is shown, its [n]     *)
(* leads to the message the reasoner had as number n.                      *)
CitesResolve == searchAnswer # NoText => Resolves

(* "If nothing clears it, fall back to keyword search and never attach an  *)
(* answer" (semantic.ts): an answer has a message above the floor.         *)
NearAnswers ==
  searchAnswer # NoText /\ ~timer /\ api = "server" =>
    \E m \in Range(seen) : Clears(m, QueryDistance[query])

-----------------------------------------------------------------------------
(* What makes the invariants inductive.                                    *)

(* Hits of different messages of this user. *)
OwnHits(hits) ==
  hits \in Seq(Hit) /\ IsInjective(Ids(hits)) /\ Range(Ids(hits)) \subseteq Mine

Kinds == {"folder", "digest", "semantic", "search"}

RequestTyped(r) ==
  /\ r \in [id : Nat, kind : Kinds, query : Queries \cup {"off"}, stage : Stages,
           hits : Seq(Hit), tries : Nat, text : Text, unavailable : BOOLEAN]
  /\ OwnHits(r.hits)
  /\ r.kind # "folder" => r.query \in Queries
  /\ r.kind = "semantic" => r.query \in Questions

(* The newest request is for what is in the search field.                  *)
RequestFit(r) ==
  r.id = reqId =>
    /\ r.query = query
    /\ r.kind = Kind(query, digestMode)
       \/ (r.kind = "search" /\ Kind(query, digestMode) = "semantic")

(* Why a message is among those a reasoner reads. *)
Relevant(kind, q, m) ==
  IF api = "demo" THEN m \in Range(Overlap[q])
  ELSE \/ Clears(m, QueryDistance[q])
       \/ kind = "semantic" /\ \E c \in RareRows[q] : c[1] = m

(* What the reasoner reads, or has read where there is a text.             *)
AnswerFit(r) ==
  /\ r.stage = "sent" => r.text = NoText
  /\ r.stage = "reasoning" => api = "server"
  /\ r.stage = "reasoning" \/ r.text # NoText =>
       /\ r.kind \in {"digest", "semantic"} /\ r.hits # <<>>
       /\ \A h \in Range(r.hits) :
            /\ Relevant(r.kind, r.query, h.id)
            /\ r.kind = "digest" => h.status \notin {"trash", "draft"}
  /\ r.text.cites \subseteq DOMAIN r.hits

(* A keyword search has found what contains the query. *)
KeywordFit(r) ==
  r.stage = "answered" /\ r.kind = "search" =>
    \A m \in (Mine \cap WholeHits[r.query]) \ Touched :
      status[m] # "trash" => [id |-> m, status |-> status[m]] \in Range(r.hits)

(* A running timer has a text to search for; without one, the requests fit *)
(* the search field.                                                       *)
RequestsFit ==
  /\ timer => query \in Queries /\ reqId < MaxRequests
  /\ \A r \in requests : /\ RequestTyped(r) /\ AnswerFit(r) /\ KeywordFit(r)
                         /\ ~timer => RequestFit(r)

(* The rail and the requests for it belong to the message that is open.    *)
RailsFit ==
  /\ messages \in Seq(Mine) /\ related \in Seq(Mine)
  /\ related # <<>> => selectedId \in Range(messages)
  /\ \A x \in rails : x.live => x.of = Selected(messages, selectedId)
=============================================================================
