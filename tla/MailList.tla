------------------------------ MODULE MailList ------------------------------
(***************************************************************************)
(* The message list of the mail client and everything that fills it:       *)
(*   - src/app/components/VibeMailApp.tsx  first page, load more, auto     *)
(*     sync, poll, reconciliation, search with its debounce                *)
(*   - src/app/lib/data-source.ts          folder and search pages         *)
(*   - src/src/routes/messages/collection.ts, search.ts  keyset cursors    *)
(*   - src/src/sync/index.ts               runBackfill, call after call    *)
(*                                                                         *)
(* A message is its position in the order of the list routes (created_at,  *)
(* then gmail_id): a larger number is a newer message, and a cursor is the *)
(* number of the row it was made from. A request and the answer the server *)
(* gives to it are one step, taken at any time after the request was sent. *)
(***************************************************************************)
EXTENDS Naturals, Sequences, FiniteSets, FiniteSetsExt, SequencesExt

CONSTANTS
  MaxRow,       \* bound: messages are 1..MaxRow
  First,        \* messages 1..First exist at the start, the others arrive
  Seed,         \* the newest Seed of them have been synced
  Archived,     \* messages that are not in the inbox
  Starred,      \* messages of the folder "starred"
  Found,        \* messages the keyword search finds
  Meant,        \* messages retrieval by meaning finds
  Lookups,      \* queries that go to the keyword search
  Questions,    \* queries answered by retrieval, on one page
  PageSize,     \* limit of a page (50)
  BatchSize,    \* BACKFILL_BATCH (100)
  Unknown,      \* no count of the inbox has been received
  DefaultMax,   \* BACKFILL_MAX (500)
  Ceiling,      \* BACKFILL_MAX_CEILING (5000)
  MaxRequests,  \* bound: reqIdRef stays at or below it
  MaxEvents     \* bound: arrivals, messages archived elsewhere and failed requests together

Rows    == 1..MaxRow
Folders == {"all", "starred"}
Views   == Folders \cup Lookups \cup Questions \cup {"blank"}
None    == 0

ASSUME ListAssumption ==
  /\ MaxRow \in Nat /\ First \in 0..MaxRow /\ Seed \in Nat
  /\ Archived \subseteq Rows /\ Starred \subseteq Rows
  /\ Found \subseteq Rows /\ Meant \subseteq Rows
  /\ PageSize \in Nat \ {0} /\ BatchSize \in Nat \ {0}
  /\ DefaultMax \in Nat \ {0} /\ Ceiling \in Nat \ {0}
  /\ MaxRequests \in Nat \ {0} /\ MaxEvents \in Nat
  /\ Unknown \notin Nat
  /\ Lookups \cap Questions = {}
  /\ (Lookups \cup Questions) \cap (Folders \cup {"blank", "off"}) = {}

VARIABLES
  \* the mailbox
  gmail,        \* messages with the INBOX label in Gmail
  tagged,       \* rows with the INBOX label in the database
  known,        \* rows in the database
  arrived,      \* the newest message
  \* the client
  filter, query,              \* the folder, and the search text or "off"
  messages, nextCursor, endCursor,
  backfillCursor, backfillExhausted, autoSyncFailed,
  labelTotal, inboxLiveCount, \* what Gmail says the inbox holds, or Unknown
  loading, reqId,
  timer,        \* the debounce timer of a search is running
  requests,     \* first pages asked for and not answered
  more,         \* the load more in progress, if any (loadingMore)
  polling,      \* the folder a poll is waiting for, or "none"
  countAsked,   \* the labels request of the current folder is outstanding
  reconciled,   \* reconciledRef
  reconciling,  \* request ids that outstanding reconciliations started under
  \* bounds and history variables, which guard nothing else
  events,
  base,         \* the view whose first page filled the list
  mixed,        \* a page was appended that was asked for another list
  shifted,      \* the server's first page changed otherwise than by arrivals
  behind,       \* messages that arrived since the last first page or poll
  outran        \* more of them than a page holds when the poll came

server == <<gmail, tagged, known, arrived>>
list   == <<messages, nextCursor, endCursor>>
walk   == <<backfillCursor, backfillExhausted, autoSyncFailed>>
counts == <<labelTotal, inboxLiveCount, countAsked>>
recon  == <<reconciled, reconciling>>
ghosts == <<base, mixed, shifted, behind, outran>>
vars   == <<server, filter, query, list, walk, counts, loading, reqId, timer,
            requests, more, polling, recon, events, ghosts>>

View(f, q) == IF q = "off" THEN f ELSE q

CurrentView == View(filter, query)

---------------------------------------------------------------------------
(* Pages of the server.                                                    *)

\* The i-th of the rows S has i - 1 newer ones.
Descending(S) ==
  [i \in 1..Cardinality(S) |-> CHOOSE r \in S : Cardinality({s \in S : s > r}) = i - 1]

Newest(S, n) == {r \in S : Cardinality({s \in S : s > r}) < n}

Page(rows, next, end) == [rows |-> rows, next |-> next, end |-> end]

\* Mutant: the cursor's own row is on the next page again.
ListPageFromCursor(S, cursor) ==
  LET beyond == {r \in S : cursor = None \/ r <= cursor}
      page   == Newest(beyond, PageSize)
      end    == IF page = {} THEN None ELSE Min(page)
  IN  Page(Descending(page), IF page = beyond THEN None ELSE end, end)

\* Up to PageSize rows beyond the cursor, newest first. The end cursor is that of
\* the last row even when no row follows.
ListPage(S, cursor) ==
  LET beyond == {r \in S : cursor = None \/ r < cursor}
      page   == Newest(beyond, PageSize)
      end    == IF page = {} THEN None ELSE Min(page)
  IN  Page(Descending(page), IF page = beyond THEN None ELSE end, end)

\* GET /messages filters by label, GET /messages/search by text and knows no end
\* cursor. What is found by meaning comes on one page; when that is nothing, the
\* first page of the keyword search is shown, whatever the cursor.
Listing(f) == IF f = "all" THEN tagged ELSE known \cap Starred

SearchPage(cursor) == [ListPage(known \cap Found, cursor) EXCEPT !.end = None]

PageOf(v, cursor) ==
  CASE v \in Folders   -> ListPage(Listing(v), cursor)
    [] v \in Lookups   -> SearchPage(cursor)
    [] v \in Questions /\ known \cap Meant # {} ->
         Page(Descending(known \cap Meant), None, None)
    [] v \in Questions /\ known \cap Meant = {} -> SearchPage(None)

---------------------------------------------------------------------------
(* Load more and the auto sync.                                            *)

inboxTarget == IF inboxLiveCount # Unknown THEN inboxLiveCount ELSE labelTotal

FreshWalk == [token |-> None, synced |-> 0]

NoMore == [step |-> "none", view |-> "all", cursor |-> None, stale |-> FALSE,
           walk |-> FreshWalk, target |-> Unknown]

\* A call takes the values of the render it was made in.
Asked(step, v, cursor) ==
  [step |-> step, view |-> v, cursor |-> cursor, stale |-> FALSE,
   walk |-> IF step = "page" THEN FreshWalk ELSE backfillCursor,
   target |-> IF step = "page" THEN Unknown ELSE inboxTarget]

loadingMore == more # NoMore

ReachedTotal == inboxTarget # Unknown /\ Len(messages) >= inboxTarget

canBackfill(v) == v = "all" /\ ~backfillExhausted

canLoadMore ==
  nextCursor # None \/ (canBackfill(CurrentView) /\ ~ReachedTotal)

\* loadMore, called with the view v of the render it belongs to: the next page
\* of the database, or else a batch from Gmail.
LoadMore(v) ==
  /\ ~loadingMore
  /\ \/ /\ nextCursor # None
        /\ more' = Asked("page", v, nextCursor)
        /\ UNCHANGED autoSyncFailed
     \/ /\ nextCursor = None /\ canBackfill(v) /\ endCursor # None
        /\ more' = Asked("backfill", v, endCursor)
        /\ autoSyncFailed' = FALSE

\* The condition of the auto-sync effect in a render that shows the view v.
WantsMore(v) ==
  /\ v = "all" /\ ~loading /\ ~loadingMore
  /\ ~backfillExhausted /\ ~autoSyncFailed
  /\ inboxTarget # Unknown /\ Len(messages) < inboxTarget
  /\ nextCursor # None \/ endCursor # None

AutoSync ==
  /\ WantsMore(CurrentView)
  /\ LoadMore(CurrentView)
  /\ UNCHANGED <<server, filter, query, list, backfillCursor,
                 backfillExhausted, counts, loading, reqId, timer, requests,
                 polling, recon, events, ghosts>>

UserLoadsMore ==
  /\ canLoadMore
  /\ LoadMore(CurrentView)
  /\ UNCHANGED <<server, filter, query, list, backfillCursor,
                 backfillExhausted, counts, loading, reqId, timer, requests,
                 polling, recon, events, ghosts>>

Append2List(page) ==
  /\ messages' = messages \o page.rows
  /\ mixed' = (mixed \/ more.stale)
  /\ UNCHANGED <<base, shifted, behind, outran>>

MorePage ==
  /\ more.step = "page" /\ more.view # "blank"
  /\ LET page == PageOf(more.view, more.cursor)
     IN  /\ Append2List(page)
         /\ nextCursor' = page.next
         /\ endCursor' = page.end
  /\ more' = NoMore
  /\ UNCHANGED <<server, filter, query, walk, counts, loading, reqId, timer,
                 requests, polling, recon, events>>

\* runBackfill: Gmail lists the inbox newest first from the page token on, at most
\* as many ids as the batch and the overall cap leave. Every message is stored
\* unless the call fails in the middle.
MaxSynced(target) ==
  IF target = Unknown THEN DefaultMax ELSE Min({Ceiling, Max({1, target})})

\* Mutant: the walk is done one batch before the cap.
BatchStopsEarly ==
  LET from   == more.walk
      max    == MaxSynced(more.target)
      beyond == {r \in gmail : from.token = None \/ r < from.token}
      refs   == Newest(beyond, IF from.synced >= max THEN 0
                              ELSE Min({BatchSize, max - from.synced}))
      synced == from.synced + Cardinality(refs)
  IN  [refs |-> refs, synced |-> synced,
       done |-> synced + BatchSize >= max \/ refs = beyond]

Batch ==
  LET from   == more.walk
      max    == MaxSynced(more.target)
      beyond == {r \in gmail : from.token = None \/ r < from.token}
      refs   == Newest(beyond, IF from.synced >= max THEN 0
                              ELSE Min({BatchSize, max - from.synced}))
      synced == from.synced + Cardinality(refs)
  IN  [refs |-> refs, synced |-> synced, done |-> synced >= max \/ refs = beyond]

Stores(refs) ==
  /\ tagged' = tagged \cup refs
  /\ known' = known \cup refs
  /\ shifted' = (shifted \/ (Cardinality(tagged) < PageSize /\ ~ refs \subseteq tagged))
  /\ UNCHANGED <<gmail, arrived, base, mixed, behind, outran>>

\* The rows just synced are read from the cursor the call began with.
Synced == [more EXCEPT !.step = "after", !.walk = FreshWalk, !.target = Unknown]

BackfillAnswers ==
  /\ more.step = "backfill"
  /\ Stores(Batch.refs)
  /\ backfillCursor' = IF Batch.done THEN FreshWalk
                       ELSE [token |-> Min(Batch.refs), synced |-> Batch.synced]
  /\ backfillExhausted' = (backfillExhausted \/ Batch.done)
  /\ more' = IF Batch.refs = {} THEN NoMore ELSE Synced
  /\ UNCHANGED <<filter, query, list, autoSyncFailed, counts, loading, reqId,
                 timer, requests, polling, recon, events>>

AfterBackfill ==
  /\ more.step = "after"
  /\ LET page == PageOf(more.view, more.cursor)
     IN  /\ Append2List(page)
         /\ nextCursor' = page.next
         /\ endCursor' = IF page.end = None THEN endCursor ELSE page.end
  /\ more' = NoMore
  /\ UNCHANGED <<server, filter, query, walk, counts, loading, reqId, timer,
                 requests, polling, recon, events>>

\* A failed batch may have stored some of its messages. It stops the auto sync; a
\* failed page of the database does not. The server refuses a search without text.
MoreFails ==
  /\ loadingMore /\ events < MaxEvents
  /\ events' = events + 1
  /\ IF more.step = "backfill"
       THEN \E refs \in {Newest(Batch.refs, n) : n \in 0..BatchSize} : Stores(refs)
       ELSE UNCHANGED <<server, ghosts>>
  /\ autoSyncFailed' = (autoSyncFailed \/ more.step # "page")
  /\ more' = NoMore
  /\ UNCHANGED <<filter, query, list, backfillCursor, backfillExhausted, counts,
                 loading, reqId, timer, requests, polling, recon>>

---------------------------------------------------------------------------
(* First pages. reqIdRef tells the answer that is wanted from those that a *)
(* newer request has superseded.                                           *)

\* Mutant: the new request id is not stored.
LoadFirstPageSameId(v) ==
  /\ reqId < MaxRequests
  /\ reqId' = reqId
  /\ loading' = TRUE
  /\ requests' = requests \cup {[id |-> reqId + 1, view |-> v]}

LoadFirstPage(v) ==
  /\ reqId < MaxRequests
  /\ reqId' = reqId + 1
  /\ loading' = TRUE
  /\ requests' = requests \cup {[id |-> reqId + 1, view |-> v]}

\* The list is replaced: a load more still in progress was asked for another one.
Replace(v, rows, m) ==
  /\ messages' = rows
  /\ more' = IF m = NoMore THEN m ELSE [m EXCEPT !.stale = TRUE]
  /\ base' = v
  /\ mixed' = FALSE /\ shifted' = FALSE /\ outran' = FALSE
  /\ behind' = 0

\* Mutant: the request counter is not looked at.
WantedAnyway(r) == r \in requests

\* reqIdRef.current === myId
Wanted(r) == r.id = reqId

FirstPageArrives(r) ==
  /\ Wanted(r) /\ r.view # "blank"
  /\ requests' = requests \ {r}
  /\ LET page == PageOf(r.view, None)
     IN  /\ Replace(r.view, page.rows, more)
         /\ nextCursor' = page.next
         /\ endCursor' = page.end
  /\ backfillCursor' = FreshWalk
  /\ backfillExhausted' = FALSE
  /\ autoSyncFailed' = FALSE
  /\ loading' = FALSE
  /\ UNCHANGED <<server, filter, query, counts, reqId, timer, polling, recon,
                 events>>

FirstPageFails(r) ==
  /\ Wanted(r)
  /\ requests' = requests \ {r}
  /\ \/ r.view = "blank" /\ UNCHANGED events
     \/ events < MaxEvents /\ events' = events + 1
  /\ Replace(r.view, <<>>, more)
  /\ nextCursor' = None /\ endCursor' = None
  /\ loading' = FALSE
  /\ UNCHANGED <<server, filter, query, walk, counts, reqId, timer, polling,
                 recon>>

DropSuperseded(r) ==
  /\ ~Wanted(r)
  /\ requests' = requests \ {r}
  /\ UNCHANGED <<server, filter, query, list, walk, counts, loading, reqId, timer,
                 more, polling, recon, events, ghosts>>

Reload ==
  /\ LoadFirstPage(CurrentView)
  /\ reconciled' \in {reconciled, FALSE}    \* after a send, or onRefresh
  /\ UNCHANGED <<server, filter, query, list, walk, counts, timer, more, polling,
                 reconciling, events, ghosts>>

TimerFires ==
  /\ timer
  /\ timer' = FALSE
  /\ LoadFirstPage(CurrentView)
  /\ UNCHANGED <<server, filter, query, list, walk, counts, more, polling, recon,
                 events, ghosts>>

---------------------------------------------------------------------------
(* A change of folder or of the search runs the effects that depend on it, *)
(* in one commit and in their order. They all see the state of the render: *)
(* the list, the cursors and the loading flag are still the old view's.    *)

ReconcileAtSwitch(v) ==
  LET starts == v = "all" /\ ~loading /\ ~reconciled
  IN  /\ reconciled' = (v = "all" /\ (reconciled \/ starts))
      /\ reconciling' = IF starts THEN reconciling \cup {reqId'} ELSE reconciling

ToFolder(f) ==
  /\ <<f, "off">> # <<filter, query>>
  /\ filter' = f /\ query' = "off"
  /\ timer' = FALSE
  /\ LoadFirstPage(f)
  /\ IF WantsMore(f) THEN LoadMore(f) ELSE UNCHANGED <<more, autoSyncFailed>>
  /\ ReconcileAtSwitch(f)
  /\ polling' = "none"
  /\ countAsked' = (countAsked \/ f # filter)
  /\ UNCHANGED <<server, list, backfillCursor, backfillExhausted, labelTotal,
                 inboxLiveCount, events, ghosts>>

\* Typing waits for the debounce timer; what was asked before may still arrive.
ToSearch(q) ==
  /\ q # query /\ q # "blank"
  /\ query' = q
  /\ timer' = TRUE
  /\ polling' = "none"
  /\ reconciled' = FALSE
  /\ UNCHANGED <<server, filter, list, walk, counts, loading, reqId, requests,
                 more, reconciling, events, ghosts>>

\* An empty search cancels what is in flight and clears the list, though not the
\* end cursor.
ToBlank ==
  /\ query # "blank" /\ reqId < MaxRequests
  /\ query' = "blank"
  /\ timer' = FALSE
  /\ reqId' = reqId + 1
  /\ Replace("blank", <<>>, more)
  /\ nextCursor' = None
  /\ loading' = FALSE
  /\ polling' = "none"
  /\ reconciled' = FALSE
  /\ UNCHANGED <<server, filter, endCursor, walk, counts, requests, reconciling,
                 events>>

---------------------------------------------------------------------------
(* The poll, the label counts and the reconciliation.                      *)

Poll ==
  /\ query = "off" /\ polling = "none"
  /\ polling' = filter
  /\ UNCHANGED <<server, filter, query, list, walk, counts, loading, reqId, timer,
                 requests, more, recon, events, ghosts>>

\* Rows not seen yet go to the front, in the order of the page.
PollArrives ==
  /\ polling # "none"
  /\ LET page == Range(PageOf(polling, None).rows)
     IN  messages' = Descending(page \ Range(messages)) \o messages
  /\ polling' = "none"
  /\ outran' = (outran \/ behind > PageSize)
  /\ behind' = 0
  /\ UNCHANGED <<server, filter, query, nextCursor, endCursor, walk, counts,
                 loading, reqId, timer, requests, more, recon, events, base,
                 mixed, shifted>>

PollFails ==
  /\ polling # "none"
  /\ polling' = "none"
  /\ UNCHANGED <<server, filter, query, list, walk, counts, loading, reqId, timer,
                 requests, more, recon, events, ghosts>>

\* Gmail's cached total may count one message too many.
CountArrives ==
  /\ countAsked
  /\ countAsked' = FALSE
  /\ labelTotal' = Cardinality(gmail)
  /\ UNCHANGED <<server, filter, query, list, walk, inboxLiveCount, loading,
                 reqId, timer, requests, more, polling, recon, events, ghosts>>

Reconcile ==
  /\ CurrentView = "all" /\ ~loading /\ ~reconciled
  /\ reconciled' = TRUE
  /\ reconciling' = reconciling \cup {reqId}
  /\ UNCHANGED <<server, filter, query, list, walk, counts, loading, reqId, timer,
                 requests, more, polling, events, ghosts>>

\* messages.filter: the places of the rows that stay, from the last to the first.
Without(s, gone) ==
  LET places == Descending({i \in 1..Len(s) : s[i] \notin gone})
  IN  [k \in 1..Len(places) |-> s[places[Len(places) + 1 - k]]]

\* The server drops stale INBOX labels in any case; the client takes the result
\* only when no first page was asked for meanwhile.
ReconcileArrives(id) ==
  /\ id \in reconciling
  /\ reconciling' = reconciling \ {id}
  /\ tagged' = tagged \cap gmail
  /\ shifted' = (shifted \/ tagged' # tagged)
  /\ \/ /\ id = reqId
        /\ inboxLiveCount' = Cardinality(gmail)
        /\ messages' = IF tagged \subseteq gmail THEN messages
                       ELSE Without(messages, tagged \ gmail)
     \/ id # reqId /\ UNCHANGED <<inboxLiveCount, messages>>
  /\ UNCHANGED <<gmail, known, arrived, filter, query, nextCursor,
                 endCursor, walk, labelTotal, countAsked, loading, reqId, timer,
                 requests, more, polling, reconciled, events, base, mixed,
                 behind, outran>>

ReconcileFails(id) ==
  /\ id \in reconciling /\ events < MaxEvents
  /\ events' = events + 1
  /\ reconciling' = reconciling \ {id}
  /\ reconciled' = FALSE
  /\ UNCHANGED <<server, filter, query, list, walk, counts, loading, reqId, timer,
                 requests, more, polling, ghosts>>

---------------------------------------------------------------------------
(* The mailbox.                                                            *)

Arrives ==
  /\ arrived < MaxRow /\ events < MaxEvents
  /\ events' = events + 1
  /\ arrived' = arrived + 1
  /\ known' = known \cup {arrived + 1}
  /\ IF arrived + 1 \in Archived
       THEN UNCHANGED <<gmail, tagged, behind>>
       ELSE /\ gmail' = gmail \cup {arrived + 1}
            /\ tagged' = tagged \cup {arrived + 1}
            /\ behind' = behind + 1
  /\ UNCHANGED <<filter, query, list, walk, counts, loading, reqId,
                 timer, requests, more, polling, recon, base, mixed,
                 shifted, outran>>

\* The change may reach the database with the next delivery or not at all.
ArchivedElsewhere(r) ==
  /\ r \in gmail /\ events < MaxEvents
  /\ events' = events + 1
  /\ gmail' = gmail \ {r}
  /\ tagged' \in {tagged, tagged \ {r}}
  /\ shifted' = (shifted \/ tagged' # tagged)
  /\ UNCHANGED <<known, arrived, filter, query, list, walk, counts, loading,
                 reqId, timer, requests, more, polling, recon, base, mixed, behind,
                 outran>>

---------------------------------------------------------------------------
Init ==
  /\ gmail = (1..First) \ Archived
  /\ tagged = Newest(gmail, Seed)
  /\ known = tagged \cup (Archived \cap 1..First)
  /\ arrived = First
  /\ filter = "all" /\ query = "off"
  /\ messages = <<>> /\ nextCursor = None /\ endCursor = None
  /\ backfillCursor = FreshWalk
  /\ backfillExhausted = FALSE /\ autoSyncFailed = FALSE
  /\ labelTotal = Unknown /\ inboxLiveCount = Unknown
  /\ loading = TRUE /\ reqId = 1
  /\ timer = FALSE
  /\ requests = {[id |-> 1, view |-> "all"]}
  /\ more = NoMore
  /\ polling = "none"
  /\ countAsked = TRUE
  /\ reconciled = FALSE /\ reconciling = {}
  /\ events = 0
  /\ base = "none"
  /\ mixed = FALSE /\ shifted = FALSE /\ outran = FALSE /\ behind = 0

User ==
  \/ \E f \in Folders : ToFolder(f)
  \/ \E q \in Lookups \cup Questions : ToSearch(q)
  \/ ToBlank \/ Reload \/ UserLoadsMore

Answers ==
  \/ \E r \in requests :
       FirstPageArrives(r) \/ FirstPageFails(r) \/ DropSuperseded(r)
  \/ MorePage \/ BackfillAnswers \/ AfterBackfill \/ MoreFails
  \/ PollArrives \/ PollFails \/ CountArrives
  \/ \E id \in reconciling : ReconcileArrives(id) \/ ReconcileFails(id)

Mailbox == Arrives \/ \E r \in gmail : ArchivedElsewhere(r)

Next == User \/ Answers \/ AutoSync \/ TimerFires \/ Poll \/ Reconcile \/ Mailbox

Spec == Init /\ [][Next]_vars

---------------------------------------------------------------------------
(* Properties.                                                             *)

Number == Nat \cup {Unknown}

TypeOK ==
  /\ gmail \subseteq tagged \cup (Rows \ known) /\ tagged \subseteq known
  /\ known \subseteq Rows /\ arrived \in First..MaxRow
  /\ filter \in Folders /\ query \in (Views \ Folders) \cup {"off"}
  /\ messages \in Seq(known)
  /\ nextCursor \in known \cup {None} /\ endCursor \in known \cup {None}
  /\ backfillCursor \in [token : Rows \cup {None}, synced : Nat]
  /\ labelTotal \in Number /\ inboxLiveCount \in Number
  /\ reqId \in 1..MaxRequests /\ reconciling \subseteq 1..reqId
  /\ requests \subseteq [id : 1..reqId, view : Views]
  /\ more \in [step : {"none", "page", "backfill", "after"}, view : Views,
               cursor : Rows \cup {None}, stale : BOOLEAN,
               walk : [token : Rows \cup {None}, synced : Nat], target : Number]
  /\ polling \in {"none", filter} /\ base \in Views \cup {"none"} /\ behind \in Nat
  /\ {backfillExhausted, autoSyncFailed, loading, timer, countAsked, reconciled, mixed,
      shifted, outran} \subseteq BOOLEAN

\* Once nothing is loading, the list on the screen is that of the folder or the
\* search on the screen: the request counter lets no superseded first page through,
\* no cancelled poll adds rows of the folder that was left. Load more does not look
\* at the counter: rows of a page it has appended to a later list are excepted (mixed).
Belongs(v) ==
  CASE v = "all"         -> Rows \ Archived
    [] v = "starred"     -> Starred
    [] v \in Lookups   -> Found
    [] v \in Questions -> Found \cup Meant
    [] OTHER           -> {}

ListOfView ==
  ~loading /\ ~timer =>
    /\ base = CurrentView
    /\ ~mixed => Range(messages) \subseteq Belongs(CurrentView)

\* The inbox list has no gap, no row twice and the order of the server, however
\* often it was paged, backfilled and polled; excepted are lists a page of an
\* older list was appended to, first pages that changed otherwise than by arrivals
\* (rows left the inbox, or a backfill had room on the page), and polls that came
\* after more arrivals than fit on a page.
InboxShown == CurrentView = "all" /\ ~loading /\ messages # <<>>

ListExact ==
  InboxShown /\ ~mixed /\ ~shifted /\ ~outran =>
    messages = Descending({r \in tagged : r \in Last(messages)..Head(messages)})

\* The calls of a walk through Gmail's inbox visit together what the cap allows,
\* however the inbox and the client's count of it change between them: when the
\* client takes the history for exhausted, that many messages have been stored.
BackfillReachesTarget ==
  [][backfillExhausted' /\ ~backfillExhausted
       => gmail \cap Newest(gmail \cup (known \ Archived), MaxSynced(more.target))
            \subseteq tagged']_vars

\* No row of a superseded answer reaches the list. Not so: load more does not look
\* at the request counter, and its page is appended to whatever list is shown then;
\* on an entry into the inbox the auto sync even asks with the cursors of the list
\* that is being replaced.
SupersededDiscarded ==
  ~loading /\ ~timer => Range(messages) \subseteq Belongs(CurrentView)

(***************************************************************************)
(* What makes the invariants inductive.                                    *)
(***************************************************************************)

\* Of a walk through Gmail's inbox that has got as far as its token, everything is
\* stored; it has counted no message that is not in the database.
WalkDone(w) ==
  IF w.token = None THEN w.synced = 0
  ELSE /\ {r \in gmail : r >= w.token} \subseteq tagged
       /\ w.synced <= Cardinality({r \in known \ Archived : r >= w.token})

\* The database holds the newest messages of the inbox.
MailboxStored ==
  /\ gmail \cup tagged \subseteq (1..arrived) \ Archived /\ known \subseteq 1..arrived
  /\ \A g \in gmail \ tagged, t \in tagged : g < t
  /\ WalkDone(backfillCursor) /\ WalkDone(more.walk)

\* What is wanted, polled and asked for more of is what is on the screen.
RequestsFit ==
  /\ timer => query # "off"
  /\ ~timer => \A r \in requests : r.id = reqId => r.view = CurrentView
  /\ polling # "none" => query = "off"
  /\ more.step \in {"backfill", "after"} => more.view = "all"
  /\ ~loading /\ ~timer /\ loadingMore /\ ~more.stale => more.view = CurrentView

\* The list is one stretch of the inbox, and the cursors are at its lower end; above
\* it are the arrivals since the last poll, below it nothing that a poll would bring.
From(r) == {s \in tagged : s >= r}

StretchOf(s) ==
  s # <<>> =>
    /\ s = Descending({r \in tagged : r \in Last(s)..Head(s)})
    /\ Cardinality(From(Head(s) + 1)) <= behind
    /\ tagged = From(Last(s)) \/ Cardinality(From(Last(s))) >= PageSize

EndsAt(cursor) == cursor # None => messages # <<>> /\ cursor = Last(messages)

InboxStretch ==
  CurrentView = "all" /\ ~loading /\ ~mixed /\ ~shifted /\ ~outran =>
    /\ StretchOf(messages)
    /\ EndsAt(nextCursor) /\ EndsAt(endCursor)
    /\ loadingMore /\ ~more.stale => messages # <<>> /\ more.cursor = Last(messages)

=============================================================================
