# VibeMail in TLA+

VibeMail copies a Gmail mailbox into Supabase, serves it through an HTTP API, changes Gmail on behalf of
the user, keeps an index of embedded chunks for search by meaning, and shows all of it in a React client.
Nothing in the server is locked: every handler is a serverless function that reads, calls Gmail or Supabase,
and writes, and any number of them run at the same time. This directory models what that does to the data,
checks it with TLC and proves the main results with TLAPS.

Paths below are relative to the repository.

## 1. Inventory

### Parts of the system

| Part | State it keeps | Operations | Talks to |
|---|---|---|---|
| Push webhook (`api/webhook/gmail.ts`, `src/webhook/gmail.ts`) | none between calls; during one: the notification's history id, the checkpoint read, the delta's message ids, the batch fetched | `processGmailNotification` | Pub/Sub, Gmail, database, memory index |
| Watch renewal (`src/cron/renewWatch.ts`) | none | `renewExpiringWatches` | Gmail, database |
| OAuth login (`src/providers/gmail/auth.ts`) | `users` row: encrypted tokens, `history_id`, `watch_expiry` | `exchangeCode`, `setupWatch`, token refresh | Google, Gmail, initial sync |
| Initial sync, backfill (`src/sync/index.ts`) | `messages` rows; the backfill cursor is kept by the client | `runInitialSync`, `runBackfill` | Gmail, database, memory index |
| Inbox reconciliation (`src/sync/index.ts`) | labels and status of rows | `reconcileInbox` | Gmail, database |
| Database layer (`src/db/index.ts`) | the client object | upserts, updates, `withWriteRetry` | Supabase |
| Normalisation (`src/sync/normalize.ts`) | none | `normalizeMessage`, `deriveStatus`, `upsertMessages` | database |
| Message routes (`src/routes/messages/`) | labels, flags, status of a row | PATCH, DELETE, labels; list, search, semantic, digest, related | Gmail, database, retrieval |
| Draft routes (`src/routes/drafts/`) | the draft's row: `gmail_id`, `status`, `draft_id` | POST, PATCH, DELETE, send | Gmail, database, memory index |
| Sending (`src/send/index.ts`) | rows | POST /messages | Gmail, database |
| Memory index (`src/memory/ingest.ts`, `chunk.ts`, `embedClient.ts`, the `embed` edge function, `scripts/backfill-embeddings.ts`) | `message_chunks` | snapshot, compare, chunk, embed, delete, insert | embedding function, database |
| Retrieval and answers (`src/memory/` rest, `src/reason/`) | none | match, keyword fallback, merge, digest, citations | database, Gemini |
| Attachments (`src/attachments/`) | staged files | signed upload and download URLs | Supabase storage, Gmail |
| Sessions (`app/lib/auth.ts`, `api-client.ts`, `AuthProvider`, `src/middleware/`) | the JWT in `localStorage`, shared by all tabs; the sign-out reason of a tab | verify, sign in, sign out, `forceSignOut` on a 401 | the API, Google |
| Mail client (`app/components/VibeMailApp.tsx`, `app/lib/`) | message list, cursors, selection, pending patches, request counter, answer on the screen | load, load more, poll, optimistic changes with rollback, search, digest, related | the API |
| Compose drawer (`app/components/mail/ComposeDrawer.tsx`, handlers in `VibeMailApp.tsx`) | the form: recipient, text, uploads, `sending`, banner | upload, send, save, delete, discard an orphan | the API, storage |
| Demo store (`app/lib/demo-store.ts`) | the same mailbox in memory | every API route | none |

### What is hard, and what makes each part correct

* **Mirror and checkpoint.** Pub/Sub delivers at least once and in any order; deliveries overlap each other,
  the renewal job, logins and backfills; any of them can fail half way, and the entry point acknowledges
  failures. `users.history_id` is written by three components without comparison. Correct means: no change
  of the mailbox ends up behind the checkpoint without having been stored.
* **Labels.** A row carries `label_ids` and three derived columns. PATCH, the label routes and the
  reconciliation compute the new value from what they read before a call to Gmail. Correct means: derived
  columns agree with the labels, and the row agrees with Gmail once everything is quiet.
* **Drafts.** Gmail gives a draft a new message id at every edit and when it is sent, and announces that id
  to the webhook before the route has renamed its row. Correct means: a draft that exists has a reachable row,
  a sent draft is recorded as sent, one draft has one row.
* **Memory index.** A rebuild embeds, deletes and inserts in three calls, each repeated when the connection
  drops. Correct means: chunks of one text only, never none for good, and those of the stored text.
* **The list.** Pages, polls, backfill batches and searches are answered in any order while folders are
  switched and mail arrives. Correct means: the rows belong to the view, no gap and no row twice, and a walk
  through Gmail's inbox that ends has visited what its cap allows.
* **Actions.** A change is shown before the API has answered and rolled back when it refuses; meanwhile polls
  and first pages bring older rows. Correct means: what the user did stays, and once everything has been
  answered the copy agrees with the server. The demo store has to do the same as the server.
* **Writing.** The drawer can be closed and reopened with calls in flight; sending a draft takes two calls and
  changes its id. Correct means: sent once, as written, and the drawer never waits for ever.
* **Answers.** A question goes through embedding, a similarity search, a keyword fallback, a model with
  quotas, and a client that counts citations by list position. Correct means: the answer is that of the query
  on the screen, mail that contains the words is found, `[n]` leads to the message it was written about.
* **Sessions.** Tabs share one token; invocations refresh access tokens silently and store them late. Correct
  means: Gmail requests recover after a login, and no tab stays on a folder with a session that is over.

`PROJECT.json` lists the single hazards at their lines, each with the properties about it.

## 2. Modules

| Module | What it is |
|---|---|
| `GmailSync` | one account: Gmail, Pub/Sub, webhook, renewal, login, imports |
| `CheckpointedMirror` | what GmailSync promises, without processes |
| `MessageLabels` | one message: labels in Gmail, in its row, and every writer of either, the calls that make the message included |
| `DraftLifecycle` | one draft, from POST to sending or deletion |
| `MemoryIndex` | one message and its chunks |
| `Chunking` | the loop that cuts a text into overlapping slices |
| `MailList` | the client's list: first pages, keyset paging, backfill, poll, reconciliation, search |
| `MailActions` | one message in the client: optimistic commands, chips, deletion, polls and pages |
| `DemoStore` | what the demo's in-memory routes make of a row (operators used by `MailActions`) |
| `Compose` | the drawer, its uploads, send, save, delete, and the API behind them |
| `Retrieval` | what the memory layer computes, as operators: similarity, rare words, merge, citations |
| `SearchAnswers` | a question from the keystroke to the answer, and the related rail |
| `Session` | tabs with one token, logins, and invocations with Google tokens |
| `*Proofs` | the theorems about the module they are named after; `MemoryIndexProofs` also those about Chunking, `ClientProofs` those about SearchAnswers and Session |
| `MC*` | instances for TLC; the other modules are run directly |

The components share the `messages` table but not what is said about it: GmailSync looks at which version a
row holds, MessageLabels at its label columns, DraftLifecycle at its key and draft id, MemoryIndex at its
text. Each of them contains every writer of the columns it is about, so a writer (the webhook, say) appears
in several modules, each time with the steps that matter there. Rows are keyed by `gmail_id` and belong to
one user, so one account, one message or one draft is enough where the module says so. The client modules
take one request as one step of the API: how the steps of the routes interleave is what the server modules are
about. The exception is `Compose`, in which a draft request reads its row, asks Gmail and writes its row in
three steps, because two forms may be at the same draft. `MailActions` gets the server's label arithmetic from
`MessageLabels` by INSTANCE.

### GmailSync

Gmail numbers every change with an increasing history id. The content of a message is abstracted to the id
of the change that produced it, its *version*: two reads return the same content exactly when the versions
agree. `last[m]` is the newest version, `row[m]` the stored one, `historyId` is `users.history_id`, `hook`,
`imp` and `cron` are the processes, `pubsub` holds notifications not yet acknowledged.

| Code | Actions |
|---|---|
| `getUserByEmail` at the start of a delivery | `Receive`, `LookupFails` |
| no stored `history_id` | `SkipDelta` |
| `collectDeltaMessageIds`, and the 404 of `history.list` for a checkpoint that is too old | `ListDelta`, `HistoryExpired` |
| the `messages.get` loop with its 404 skip | `GetMessage` |
| `upsertMessages`, replayed by `withWriteRetry` | `UpsertBatch`, `UpsertUnanswered` |
| `updateHistoryId` at the end | `AdvanceHistory` |
| errors swallowed by the entry point; function killed | `HandlerThrows`, `HandlerKilled` |
| `renewExpiringWatches` | `CronWatch`, `CronUpdateHistory`, `CronFails` |
| `exchangeCode`, `setupWatch` | `LoginStart`, `LoginWatch`, `LoginUpdateExpiry`, `LoginUpdateHistory` |
| `runInitialSync`, `runBackfill` | `InitialSync`, `RunBackfill`, `ImportGet`, `ImportStore`, `StoreUnanswered`, `ImportFails` |
| Gmail, as the code relies on it | `GmailChange`, `GmailDelete`, `WatchLapses`, `GmailForgets` |

`watched` is Gmail's watch: it lapses unless it is renewed, and only a login or the renewal job sets it again.
`forgotten` is the newest change whose history record Gmail has dropped; a delta from before it is refused.

`high`, `since`, `jumped` and `seeded` are history variables that guard nothing. `jumped` records the
messages whose newest change a writer that fetched nothing stepped over (the renewal job, a first login, a
delivery without a checkpoint). The safety properties except exactly those; that they exist is the first
of the disagreements in section 3.

### MessageLabels

`gmail` and `row` hold the two copies of the labels; `pending` says that the next delta lists the message.
Deliveries and imports are `Deliver`, `ImportInbox`, `GetLabels`, `StoreLabels`; PATCH, POST and DELETE of
labels are `Patch`, `AddUserLabel`, `RemoveUserLabel`, then `ModifyGmail` and `WriteLabels`; DELETE of the
message is `ReadForDelete` (not for a row with a `draft_id` or the status of a draft), `TrashInGmail`,
`DropRow`; `reconcileInbox` is `ListInbox`, `ReadInboxRows`, `DropInboxLabel`. The message may also be about to
be made: by POST /messages, by POST, PATCH or send of a draft. `MakeMessage` is the call to Gmail, `GetMade`
fetches what Gmail has made of it, and the row is stored by the upsert of a normalised message (`StoreNew`) or
by renaming the draft's row (`StoreUpdated`, which leaves the labels alone; `StoreSent`, which writes the
fetched labels and `status: 'sent'`); the unique index refuses the rename when a delivery has stored the row
first. Every process may fail between any two steps. `overlapped` records that some process started while
another one was running, `dropped` that the row was deleted while the message was being made.

The status is derived from the labels by every writer but `StoreSent`: trash the message in Gmail before the
send has fetched it, and the row says "sent" beside TRASH. `StatusCoherent` says that nothing else can make the
status wrong, and that this does not last: a delivery is owed, which will store the row again. The one way
out is recorded by `dropped`: the delivery comes first, the user deletes its row, then the send stores its own.

### DraftLifecycle

`draftMsg` and `sentMsg` are the message ids of the draft and of what it was sent as, `rows` maps a message
id to the row with that `gmail_id` (the unique index is what makes it a function), `undelivered` the ids a
delta still lists. POST is `CreateDraft`, `GetCreated`, `StoreCreated`; PATCH, DELETE and send begin with
`ReadDraft` and, without a draft id, `ResolveDraftId` or `ResolveNothing`, call Gmail (`UpdateInGmail`,
`SendInGmail`, `DeleteInGmail`, `DraftIsGone`) and write (`StoreUpdated`, `StoreSent`, `DropRow`, or
`IdTaken` when the unique index refuses). The user may do the same in Gmail itself.

### MemoryIndex

Followed is one row with its primary key, its text, and its chunks. A text is a value with a number of
slices (`Size`) and the text Gmail returns for it (`Rendered`). Mirror processes fetch, take the snapshot,
upsert, compare, and rebuild or skip; the draft routes rebuild always (POST, PATCH) or when the text differs
(send); the embedding backfill lists messages without chunks and reads the rows afterwards. A rebuild is
`Embed`, `DeleteChunks`, `InsertChunks`; both writes may be applied without an answer and repeated. `DropRow`
cascades. `broken` records a rebuild that was cut off at its delete or insert, `clean` that nothing has
overlapped or failed. Row key 1 is a row from before `message_chunks` existed, which nothing but the backfill
needs to index.

### Chunking

`splitBody`, one step for each turn of its loop (`NextSlice`), or `WholeBody` for a text that is short enough.
A text is a sequence of UTF-16 code units, of which only the halves of a surrogate pair are told apart;
`SnapSplitIndex` moves a cut from inside a pair to before it. A slice is a pair of positions. The assumption
`ChunkOverlap + 2 < ChunkSize` (200 and 1500 in the code) is what the loop needs: both ends of a slice may be
moved back by one, and with less room the next slice could begin where the last one did, for ever.

### CheckpointedMirror

Items change, versions are stored, a checkpoint is acknowledged only over stored changes, or overridden, and
then the skipped items are on record. `ImplementsMirror` says that every step of GmailSync is one of these
or leaves the mapped state alone. The mapping takes `high` (the newest version ever stored) for `stored`:
two overlapping deliveries may put the row itself back to an older version (`RowsCurrent`, section 3).

### MailList

A message is its position in the order of the list routes; a cursor is the position of the row it was made
from. A request and the answer the server gives to it are one step, taken at any time after the request was
sent; the answer depends on the rows of that moment.

| Code | Actions |
|---|---|
| `handleList`, `search.ts`: keyset pages | `ListPage`, `SearchPage`, `PageOf` |
| `loadFirstPage` with `reqIdRef` | `LoadFirstPage`, `FirstPageArrives`, `FirstPageFails`, `DropSuperseded`, `Reload` |
| `loadMore`, the auto-sync effect | `UserLoadsMore`, `AutoSync`, `MorePage`, `AfterBackfill`, `MoreFails` |
| `backfillOlderInbox`, `runBackfill` over several calls | `MaxSynced`, `Batch`, `BackfillAnswers` |
| `selectFolder`, the search effect and its debounce | `ToFolder`, `ToSearch`, `ToBlank`, `TimerFires` |
| `poll`, the label count, the reconciliation at the entry of the inbox | `Poll`, `PollArrives`, `PollFails`, `CountArrives`, `Reconcile`, `ReconcileArrives`, `ReconcileFails` |

The effects of one commit run in one step, in their order, and see the state of the render: on an entry into
the inbox the auto sync still has the list and the cursors of the view that is being left. `mixed`, `shifted`
and `outran` are history variables: they record the cases in which the list is known to go wrong (a page of
an older list appended; a first page that changed otherwise than by arrivals; more arrivals than a page
between two polls), and `ListExact` excepts those. `mixed` is one of the disagreements
in section 3.

### MailActions and DemoStore

One message, the server's row, and the client's copy with its chips. `Command` is `patchAction` for the eight
commands of reader, keyboard and bulk bar: `Optimistic` is what is shown, `Body` what is sent. `OpenMessage`
marks as read, `Chip` adds and removes a user label, `BulkDeleteForever` deletes on the server,
`DeleteForeverSelected` only locally. A call is served (`Serve`), refused or fails with or without effect
(`Fails`), and answered (`PatchAnswered`, `ChipAnswered`); polls and first pages are read and merged in
separate steps, so anything may come between. With `api = "demo"` the calls go to the operators of DemoStore.
`calm` records what the client does not protect against: overlapping calls, calls carried out though they
failed, changes made elsewhere, a page that was read before an answer and merged after it, a row that came
back into the list during a call. A first page read and shown while no call is outstanding sets it again.

### Compose

Forms, files and calls are numbered. A draft has an `origin` for life and a message id that `drafts.update`
changes; the client only knows message ids.

| Code | Actions |
|---|---|
| opening: compose, reply, a draft | `Compose`, `Reply`, `Edit` |
| fields, close | `Write`, `ChangeRecipient`, `Close` |
| uploads: sign, put, fail, retry, remove | `PickFile`, `CreateUpload`, `PutFile`, `UploadFails`, `RetryUpload`, `RemoveItem` |
| `handleSend`, `handleSaveDraft`, `deleteDraft`, "Try again" | `Send`, `SaveDraft`, `DeleteDraft`, `TryAgain` |
| POST /messages | `PostMessage` |
| POST of a draft | `CreateInGmail`, `StoreCreated` |
| PATCH of a draft | `ReadRow`, `UpdateInGmail`, `StoreUpdated` |
| send of a draft | `ReadRow`, `SendInGmail`, `StoreSent` |
| DELETE of a draft | `ReadRow`, `DeleteInGmail`, `DropRow` |
| the demo's draft routes | `DemoCreate`, `DemoUpdate`, `DemoDelete` |
| DRAFT_NOT_FOUND; a request that stops anywhere, or whose answer is lost | `NotFound`, `Fails` |
| what the handler does with the answer | `Succeeds`, `DiscardsOrphan`, `Refused`, `Deleted` |

`Serve` takes one of these steps of a request, so requests about one draft interleave at every call to Gmail.
`drafts` are the rows, `gmail` the drafts Gmail has with their text: after `drafts.update` and before the row
has its new id, or after a rename that failed, the two differ. An answer reaches whatever form is on the screen
by then, as in the code; `calm` records such a stray answer and a call that failed although Gmail had sent the
mail, the two ways to send a form twice. `serial` records that a PATCH of a draft has overlapped another
request about it between its read and its write, or has stopped between Gmail and the row: the only ways to
mail what another form wrote.

### Retrieval and SearchAnswers

Retrieval holds the operators: `Nearest` and `MatchUserMessages` (best chunk per message, distance floor, a
penalty for age, the limit before the trash is dropped), `RareHits` and `MergeRetrieval`, the keyword search with all terms or any,
`MessagesForDigest`, `RelatedMessages`, `ConstrainCitedNames`, and the demo's stand-ins. Distances, hits and
term matches are constants of the mailbox. `Ranked` puts messages in the order of a score, equal scores by
message (SQL leaves that open), and `At` picks some places of a list in their order; both are written with
counting instead of recursion, so that the proofs can use them. SearchAnswers is the way of a request: `Type`, `Debounced`,
`ToggleDigest`, `ClearSearch`, `SelectFolder` on the client; `Serve` (the route up to the model),
`GenerateContent` and `QuotaError` (the model with its attempts), `FetchByKeyword` (the client's fallback),
`Receive` with the request counter; `OpenCitation`, `OpenRelated`, `OpenListed` and the effect that loads the
rail of related messages. `Move` takes a message to the trash and back at any time.

### Session

A login is numbered; the number stands for its JWT and for Google's grant. The browser half is `Load`,
`Consent`, `Deny`, `PersistTokens`, `ExchangeFails`, `StoreToken` (signing in), `Search`, `SignOut`, `Reload`,
`Poll`, `UserCalls`, and `Unauthorized`, `Answered`, `NetworkFails` (`parseResponse`). The server half is
`LoadOAuth2Client`, `SilentRefresh`, `GmailAnswers`, `RefreshFails`, `Returns`, and the write the token
listener starts and nobody waits for: `UpdateUserTokens` or `WriteLost`. Time passes in `AccessTokenExpires`
and `JwtExpires`; the user may `Revoke` the app's access.

## 3. Runs

Every bound is a constant of the module or of its configuration.

| Run | Instance | What it shows |
|---|---|---|
| `gmail` | 2 messages, 2 deliveries, renewal, at most two invocations at once; either a first login on an empty account (history ids to 2), or (told apart by the history id, `StartBounds`) a returning user with a delta outstanding, its last notification pending or lost, a backfill and ids to 4; every failure, but no lapsing watch and no expiring history | `TypeOK`; `InboxCovered`: registering the watch before listing the inbox leaves no gap; `CheckpointCovered`, `RowsCovered`, the inductive `IInv`, `ImplementsMirror` |
| `gmail_live` | 1 message, 1 delivery, 1 login, renewal, lapsing watches and expiring history, ids to 3; a returning user, or one who has not logged in; fairness | `AnnouncedIsMirrored` whatever is repeated, reordered or killed; `RenewalRecovers`: a user who has logged in gets back an active watch and a checkpoint Gmail still knows |
| `labels` | 1 delivery or import, 1 request, 1 reconciliation, the trash used once in Gmail itself; a message sent to oneself, or one that POST /messages, POST, PATCH or send of a draft is about to make | `TypeOK`, `StatusCoherent` (wrong at most as the 'sent' of a send, while a delivery is owed), `SerialMirror` |
| `drafts` | 2 requests, 1 delivery, 4 message ids | `TypeOK`, `DraftReachable`, `SentRecorded`, `SerialDrafts` |
| `memory` | 1 mirror process, 1 request, 1 script, texts of one and two chunks, 3 message ids, 3 rows | `TypeOK`, `ChunksWhole`, `ChunksKept`, `SerialCurrent` |
| `chunking` | every text of up to 9 code units, slices of 5 with an overlap of 2 | `SlicesWhole` |
| `list` | 5 messages, pages of 2, batches of 1, two folders, a keyword search and a question, 3 requests, 1 arrival, removal or failure | `TypeOK`, `ListOfView`, `ListExact`, `BackfillReachesTarget` |
| `actions` | server and demo, 1 message (received, or sent to oneself), 2 calls, 1 failure or change elsewhere, the folder all until the user turns to the trash (what every folder shows of the copy and of the row is compared wherever the user is) | `OptimisticHolds`, `SettledAgrees`, `DemoAgrees` (the types are proved) |
| `compose` | server and demo, 2 forms, 2 calls, 2 files of which one is too large, 1 pick, 1 edit of each form, 1 failure or discard in Gmail; draft requests in three steps | `TypeOK`, `SentOnce` while `calm`, `DraftSentOnce`, `SentAsWritten` (of drafts while `serial`), `SendingEnds` |
| `search` | server and demo, 4 messages in 3 threads and one of another user, a lookup and two questions, 3 requests, 2 openings, 2 attempts of the model | `TypeOK`, `AnswerOfQuery`, `SearchFinds`, `RelatedOfOpen`, `BriefResolves`, `SearchEnds` |
| `session` | 2 tabs, 1 invocation, 2 logins | `RequestsRecover`, `SessionEnds` (the types are proved) |

Why these bounds suffice: a lost change needs a message, a checkpoint before it, and one process that passes
it while another one is between its read and its write; a second message is what makes a delivery stop in the
middle of its delta; with two invocations at once every pair of a delivery, another delivery, an import, a
login and the renewal is among the cases. Every race in the label, draft and index models is between two
processes (a reader that will write, and a writer in between); the runs have three of different kinds, or two
of one kind. The draft needs three ids to be edited twice, the fourth lets it be sent afterwards. Two texts
with different numbers of slices are what a mixture of chunks needs; nine code units make three slices with a
pair at any of their ends. In the list, a superseded answer needs a
second request and a third shows that the newest one wins; five messages on pages of two make three pages, so
that a cursor is followed twice, and batches of one make a walk of several calls that meets its cap. Two calls
on one message are what a rollback or a stale page can come between. Two forms are what an answer can be
mistaken for, and two PATCHes from two forms are what mails the wrong text; once the calls of the bound
are used up nothing is written any more, since it would go nowhere. Two logins are what a late refresh can
confuse. The four messages of `search` were chosen so that each kind of hit exists: near, rare word beyond the
floor, in the trash, not indexed. The theorems remove the bounds where there are theorems.

Deadlock is not checked: every model may come to rest (the mailbox stops changing at its bound, nobody calls
the API), and nothing in the code waits for another process.

### A run that finds a disagreement

| Run | Statement, and what the code does instead |
|---|---|
| `compose_orphan` | `OrphansAreGone`: "That draft no longer exists in Gmail" (`VibeMailApp.tsx`). A draft that was updated, could not be sent and is sent again from the same form is addressed by its old id, answered DRAFT_NOT_FOUND and taken for an orphan, although Gmail and its row, under the new id, still have it. The DELETE of the old id that follows is answered DRAFT_NOT_FOUND as well: nothing is lost on the server, the message is false, and the draft is missing from the client's list until it is loaded again. |

### Disagreements stated in the modules

These are properties that do not hold either; no run is spent on them. To see one, add the name to the
configuration of the run (as INVARIANT, or PROPERTY where it is an action property).

| Module, run | Statement, and what the code does instead |
|---|---|
| GmailSync, `gmail` | `NoChangeSteppedOver`: returning users keep their `history_id` so that the webhook can catch up (`auth.ts`). The renewal job overwrites it with the id `users.watch` returns; changes in between are never fetched. |
| GmailSync, `gmail` | `ReturningUserIsSeeded`: "For returning users the existing DB rows are already populated" (`auth.ts`). A first login whose initial sync fails leaves the checkpoint set, and the next login skips the sync. |
| GmailSync, `gmail` | `RowsCurrent`: "On conflict the row is updated with the latest field values" (`db/index.ts`). Two overlapping deliveries may upsert the same message in the wrong order; the older content stays. |
| MessageLabels, `labels` | `FlagsCoherent`: `is_read` is `NOT label_ids @> '{"UNREAD"}'` (`001_initial_schema.sql`). The reconciliation writes labels it read before a PATCH and leaves the flags. |
| MessageLabels, `labels` | `StatusDerived`: the status is derived from the labels, "called at write time" (`deriveStatus` in `normalize.ts`). The send of a draft writes 'sent' whatever they are (`StatusCoherent` says that nothing else does, and for how long). |
| DraftLifecycle, `drafts` | `NoDuplicateRow`: the route stores the new id so that the webhook does not insert a duplicate row (`item.ts`). When the webhook is first, the rename is refused and two rows stay. |
| MemoryIndex, `memory` | `DoneIsIndexed`: chunk and embed before the message can be retrieved (`memory_contract.md`). When embedding fails after the upsert, the repeated delivery finds the text unchanged and skips the message. |
| MailList, `list` | `SupersededDiscarded`: a request id "discards responses from superseded fetches" (`VibeMailApp.tsx:231`). `loadMore` does not look at it: a page asked for in one folder is appended to the list of the next. |
| SearchAnswers, `search` | `CitesResolve`: `[n]` links to a retrieved message (`search-answer.ts`). `data-source.ts` drops trashed hits from the list, and a related message opened from outside the list is put on top of it: the numbers shift. |
| SearchAnswers, `search` with `MCRareRows` giving "odd" a rare word | `NearAnswers`: "If nothing clears it, fall back to keyword search and never attach an answer" (`semantic.ts`). A message with a rare word of the query gets an answer however far it is. |
| Session, `session` | `DroppedOnlyIfRefused`: an expired or invalid JWT is dropped (`api-client.ts`). What is dropped is the token stored when the 401 arrives, which may be a newer one. |

### Further observations

Reading the code for the models showed these; each is what the named actions do.

* List: the auto sync stops when the last batch exceeds a page; a failed page of the database is not latched
  (`VibeMailApp.tsx:336`), unlike a failed batch (its comment, 239-243); a poll after rows have left the inbox
  puts rows in the wrong order; the fallback of a question to the keyword search ignores the cursor; while the
  debounce timer runs an older response is still shown.
* Actions: overlapping PATCHes of one message take away each other's pending mark, and the rollback of the
  first undoes the success of the second; a reload during a PATCH leaves stale `label_ids`; a poll adds a row
  again that is being deleted for ever; `deleteForeverSelected` never reaches the server.
* Demo: a sent message in the trash stays "sent", `archived: false` also removes TRASH, nothing is ever in its
  state already; the demo's search includes drafts.
* Compose: a form that has found the row of a draft sends what is in Gmail, which a PATCH from another form may
  have replaced before it renames the row; a closed form's answer enables the buttons of the next one while its
  own call is in flight. "Try again" always sends, also after a failed save, and does not wait for uploads; the
  fields can be edited while the form is being sent, and those edits are lost; attachments of a draft, and uploads that failed, are left out without a word; staged files
  are never deleted.
* Session: signing out in one tab shows "session expired" in the other; a 401 after signing out sets the
  reason again (`AuthProvider.tsx:44`); a revoked grant never leads to the sign-in page, only to errors; a late
  silent refresh can put back an access token of a dead grant for up to an hour.
* Retrieval: `match_messages` applies its limit before trash and drafts are dropped, so a page may be short.

### Fairness

`gmail_live` builds it into the specification only for the webhook. A started invocation runs on: weak
fairness of its steps; the platform runs a function to its end or kills it, and kills are in the model, so the
property assumes that they do not go on for ever (`KillsStop`). Pub/Sub pushes a message again until it is
acknowledged: strong fairness of `Receive` for every notification, since an invocation is free again and again
but not permanently. No fairness is assumed of the mailbox, the user or imports, and of the renewal job only
as the premise of `RenewalRecovers`, `RenewalGoesOn`: the job runs every day, and some renewal of the user
succeeds in the end; it may fail any number of times before. `AnnouncedIsMirrored` excepts changes whose
history Gmail has dropped: the renewal replaces the checkpoint, it does not fetch them. In this run `MayThrow`
is FALSE: an error that the entry point swallows acknowledges the notification, and only a later notification
repairs that, which nothing guarantees. The property is about announced changes, that is, changes with a
notification waiting.

`compose`: a request is answered, by an error at the latest when the platform stops the function, and the
browser runs the handler: weak fairness of serving (the steps of requests) and of answering.

`search`: weak fairness of the debounce timer and of the requests (the route, the model's attempts, the
fallback, the arrival). The model's provider may refuse for ever; that the attempts end is what the property
is about.

`session`: weak fairness of loading a page, of the poll's timer, of an answer, of an invocation's steps and its
writes, and of the hour an access token lives; strong fairness of a refusal that reaches the tab, since the
network may lose any single answer. The poll's timer exists only in a folder. Nothing is assumed of the user,
and `Revoke` does not fall into the seconds a login takes.

## 4. Proofs

All theorems hold for any sets of messages, processes, labels and texts and any caps; the assumptions are the
ones named in the modules (`ConstantsAssumption`, `LabelsAssumption`, `DraftAssumption`, `MemoryAssumption`,
`ChunkingAssumption`, `ActionsAssumption`, `ComposeAssumption`, `RetrievalAssumption`, `SearchAssumption`,
`MaxLoginsAssumption`): sets of processes that should differ are
disjoint, bounds are natural numbers, the set of messages is finite, a user's labels are none of Gmail's own.

**GmailSyncProofs** (`TypeCorrect`, `Inductive`, `CheckpointSafe`, `RowsSafe`, `InboxSafe`,
`MirrorImplemented`). `CheckpointCovered` is not inductive: a delivery that is about to advance the checkpoint
must know that what it passes over is stored. `IInv` adds what each process knows between its steps:
`HookKnows` (it started from a covered checkpoint and still has every change up to its notification on its
list or in its batch), `ImpKnows` (the version in hand is the newest or will be listed again), `BeforeStart`
(nothing is imported before a checkpoint exists) and `WithinHistory`. What the other processes know survives a
step because every step only moves the mirror forward: versions grow, stored versions grow, the first
checkpoint stays, deleted messages stay deleted. That is stated once, as a relation between two states, and
every action is shown to satisfy it. `MirrorImplemented` then uses `IInv` where a step maps to `Acknowledge`.

**MessageLabelsProofs** (`TypeCorrect`, `StatusSafe`, `LabelsInductive`, `SerialSafe`). `StatusInv` adds
to `StatusCoherent` that a send which could still rename its row is owed a delivery: Gmail lists the message it
has made, and the delivery that takes this off the delta stores the row first. For `SerialMirror`, `LInv` says
that while no process has started beside another one at most one is running, that either the next delta lists
the message or the row is what Gmail's labels give, and what the running process adds to that (`InStep`): a
request that has modified Gmail has made the message pending, a delivery has taken the change with it, and so
on.

**DraftLifecycleProofs** (`TypeCorrect`, `DraftsInductive`, `DraftSafe`, `SentSafe`, `SerialSafe`). Message ids
are fresh: one that has stopped being the draft's never is again, and one that was not sent never will be.
`DInv` records what requests and deliveries may conclude from that about the ids they hold. One lemma says that
the knowledge of the other processes survives any step, and each handler has a lemma of its own. The types are
inductive only together with `DInv`, since a row is addressed by an id held in a process. For `SerialDrafts`,
`SerialInv` says that while nothing overlaps or fails at most one process runs, that the ids with a row are
those of the draft and of the sent message except for what the running request has done in Gmail and not yet
stored (`Exact`, `InStep`), and that a delivery stores only one of those two ids.

**MemoryIndexProofs** (`TypeCorrect`, `MemoryInductive`, `WholeSafe`, `KeptSafe`, `SerialIndexed`). Every
text has a chunk 0, so by the unique key an insert goes into an empty table or is refused: no mixture
(`ChunksWhole`). A table that has had chunks is empty only while some rebuild is between its delete and its
insert, or was cut off there (`ChunksKept`). While nothing overlaps or fails the running process is alone and
what it has read is still so (`InStep`), hence `SerialCurrent`.

**MailActionsProofs** (`TypeCorrect`, `OptimisticSafe`, `SettledSafe`, `DemoSafe`). `OptimisticHolds` is about a list that
shows the message; that it is inductive needs `OneShown`: while `calm` holds one call at most is outstanding,
and the list, if it has the message, shows what that call has put there and keeps the pending mark, so no page
replaces it. For `SettledAgrees`, `CallsAgree` says what the one outstanding call will leave: answered, the
client has the row the store made of it, refused, what was rolled back is the row as it is; `PagesFresh` says
that a page on its way shows the row or will be refused by the pending mark. Each command has two lemmas, one
for a row it changes and one for a row that already is what it asks for. The label sets a row can have follow
from the stores (`Made`): no reachable row of the demo has INBOX, SENT and TRASH at once. `DemoAgrees` needs `RowCoherent`: the columns of a row with neither SENT nor DRAFT follow from
its labels, in both stores. Then it is label arithmetic: for each command the two stores make label sets that
differ in nothing flags and folders tell apart (`AlikeResults`, `AlikeShows`).

**ComposeProofs** (`TypeCorrect`, `SendSafe`, `DraftSafe`, `WrittenSafe`). The types need `TInv`: what a request
carries at each of its steps, that it belongs to a form if it sends or stores, and that the ids two requests are
about to give to rows differ, from each other and from those of the rows, so that an id keeps naming one row
while renames interleave. For `DraftSentOnce`, `OInv`: Gmail has a draft once, and none that it has sent,
whatever fails. For `SentOnce`, `FInv` says what an enabled form stands for while `calm` holds: it has not been
sent and no call of it is in flight; a form that waits has exactly one call, and its mail exists only when that
call has sent and not yet written its row. For `SentAsWritten`, `WInv` adds the series of a draft while
`serial` holds (`InSeries`): at most one request is between its read and its write when one of them is a PATCH,
a request that sends holds the id its own PATCH gave to the row, and as long as a row has that id Gmail has the
text of that form, or the PATCH that has replaced it is about to take the id away; and ids are fresh.

**MailListProofs** (`TypeSafe`, `BackfillReaches`, `ViewSafe`, `ExactSafe`). First what the sets of rows do:
the n newest rows of a set and its listing from the newest to the oldest. `Descending` is a function on
`1..Cardinality`, each value a choice that needs a witness, so the facts that would take an induction are
proved from a least counterexample (a nonempty set of naturals has a least element). The invariants are
inductive with three strengthenings, which TLC checked first: `MailboxStored` (the database holds the newest
messages of the inbox, and a walk has stored everything down to its token and counted nothing twice), which
gives `BackfillReachesTarget`; `RequestsFit` (the newest request is for the view on the screen, a poll runs
only in a folder, load more outlives its view only when it is marked stale), which gives `ListOfView`; and
`InboxStretch` (the list is a stretch of the inbox, both cursors are its last row, above it are only the
arrivals since the last poll, and below it nothing that a poll would bring), which gives `ListExact`.

**ClientProofs** (`TypeSafe`, `AnswerSafe`, `SearchSafe`, `RailSafe`, `BriefSafe`, `SessionTyped`). First
what the operators of Retrieval return: `Ranked` lists each element of a finite set once (in an ordered set no
two elements have the same number of elements before them), `At` keeps what is at the places picked, and so
each list of hits has own messages, none twice, that are near or hold a rare word. The invariants need what the
requests under way carry: while no timer runs, the newest request is for the query in the field and of the
kind the view calls for, or its keyword fallback (`RequestFit`), so only such a page can be shown; what a
reasoner reads is relevant and its text cites only that (`AnswerFit`); a finished keyword search has the mail
that contains the query, as it is now (`KeywordFit`), which is why `SearchFinds` leaves out messages that are
moved meanwhile; and the rail and the requests for it that were not cancelled belong to the open message
(`RailsFit`). TLC checked these before they were proved. `BriefResolves` is an action property: the server has
dropped from a brief's hits what the client would drop, so the list has the numbering of the reasoner.
`SessionTyped` is about Session by INSTANCE, with the assumption on `MaxLogins` as hypothesis: the types need
what a login and a refresh know between their steps, a tab that is signing in has a login, and nobody writes
tokens before the row exists.

**MemoryIndexProofs**, second part (`SlicesSafe`). `SlicesFollow` says that each slice begins after the one
before it and no later than the overlap before that one's end, and that the next one will; with
`ChunkOverlap + 2 < ChunkSize` a turn of the loop keeps it. That every stretch lies in some slice is then a
least counterexample: the first slice whose successor begins after the stretch does.

Not proved, only checked by TLC: liveness (`AnnouncedIsMirrored`, `RenewalRecovers`, `SendingEnds`,
`SearchEnds`, `RequestsRecover` and `SessionEnds`), which is outside what the prover covers. Every other
property of the passing runs is a theorem.

## 5. Not modelled

* Token encryption and decryption (a bijection nothing depends on), `refreshAccessToken` (nobody calls it),
  dispatch and error codes other than the 401.
* What a message says: headers, bodies, MIME. Two contents are told apart by their version, their labels or
  their text as values. What `chunk.ts` puts before a slice (sender and subject) and its refusal of a chunk
  over 2000 characters.
* Wall-clock time: which users the renewal job picks, when a watch lapses, and when a token expires are
  nondeterministic.
* Paging of the Gmail listings inside one call, which is one step.
* What an upload answers when its item was removed or its form closed: the code looks for the item by its local
  id, finds none and changes nothing, so `Compose` has no step for it.
* Downloads of received attachments: they stage a copy and return a URL, and change nothing else.
* Wording of prompts and answers, distances as numbers: what is near what is a constant of the mailbox.
* Of the client: label counts other than the inbox's, selection and its survival of a changed query, keyboard
  focus, toasts, layout, `SettingsProvider` (display settings in `localStorage`), and the presentation
  components, which render state and call back.
* The demo's fixed data.

## 6. Plan

Done: all modules of section 2, with the theorems of section 4.

Next, in this order:

1. **What liveness rests on**, as theorems: while a form is being sent a call of it is outstanding, while a page
   loads its request is, a notification that is not acknowledged can be delivered. They are the safe halves of
   `SendingEnds`, `SearchEnds` and `AnnouncedIsMirrored`.
2. **An abstract list** (a stretch of a mailbox that only grows, shrinks and follows it), implemented by MailList
   while it is not mixed or shifted, as CheckpointedMirror is by GmailSync.
3. **`chunkMessage`**: the header of each slice, its limit, and the refusal of a message whose sender and subject
   leave no room.
