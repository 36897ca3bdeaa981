----------------------------- MODULE MemoryIndex -----------------------------
(***************************************************************************)
(* The chunks of one message, and everything that rebuilds them:           *)
(*   - the mirror: webhook, initial sync, backfill   sync/, memory/ingest  *)
(*   - POST and PATCH /drafts, POST /drafts/:id/send routes/drafts/        *)
(*   - npm run embed:backfill             scripts/backfill-embeddings.ts   *)
(* Followed is one row of messages, with its text (subject and body) and   *)
(* the rows of message_chunks that refer to it. A rebuild embeds, deletes  *)
(* and inserts in three separate calls; nothing locks the message.         *)
(***************************************************************************)
EXTENDS Integers

CONSTANTS
  Bodies,       \* texts of the message
  NoBody,       \* no text: the snapshot found no row
  Size,         \* Size[b]: into how many slices splitBody cuts b
  Rendered,     \* Rendered[b]: what Gmail returns for b (line ends, encoding)
  Upserters,    \* mirror processes that may run at the same time
  Requests,     \* draft requests that may run at the same time
  Scripts,      \* running embedding backfills
  MaxMsg,       \* bound: message ids the draft goes through
  MaxRow        \* bound: primary keys handed out

ASSUME MemoryAssumption ==
  /\ NoBody \notin Bodies
  /\ Size \in [Bodies -> Nat \ {0}]
  /\ Rendered \in [Bodies -> Bodies]
  /\ MaxMsg \in Nat /\ MaxRow \in Nat \ {0}

VARIABLES
  mail,      \* the message in Gmail: id, text, and whether it was sent
  row,       \* the row: primary key (0: no row), gmail_id, text
  lastRow,   \* primary keys handed out: 1 .. lastRow
  chunks,    \* rows of message_chunks that refer to the row
  proc,      \* proc[p]: state of a process
  indexed,   \* history: the row has had chunks
  broken,    \* history: a rebuild was cut off at its delete or insert
  clean      \* history: no overlap and no failed call

vars == <<mail, row, lastRow, chunks, proc, indexed, broken, clean>>

Procs == Upserters \cup Requests \cup Scripts

NoRow == [key |-> 0, id |-> 0, body |-> NoBody]

Stopped(pc) ==
  [pc |-> pc, key |-> 0, id |-> 0, new |-> 0, body |-> NoBody, prev |-> NoBody]

Busy(p) == proc[p].pc \notin {"idle", "done", "failed"}

Starts(p) ==
  /\ ~Busy(p)
  /\ clean' = (clean /\ \A q \in Procs : ~Busy(q))

Ends(p, pc) == proc' = [proc EXCEPT ![p] = Stopped(pc)]

Goes(p, pc) == proc' = [proc EXCEPT ![p].pc = pc]

\* No row yet; or one from before message_chunks existed: it has key 1.
Init ==
  /\ \E b \in Bodies : mail = [id |-> 1, body |-> b, sent |-> FALSE]
  /\ row \in {NoRow, [key |-> 1, id |-> 1, body |-> mail.body]}
  /\ lastRow = 1
  /\ chunks = {}
  /\ proc = [p \in Procs |-> Stopped("idle")]
  /\ indexed = FALSE /\ broken = FALSE /\ clean = TRUE

(***************************************************************************)
(* ingestMessageChunks                                                     *)
(***************************************************************************)

\* Mutant: the last slice is lost.
ChunksOf_LosesLast(b) == {[index |-> i, body |-> b] : i \in 0..(Size[b] - 2)}

\* Every text, the empty one too, has a chunk 0.
ChunksOf(b) == {[index |-> i, body |-> b] : i \in 0..(Size[b] - 1)}

Embed(p) ==
  /\ proc[p].pc = "embed"
  /\ Goes(p, "delete")
  /\ UNCHANGED <<mail, row, lastRow, chunks, indexed, broken, clean>>

Deleted(p) == IF proc[p].key = row.key THEN {} ELSE chunks

DeleteChunks(p) ==
  /\ proc[p].pc = "delete"
  /\ chunks' = Deleted(p)
  /\ Goes(p, "insert")
  /\ UNCHANGED <<mail, row, lastRow, indexed, broken, clean>>

\* withWriteRetry: applied, but the answer is lost; the call is repeated.
DeleteUnanswered(p) ==
  /\ proc[p].pc = "delete"
  /\ chunks' = Deleted(p)
  /\ clean' = FALSE
  /\ UNCHANGED <<mail, row, lastRow, proc, indexed, broken>>

\* UNIQUE (message_id, chunk_index).
Taken(p) ==
  \E c \in chunks : \E d \in ChunksOf(proc[p].body) : c.index = d.index

\* The foreign key and the unique constraint admit the rows.
Insertable(p) == proc[p].key = row.key /\ row # NoRow /\ ~Taken(p)

\* Mutant: rows that are there already are skipped, ON CONFLICT DO NOTHING.
InsertChunks_SkipsTaken(p) ==
  /\ proc[p].pc = "insert" /\ proc[p].key = row.key /\ row # NoRow
  /\ chunks' = chunks \cup
       {d \in ChunksOf(proc[p].body) : \A c \in chunks : c.index # d.index}
  /\ indexed' = TRUE
  /\ Ends(p, "done")
  /\ UNCHANGED <<mail, row, lastRow, broken, clean>>

InsertChunks(p) ==
  /\ proc[p].pc = "insert" /\ Insertable(p)
  /\ chunks' = chunks \cup ChunksOf(proc[p].body)
  /\ indexed' = TRUE
  /\ Ends(p, "done")
  /\ UNCHANGED <<mail, row, lastRow, broken, clean>>

\* The repeated insert will meet its own rows.
InsertUnanswered(p) ==
  /\ proc[p].pc = "insert" /\ Insertable(p)
  /\ chunks' = chunks \cup ChunksOf(proc[p].body)
  /\ indexed' = TRUE
  /\ clean' = FALSE
  /\ UNCHANGED <<mail, row, lastRow, proc, broken>>

\* CHUNK_INSERT_FAILED.
InsertRefused(p) ==
  /\ proc[p].pc = "insert" /\ ~Insertable(p)
  /\ Ends(p, "failed")
  /\ clean' = FALSE
  /\ UNCHANGED <<mail, row, lastRow, chunks, indexed, broken>>

\* Any call fails, embedding above all, or the function is killed.
Fails(p) ==
  /\ Busy(p)
  /\ Ends(p, "failed")
  /\ broken' = (broken \/ proc[p].pc \in {"delete", "insert"})
  /\ clean' = FALSE
  /\ UNCHANGED <<mail, row, lastRow, chunks, indexed>>

IngestMessageChunks(p) ==
  \/ Embed(p)
  \/ DeleteChunks(p) \/ DeleteUnanswered(p)
  \/ InsertChunks(p) \/ InsertUnanswered(p) \/ InsertRefused(p)

(***************************************************************************)
(* The mirror: upsertMessages, and upsertMessage in the import loops.      *)
(***************************************************************************)
Fetch(u) ==
  /\ Starts(u)
  /\ proc' = [proc EXCEPT ![u] =
       [Stopped("snapshot") EXCEPT !.id = mail.id, !.body = mail.body]]
  /\ UNCHANGED <<mail, row, lastRow, chunks, indexed, broken>>

SnapshotMessageContent(u) ==
  /\ proc[u].pc = "snapshot"
  /\ proc' = [proc EXCEPT ![u].pc = "upsert",
       ![u].prev = IF row.id = proc[u].id THEN row.body ELSE NoBody]
  /\ UNCHANGED <<mail, row, lastRow, chunks, indexed, broken, clean>>

\* ON CONFLICT (gmail_id) DO UPDATE keeps the primary key.
UpsertRow(p) ==
  \/ /\ row.id = proc[p].id
     /\ row' = [row EXCEPT !.body = proc[p].body]
     /\ lastRow' = lastRow
  \/ /\ row = NoRow /\ lastRow < MaxRow
     /\ row' = [key |-> lastRow + 1, id |-> proc[p].id, body |-> proc[p].body]
     /\ lastRow' = lastRow + 1

Upsert(u) ==
  /\ proc[u].pc = "upsert"
  /\ UpsertRow(u)
  /\ Goes(u, "ingest")
  /\ UNCHANGED <<mail, chunks, indexed, broken, clean>>

\* The row stands for another message id: the upsert makes a row of its own.
UpsertElsewhere(p) ==
  /\ proc[p].pc \in {"upsert", "storeNew"} /\ row # NoRow /\ row.id # proc[p].id
  /\ Ends(p, "done")
  /\ UNCHANGED <<mail, row, lastRow, chunks, indexed, broken, clean>>

\* Mutant: only new messages are embedded.
Changed_New(p) == proc[p].prev = NoBody

\* The text differs from what the process read before it wrote.
Changed(p) == proc[p].prev # proc[p].body

SkipUnchanged(u) ==
  /\ proc[u].pc = "ingest" /\ ~Changed(u)
  /\ Ends(u, "done")
  /\ UNCHANGED <<mail, row, lastRow, chunks, indexed, broken, clean>>

\* Mutant: the missing primary key is not noticed.
IngestChanged_Unchecked(u) ==
  /\ proc[u].pc = "ingest" /\ Changed(u)
  /\ proc' = [proc EXCEPT ![u].pc = "embed", ![u].key = row.key]
  /\ UNCHANGED <<mail, row, lastRow, chunks, indexed, broken, clean>>

IngestChanged(u) ==
  /\ proc[u].pc = "ingest" /\ Changed(u) /\ row.id = proc[u].id
  /\ proc' = [proc EXCEPT ![u].pc = "embed", ![u].key = row.key]
  /\ UNCHANGED <<mail, row, lastRow, chunks, indexed, broken, clean>>

\* "No messages.id for gmail_id after upsert": deleted or renamed meanwhile.
RowVanished(u) ==
  /\ proc[u].pc = "ingest" /\ Changed(u) /\ row.id # proc[u].id
  /\ Ends(u, "failed")
  /\ clean' = FALSE
  /\ UNCHANGED <<mail, row, lastRow, chunks, indexed, broken>>

UpsertMessage(u) ==
  \/ Fetch(u) \/ SnapshotMessageContent(u)
  \/ Upsert(u) \/ UpsertElsewhere(u)
  \/ SkipUnchanged(u) \/ IngestChanged(u) \/ RowVanished(u)

(***************************************************************************)
(* POST and PATCH /api/v1/drafts, and POST /api/v1/drafts/:id/send. The    *)
(* last two give the message a new id. POST stores Gmail's text, PATCH the *)
(* text of the request, and both always rebuild; send stores Gmail's text  *)
(* and rebuilds if it is another than the one it read first.               *)
(***************************************************************************)
CreateDraft(r) ==
  /\ Starts(r) /\ row = NoRow /\ lastRow = 1 /\ mail.id = 1
  /\ proc' = [proc EXCEPT ![r] =
       [Stopped("storeNew") EXCEPT !.id = mail.id, !.body = mail.body]]
  /\ UNCHANGED <<mail, row, lastRow, chunks, indexed, broken>>

StoreCreated(r) ==
  /\ proc[r].pc = "storeNew"
  /\ UpsertRow(r)
  /\ proc' = [proc EXCEPT ![r].pc = "embed", ![r].key = row'.key]
  /\ UNCHANGED <<mail, chunks, indexed, broken, clean>>

ReadDraft(r) ==
  /\ Starts(r) /\ row # NoRow
  /\ proc' = [proc EXCEPT ![r] =
       [Stopped("call") EXCEPT !.key = row.key, !.id = row.id, !.prev = row.body]]
  /\ UNCHANGED <<mail, row, lastRow, chunks, indexed, broken>>

UpdateInGmail(r, b) ==
  /\ proc[r].pc = "call" /\ ~mail.sent /\ mail.id < MaxMsg
  /\ mail' = [mail EXCEPT !.id = @ + 1, !.body = Rendered[b]]
  /\ proc' = [proc EXCEPT ![r].pc = "storeEdit", ![r].new = mail.id + 1, ![r].body = b]
  /\ UNCHANGED <<row, lastRow, chunks, indexed, broken, clean>>

SendInGmail(r) ==
  /\ proc[r].pc = "call" /\ ~mail.sent /\ mail.id < MaxMsg
  /\ mail' = [mail EXCEPT !.id = @ + 1, !.sent = TRUE]
  /\ proc' = [proc EXCEPT
       ![r].pc = "storeSent", ![r].new = mail.id + 1, ![r].body = mail.body]
  /\ UNCHANGED <<row, lastRow, chunks, indexed, broken, clean>>

\* UPDATE ... WHERE gmail_id = old: no such row, no effect and no error.
Renamed(r) ==
  IF row # NoRow /\ row.id = proc[r].id
  THEN [row EXCEPT !.id = proc[r].new, !.body = proc[r].body] ELSE row

StoreEdit(r) ==
  /\ proc[r].pc = "storeEdit"
  /\ row' = Renamed(r)
  /\ Goes(r, "embed")
  /\ UNCHANGED <<mail, lastRow, chunks, indexed, broken, clean>>

StoreSent(r) ==
  /\ proc[r].pc = "storeSent"
  /\ row' = Renamed(r)
  /\ IF Changed(r) THEN Goes(r, "embed") ELSE Ends(r, "done")
  /\ UNCHANGED <<mail, lastRow, chunks, indexed, broken, clean>>

DraftRequest(r) ==
  \/ CreateDraft(r) \/ StoreCreated(r) \/ UpsertElsewhere(r)
  \/ ReadDraft(r)
  \/ \E b \in Bodies : UpdateInGmail(r, b)
  \/ SendInGmail(r)
  \/ StoreEdit(r) \/ StoreSent(r)

\* DELETE, of the message or of the draft: ON DELETE CASCADE.
DropRow ==
  /\ row # NoRow
  /\ row' = NoRow /\ chunks' = {}
  /\ indexed' = FALSE
  /\ clean' = (clean /\ \A p \in Procs : ~Busy(p))
  /\ UNCHANGED <<mail, lastRow, proc, broken>>

(***************************************************************************)
(* npm run embed:backfill: first the messages that have chunks are listed, *)
(* then the rows are read, and the batch is worked off one by one.         *)
(***************************************************************************)
ListUnchunked(s) ==
  /\ Starts(s) /\ chunks = {}
  /\ proc' = [proc EXCEPT ![s] = Stopped("batch")]
  /\ UNCHANGED <<mail, row, lastRow, chunks, indexed, broken>>

FetchUnchunked(s) ==
  /\ proc[s].pc = "batch" /\ row # NoRow
  /\ proc' = [proc EXCEPT ![s].pc = "embed", ![s].key = row.key, ![s].body = row.body]
  /\ UNCHANGED <<mail, row, lastRow, chunks, indexed, broken, clean>>

BackfillEmbeddings(s) == ListUnchunked(s) \/ FetchUnchunked(s)

Next ==
  \/ \E u \in Upserters : UpsertMessage(u)
  \/ \E r \in Requests : DraftRequest(r)
  \/ \E s \in Scripts : BackfillEmbeddings(s)
  \/ \E p \in Procs : IngestMessageChunks(p) \/ Fails(p)
  \/ DropRow

Spec == Init /\ [][Next]_vars

(***************************************************************************)
(* Properties                                                              *)
(***************************************************************************)
ProcState ==
  [pc : {"idle", "done", "failed", "snapshot", "upsert", "ingest", "storeNew",
         "call", "storeEdit", "storeSent", "batch", "embed", "delete", "insert"},
   key : Nat, id : Nat, new : Nat,
   body : Bodies \cup {NoBody}, prev : Bodies \cup {NoBody}]

\* What a process holds at which step.
Holds(p) ==
  /\ proc[p].pc \in {"snapshot", "upsert", "ingest", "storeNew", "storeEdit",
                     "storeSent", "embed", "delete", "insert"} => proc[p].body \in Bodies
  /\ proc[p].pc \in {"snapshot", "upsert", "ingest", "storeNew"} => proc[p].id # 0
  /\ proc[p].pc \in {"call", "storeEdit", "storeSent", "embed", "delete", "insert"} =>
       proc[p].key # 0
  /\ proc[p].pc \in {"storeEdit", "storeSent"} => proc[p].new # 0

\* Type invariant.
TypeOK ==
  /\ mail \in [id : Nat \ {0}, body : Bodies, sent : BOOLEAN]
  /\ row \in [key : Nat \ {0}, id : Nat \ {0}, body : Bodies] \cup {NoRow}
  /\ lastRow \in 1..MaxRow
  /\ chunks \subseteq [index : Nat, body : Bodies]
  /\ proc \in [Procs -> ProcState]
  /\ \A p \in Procs : Holds(p)
  /\ indexed \in BOOLEAN /\ broken \in BOOLEAN /\ clean \in BOOLEAN

\* The migration's "UNIQUE (message_id, chunk_index) makes delete-and-rebuild ...
\* safe": however rebuilds interleave and calls are repeated, a message has
\* either no chunk or exactly the chunks of one text, never those of two.
ChunksWhole ==
  /\ chunks # {} => \E b \in Bodies : chunks = ChunksOf(b)
  /\ row = NoRow => chunks = {}

\* A message that has had chunks keeps some: overlapping rebuilds may refuse each
\* other's rows, but the last delete is followed by an insert that succeeds,
\* unless a rebuild was cut off in between.
ChunksKept ==
  row # NoRow /\ indexed /\ ~broken =>
    \/ chunks # {}
    \/ \E p \in Procs : proc[p].pc \in {"delete", "insert"} /\ proc[p].key = row.key

Current == chunks = ChunksOf(row.body)

\* Rows from before message_chunks existed wait for the embedding backfill.
Due == row # NoRow /\ (indexed \/ row.key > 1)

\* memory_contract.md: insert and edit rebuild, unchanged text is skipped. Without
\* overlap or failure that keeps the chunks those of the stored text, whatever
\* sequence of mirroring, edits, sending, deletion and backfills the message sees.
SerialCurrent == clean /\ (\A p \in Procs : ~Busy(p)) /\ Due => Current

\* memory_contract.md: "Chunk and embed before the message can be retrieved". A
\* mirror process that ended well has left the chunks of the stored text.
DoneIsIndexed ==
  \A u \in Upserters :
    proc[u].pc = "done" /\ row # NoRow /\ row.key > 1 => Current

(***************************************************************************)
(* The inductive invariant: while nothing has overlapped or failed, a      *)
(* running process is alone and what it has read is still so.              *)
(***************************************************************************)
InStep(p) ==
  /\ proc[p].pc \in {"snapshot", "upsert", "storeNew", "call", "storeEdit",
                     "storeSent", "batch"} /\ Due => Current
  /\ proc[p].pc = "upsert" =>
       proc[p].prev = IF row.id = proc[p].id THEN row.body ELSE NoBody
  /\ proc[p].pc = "ingest" =>
       /\ row # NoRow /\ row.id = proc[p].id /\ row.body = proc[p].body
       /\ ~Changed(p) /\ Due => Current
  /\ proc[p].pc \in {"call", "storeEdit", "storeSent"} =>
       /\ row # NoRow /\ row.key = proc[p].key
       /\ row.id = proc[p].id /\ row.body = proc[p].prev
  /\ proc[p].pc \in {"embed", "delete", "insert"} =>
       row # NoRow /\ row.key = proc[p].key /\ row.body = proc[p].body

Alone == \A p, q \in Procs : Busy(p) /\ Busy(q) => p = q

MInv ==
  /\ ChunksWhole
  /\ ChunksKept
  /\ row = NoRow => ~indexed
  /\ SerialCurrent
  /\ clean => Alone /\ \A p \in Procs : InStep(p)

=============================================================================
