-------------------------- MODULE MemoryIndexProofs --------------------------
(***************************************************************************)
(* Proofs about MemoryIndex, and at the end about Chunking.                *)
(*                                                                         *)
(* TypeOK is inductive by itself. MInv is inductive relative to it: a      *)
(* whole table has a chunk 0 and so has every text, so an insert goes into *)
(* an empty table or is refused; a table that has had chunks is empty only *)
(* while a rebuild is between its delete and its insert; and a process     *)
(* that runs alone still sees what it read.                                *)
(***************************************************************************)
EXTENDS MemoryIndex, Chunking, TLAPS, SequenceTheorems, WellFoundedInduction

\* Every text has a chunk 0.
LEMMA ChunkZero ==
  ASSUME NEW b \in Bodies
  PROVE  [index |-> 0, body |-> b] \in ChunksOf(b)
<1>1. Size[b] \in Nat \ {0}
  BY MemoryAssumption
<1>2. 0 \in 0..(Size[b] - 1)
  BY <1>1
<1> QED
  BY <1>2 DEF ChunksOf

LEMMA ChunksTyped ==
  ASSUME NEW b \in Bodies
  PROVE  ChunksOf(b) \subseteq [index : Nat, body : Bodies]
<1>1. Size[b] \in Nat \ {0}
  BY MemoryAssumption
<1> QED
  BY <1>1 DEF ChunksOf

\* Only an empty table takes an insert.
LEMMA InsertsIntoEmpty ==
  ASSUME NEW p \in Procs, TypeOK, ChunksWhole, proc[p].body \in Bodies, Insertable(p)
  PROVE  chunks = {}
<1>1. SUFFICES ASSUME chunks # {} PROVE FALSE
  OBVIOUS
<1>2. PICK b \in Bodies : chunks = ChunksOf(b)
  BY <1>1 DEF ChunksWhole
<1>3. [index |-> 0, body |-> b] \in chunks
  BY <1>2, ChunkZero
<1>4. [index |-> 0, body |-> proc[p].body] \in ChunksOf(proc[p].body)
  BY ChunkZero
<1> QED
  BY <1>3, <1>4 DEF Insertable, Taken

(***************************************************************************)
(* Types                                                                   *)
(***************************************************************************)
LEMMA TypeInit == Init => TypeOK
<1> SUFFICES ASSUME Init PROVE TypeOK
  OBVIOUS
<1> USE MemoryAssumption
<1>1. PICK b \in Bodies : mail = [id |-> 1, body |-> b, sent |-> FALSE]
  BY DEF Init
<1>2. row \in [key : Nat \ {0}, id : Nat \ {0}, body : Bodies] \cup {NoRow}
  BY <1>1 DEF Init
<1>3. mail \in [id : Nat \ {0}, body : Bodies, sent : BOOLEAN]
  BY <1>1
<1>4. lastRow \in 1..MaxRow /\ chunks \subseteq [index : Nat, body : Bodies]
  BY DEF Init
<1>7. indexed \in BOOLEAN /\ broken \in BOOLEAN /\ clean \in BOOLEAN
  BY Zenon DEF Init
<1>5. proc \in [Procs -> ProcState]
  BY DEF Init, Stopped, ProcState
<1>6. ASSUME NEW p \in Procs PROVE Holds(p)
  BY DEF Init, Stopped, Holds
<1> QED
  BY <1>2, <1>3, <1>4, <1>5, <1>6, <1>7 DEF TypeOK

\* What TypeOK says about the process that takes a step.
HoldsState(s) ==
  /\ s \in ProcState
  /\ s.pc \in {"snapshot", "upsert", "ingest", "storeNew", "storeEdit",
               "storeSent", "embed", "delete", "insert"} => s.body \in Bodies
  /\ s.pc \in {"snapshot", "upsert", "ingest", "storeNew"} => s.id # 0
  /\ s.pc \in {"call", "storeEdit", "storeSent", "embed", "delete", "insert"} => s.key # 0
  /\ s.pc \in {"storeEdit", "storeSent"} => s.new # 0

LEMMA ProcTyped ==
  ASSUME TypeOK, NEW p \in Procs, NEW s, HoldsState(s), proc' = [proc EXCEPT ![p] = s]
  PROVE  proc' \in [Procs -> ProcState] /\ \A q \in Procs : Holds(q)'
<1>1. proc' \in [Procs -> ProcState]
  BY DEF TypeOK, HoldsState
<1>2. ASSUME NEW q \in Procs PROVE Holds(q)'
  <2>1. CASE q = p
    BY <2>1 DEF TypeOK, HoldsState, Holds
  <2>2. CASE q # p
    <3>1. proc'[q] = proc[q]
      BY <2>2 DEF TypeOK
    <3> QED
      BY <3>1 DEF TypeOK, Holds
  <2> QED
    BY <2>1, <2>2
<1> QED
  BY <1>1, <1>2

\* A process that stops, or goes on with what it holds.
LEMMA EndsTyped ==
  ASSUME TypeOK, NEW p \in Procs, NEW pc \in {"done", "failed"}, Ends(p, pc)
  PROVE  proc' \in [Procs -> ProcState] /\ \A q \in Procs : Holds(q)'
<1>1. HoldsState(Stopped(pc))
  BY DEF HoldsState, ProcState, Stopped
<1> QED
  BY <1>1, ProcTyped DEF Ends

LEMMA GoesTyped ==
  ASSUME TypeOK, NEW p \in Procs, NEW pc, Goes(p, pc),
         HoldsState([proc[p] EXCEPT !.pc = pc])
  PROVE  proc' \in [Procs -> ProcState] /\ \A q \in Procs : Holds(q)'
<1>1. proc' = [proc EXCEPT ![p] = [proc[p] EXCEPT !.pc = pc]]
  BY DEF Goes
<1> QED
  BY <1>1, ProcTyped

\* The process part is typed; the rest must be.
LEMMA RestTyped ==
  ASSUME TypeOK, proc' \in [Procs -> ProcState], \A q \in Procs : Holds(q)',
         mail' \in [id : Nat \ {0}, body : Bodies, sent : BOOLEAN],
         row' \in [key : Nat \ {0}, id : Nat \ {0}, body : Bodies] \cup {NoRow},
         lastRow' \in 1..MaxRow,
         chunks' \subseteq [index : Nat, body : Bodies],
         indexed' \in BOOLEAN, broken' \in BOOLEAN, clean' \in BOOLEAN
  PROVE  TypeOK'
  BY DEF TypeOK

LEMMA IngestTyped ==
  ASSUME TypeOK, NEW p \in Procs, IngestMessageChunks(p)
  PROVE  TypeOK'
<1>1. proc[p] \in ProcState /\ Holds(p)
  BY DEF TypeOK
<1>2. CASE Embed(p)
  <2>1. HoldsState([proc[p] EXCEPT !.pc = "delete"])
    BY <1>1, <1>2 DEF Embed, HoldsState, Holds, ProcState
  <2> QED
    BY <1>2, <2>1, GoesTyped, RestTyped DEF Embed, TypeOK
<1>3. CASE DeleteChunks(p)
  <2>1. HoldsState([proc[p] EXCEPT !.pc = "insert"])
    BY <1>1, <1>3 DEF DeleteChunks, HoldsState, Holds, ProcState
  <2> QED
    BY <1>3, <2>1, GoesTyped, RestTyped DEF DeleteChunks, Deleted, TypeOK
<1>4. CASE DeleteUnanswered(p)
  BY <1>4 DEF DeleteUnanswered, Deleted, TypeOK, Holds
<1>5. CASE InsertChunks(p)
  <2>1. ChunksOf(proc[p].body) \subseteq [index : Nat, body : Bodies]
    BY <1>1, <1>5, ChunksTyped DEF InsertChunks, Holds
  <2> QED
    BY <1>5, <2>1, EndsTyped, RestTyped DEF InsertChunks, TypeOK
<1>6. CASE InsertUnanswered(p)
  <2>1. ChunksOf(proc[p].body) \subseteq [index : Nat, body : Bodies]
    BY <1>1, <1>6, ChunksTyped DEF InsertUnanswered, Holds
  <2> QED
    BY <1>6, <2>1 DEF InsertUnanswered, TypeOK, Holds
<1>7. CASE InsertRefused(p)
  BY <1>7, EndsTyped, RestTyped DEF InsertRefused, TypeOK
<1> QED
  BY <1>2, <1>3, <1>4, <1>5, <1>6, <1>7 DEF IngestMessageChunks

\* An upsert that is about the row leaves one, with a key and the text stored.
LEMMA UpsertTyped ==
  ASSUME TypeOK, NEW p \in Procs, UpsertRow(p),
         proc[p].id # 0, proc[p].body \in Bodies
  PROVE  /\ row' \in [key : Nat \ {0}, id : Nat \ {0}, body : Bodies]
         /\ row' # NoRow
         /\ row'.id = proc[p].id /\ row'.body = proc[p].body
         /\ lastRow' \in 1..MaxRow
<1>types. proc[p].id \in Nat
  BY DEF TypeOK, ProcState
<1>1. CASE row.id = proc[p].id /\ row' = [row EXCEPT !.body = proc[p].body] /\ lastRow' = lastRow
  <2>1. row # NoRow
    BY <1>1 DEF NoRow
  <2>2. row \in [key : Nat \ {0}, id : Nat \ {0}, body : Bodies]
    BY <2>1 DEF TypeOK
  <2> QED
    BY <1>1, <2>2 DEF TypeOK, NoRow
<1>2. CASE /\ row = NoRow /\ lastRow < MaxRow
           /\ row' = [key |-> lastRow + 1, id |-> proc[p].id, body |-> proc[p].body]
           /\ lastRow' = lastRow + 1
  <2>1. lastRow' \in 1..MaxRow /\ lastRow + 1 \in Nat \ {0}
    BY <1>2, MemoryAssumption DEF TypeOK
  <2> QED
    BY <1>types, <1>2, <2>1 DEF NoRow
<1> QED
  BY <1>1, <1>2 DEF UpsertRow

LEMMA MirrorTyped ==
  ASSUME TypeOK, NEW u \in Procs, UpsertMessage(u)
  PROVE  TypeOK'
<1>1. proc[u] \in ProcState /\ Holds(u)
  BY DEF TypeOK
<1>2. CASE Fetch(u)
  <2> DEFINE s == [Stopped("snapshot") EXCEPT !.id = mail.id, !.body = mail.body]
  <2>1. HoldsState(s)
    BY DEF HoldsState, ProcState, Stopped, TypeOK
  <2>2. proc' = [proc EXCEPT ![u] = s]
    BY <1>2 DEF Fetch
  <2> HIDE DEF s
  <2>3. clean' \in BOOLEAN
    BY <1>2 DEF Fetch, Starts, TypeOK
  <2> QED
    BY <1>2, <2>1, <2>2, <2>3, ProcTyped, RestTyped DEF Fetch, TypeOK
<1>3. CASE SnapshotMessageContent(u)
  <2> DEFINE prev == IF row.id = proc[u].id THEN row.body ELSE NoBody
  <2> DEFINE s == [proc[u] EXCEPT !.pc = "upsert", !.prev = prev]
  <2>1. prev \in Bodies \cup {NoBody}
    BY DEF TypeOK, NoRow
  <2>2. proc' = [proc EXCEPT ![u] = s]
    BY <1>3 DEF SnapshotMessageContent
  <2> HIDE DEF prev
  <2>3. HoldsState(s)
    BY <1>1, <1>3, <2>1 DEF SnapshotMessageContent, HoldsState, Holds, ProcState
  <2> HIDE DEF s
  <2> QED
    BY <1>3, <2>2, <2>3, ProcTyped, RestTyped DEF SnapshotMessageContent, TypeOK
<1>4. CASE Upsert(u)
  <2>1. HoldsState([proc[u] EXCEPT !.pc = "ingest"])
    BY <1>1, <1>4 DEF Upsert, HoldsState, Holds, ProcState
  <2>2. proc[u].id # 0 /\ proc[u].body \in Bodies
    BY <1>1, <1>4 DEF Upsert, Holds
  <2> QED
    BY <1>4, <2>1, <2>2, GoesTyped, UpsertTyped, RestTyped DEF Upsert, TypeOK
<1>6. CASE UpsertElsewhere(u)
  BY <1>6, EndsTyped, RestTyped DEF UpsertElsewhere, TypeOK
<1>7. CASE SkipUnchanged(u)
  BY <1>7, EndsTyped, RestTyped DEF SkipUnchanged, TypeOK
<1>8. CASE IngestChanged(u)
  <2> DEFINE s == [proc[u] EXCEPT !.pc = "embed", !.key = row.key]
  <2>1. row.key \in Nat \ {0}
    BY <1>1, <1>8 DEF IngestChanged, Holds, TypeOK, NoRow
  <2>2. HoldsState(s)
    BY <1>1, <1>8, <2>1 DEF IngestChanged, HoldsState, Holds, ProcState
  <2>3. proc' = [proc EXCEPT ![u] = s]
    BY <1>8 DEF IngestChanged
  <2> HIDE DEF s
  <2> QED
    BY <1>8, <2>2, <2>3, ProcTyped, RestTyped DEF IngestChanged, TypeOK
<1>9. CASE RowVanished(u)
  BY <1>9, EndsTyped, RestTyped DEF RowVanished, TypeOK
<1> QED
  BY <1>2, <1>3, <1>4, <1>6, <1>7, <1>8, <1>9 DEF UpsertMessage

LEMMA RequestTyped ==
  ASSUME TypeOK, NEW r \in Procs, DraftRequest(r)
  PROVE  TypeOK'
<1>1. proc[r] \in ProcState /\ Holds(r)
  BY DEF TypeOK
<1>2. CASE ReadDraft(r)
  <2> DEFINE s == [Stopped("call") EXCEPT !.key = row.key, !.id = row.id, !.prev = row.body]
  <2>1. HoldsState(s)
    BY <1>2 DEF ReadDraft, HoldsState, ProcState, Stopped, TypeOK
  <2>2. proc' = [proc EXCEPT ![r] = s]
    BY <1>2 DEF ReadDraft
  <2> HIDE DEF s
  <2>3. clean' \in BOOLEAN
    BY <1>2 DEF ReadDraft, Starts, TypeOK
  <2> QED
    BY <1>2, <2>1, <2>2, <2>3, ProcTyped, RestTyped DEF ReadDraft, TypeOK
<1>3. ASSUME NEW b \in Bodies, UpdateInGmail(r, b) PROVE TypeOK'
  <2> DEFINE s == [proc[r] EXCEPT !.pc = "storeEdit", !.new = mail.id + 1, !.body = b]
  <2>1. mail.id + 1 \in Nat \ {0}
    BY DEF TypeOK
  <2>2. HoldsState(s)
    BY <1>1, <1>3, <2>1 DEF UpdateInGmail, HoldsState, Holds, ProcState
  <2>3. proc' = [proc EXCEPT ![r] = s]
    BY <1>3 DEF UpdateInGmail
  <2> HIDE DEF s
  <2>4. mail' \in [id : Nat \ {0}, body : Bodies, sent : BOOLEAN]
    BY <1>3, <2>1, MemoryAssumption DEF UpdateInGmail, TypeOK
  <2> QED
    BY <1>3, <2>2, <2>3, <2>4, ProcTyped, RestTyped DEF UpdateInGmail, TypeOK
<1>4. CASE SendInGmail(r)
  <2> DEFINE s == [proc[r] EXCEPT !.pc = "storeSent", !.new = mail.id + 1, !.body = mail.body]
  <2>1. mail.id + 1 \in Nat \ {0} /\ mail.body \in Bodies
    BY DEF TypeOK
  <2>2. HoldsState(s)
    BY <1>1, <1>4, <2>1 DEF SendInGmail, HoldsState, Holds, ProcState
  <2>3. proc' = [proc EXCEPT ![r] = s]
    BY <1>4 DEF SendInGmail
  <2> HIDE DEF s
  <2>4. mail' \in [id : Nat \ {0}, body : Bodies, sent : BOOLEAN]
    BY <1>4, <2>1 DEF SendInGmail, TypeOK
  <2> QED
    BY <1>4, <2>2, <2>3, <2>4, ProcTyped, RestTyped DEF SendInGmail, TypeOK
<1>5. proc[r].pc \in {"storeEdit", "storeSent"} =>
        Renamed(r) \in [key : Nat \ {0}, id : Nat \ {0}, body : Bodies] \cup {NoRow}
  BY <1>1 DEF Renamed, Holds, ProcState, TypeOK
<1>6. CASE StoreEdit(r)
  <2>1. HoldsState([proc[r] EXCEPT !.pc = "embed"])
    BY <1>1, <1>6 DEF StoreEdit, HoldsState, Holds, ProcState
  <2> QED
    BY <1>5, <1>6, <2>1, GoesTyped, RestTyped DEF StoreEdit, TypeOK
<1>7. CASE StoreSent(r)
  <2>1. HoldsState([proc[r] EXCEPT !.pc = "embed"])
    BY <1>1, <1>7 DEF StoreSent, HoldsState, Holds, ProcState
  <2>2. proc' \in [Procs -> ProcState] /\ \A q \in Procs : Holds(q)'
    BY <1>7, <2>1, GoesTyped, EndsTyped DEF StoreSent
  <2> QED
    BY <1>5, <1>7, <2>2, RestTyped DEF StoreSent, TypeOK
<1>8. CASE CreateDraft(r)
  <2> DEFINE s == [Stopped("storeNew") EXCEPT !.id = mail.id, !.body = mail.body]
  <2>1. HoldsState(s)
    BY DEF HoldsState, ProcState, Stopped, TypeOK
  <2>2. proc' = [proc EXCEPT ![r] = s]
    BY <1>8 DEF CreateDraft
  <2> HIDE DEF s
  <2>3. clean' \in BOOLEAN
    BY <1>8 DEF CreateDraft, Starts, TypeOK
  <2> QED
    BY <1>8, <2>1, <2>2, <2>3, ProcTyped, RestTyped DEF CreateDraft, TypeOK
<1>9. CASE StoreCreated(r)
  <2> DEFINE s == [proc[r] EXCEPT !.pc = "embed", !.key = row'.key]
  <2>1. proc[r].id # 0 /\ proc[r].body \in Bodies
    BY <1>1, <1>9 DEF StoreCreated, Holds
  <2>2. row' \in [key : Nat \ {0}, id : Nat \ {0}, body : Bodies] /\ lastRow' \in 1..MaxRow
    BY <1>9, <2>1, UpsertTyped DEF StoreCreated
  <2>3. HoldsState(s)
    BY <1>1, <2>1, <2>2 DEF HoldsState, ProcState
  <2>4. proc' = [proc EXCEPT ![r] = s]
    BY <1>9 DEF StoreCreated
  <2> HIDE DEF s
  <2> QED
    BY <1>9, <2>2, <2>3, <2>4, ProcTyped, RestTyped DEF StoreCreated, TypeOK
<1>10. CASE UpsertElsewhere(r)
  BY <1>10, EndsTyped, RestTyped DEF UpsertElsewhere, TypeOK
<1> QED
  BY <1>2, <1>3, <1>4, <1>6, <1>7, <1>8, <1>9, <1>10 DEF DraftRequest

LEMMA ScriptTyped ==
  ASSUME TypeOK, NEW s \in Procs, BackfillEmbeddings(s)
  PROVE  TypeOK'
<1>1. CASE ListUnchunked(s)
  <2>1. HoldsState(Stopped("batch"))
    BY DEF HoldsState, ProcState, Stopped
  <2>2. clean' \in BOOLEAN
    BY <1>1 DEF ListUnchunked, Starts, TypeOK
  <2> QED
    BY <1>1, <2>1, <2>2, ProcTyped, RestTyped DEF ListUnchunked, TypeOK
<1>2. CASE FetchUnchunked(s)
  <2> DEFINE t == [proc[s] EXCEPT !.pc = "embed", !.key = row.key, !.body = row.body]
  <2>1. HoldsState(t)
    BY <1>2 DEF FetchUnchunked, HoldsState, ProcState, TypeOK
  <2>2. proc' = [proc EXCEPT ![s] = t]
    BY <1>2 DEF FetchUnchunked
  <2> HIDE DEF t
  <2> QED
    BY <1>2, <2>1, <2>2, ProcTyped, RestTyped DEF FetchUnchunked, TypeOK
<1> QED
  BY <1>1, <1>2 DEF BackfillEmbeddings

LEMMA TypeStep == TypeOK /\ [Next]_vars => TypeOK'
<1> SUFFICES ASSUME TypeOK, [Next]_vars PROVE TypeOK'
  OBVIOUS
<1>1. ASSUME NEW u \in Upserters, UpsertMessage(u) PROVE TypeOK'
  BY <1>1, MirrorTyped DEF Procs
<1>2. ASSUME NEW r \in Requests, DraftRequest(r) PROVE TypeOK'
  BY <1>2, RequestTyped DEF Procs
<1>3. ASSUME NEW s \in Scripts, BackfillEmbeddings(s) PROVE TypeOK'
  BY <1>3, ScriptTyped DEF Procs
<1>4. ASSUME NEW p \in Procs, IngestMessageChunks(p) PROVE TypeOK'
  BY <1>4, IngestTyped
<1>5. ASSUME NEW p \in Procs, Fails(p) PROVE TypeOK'
  <2>1. broken' \in BOOLEAN
    BY <1>5 DEF Fails, TypeOK
  <2> QED
    BY <1>5, <2>1, EndsTyped, RestTyped DEF Fails, TypeOK
<1>6. CASE DropRow
  <2>1. clean' \in BOOLEAN
    BY <1>6 DEF DropRow, TypeOK
  <2>2. \A q \in Procs : Holds(q)'
    BY <1>6 DEF DropRow, TypeOK, Holds
  <2> QED
    BY <1>6, <2>1, <2>2 DEF DropRow, TypeOK
<1>7. CASE UNCHANGED vars
  BY <1>7 DEF vars, TypeOK, Holds
<1> QED
  BY <1>1, <1>2, <1>3, <1>4, <1>5, <1>6, <1>7 DEF Next

\* Every reachable state is well typed, whatever texts, processes and bounds.
THEOREM TypeCorrect == Spec => []TypeOK
BY TypeInit, TypeStep, PTL DEF Spec

(***************************************************************************)
(* The chunk table. Steps other than deletes, inserts and DropRow leave it *)
(* and the row's key as they are.                                          *)
(***************************************************************************)
Table ==
  /\ ChunksWhole
  /\ ChunksKept
  /\ row = NoRow => ~indexed

LEMMA TableQuiet ==
  ASSUME TypeOK, Table, NEW p \in Procs, NEW s, proc' = [proc EXCEPT ![p] = s],
         proc[p].pc \notin {"delete", "insert"},
         chunks' = chunks, indexed' = indexed, broken' = broken,
         row'.key = row.key, row' = NoRow <=> row = NoRow
  PROVE  Table'
<1>1. ChunksWhole' /\ (row' = NoRow => ~indexed')
  BY DEF Table, ChunksWhole
<1>2. ChunksKept'
  <2>1. ASSUME NEW q \in Procs, proc[q].pc \in {"delete", "insert"}
        PROVE  proc'[q] = proc[q]
    BY <2>1 DEF TypeOK
  <2> QED
    BY <2>1 DEF Table, ChunksKept
<1> QED
  BY <1>1, <1>2 DEF Table

LEMMA TableIngest ==
  ASSUME TypeOK, Table, NEW p \in Procs, IngestMessageChunks(p)
  PROVE  Table'
<1>1. proc[p] \in ProcState /\ Holds(p)
  BY DEF TypeOK
<1>2. CASE Embed(p)
  <2>1. proc' = [proc EXCEPT ![p] = [proc[p] EXCEPT !.pc = "delete"]]
    BY <1>2 DEF Embed, Goes
  <2> QED
    BY <1>2, <2>1, TableQuiet DEF Embed
<1>3. ASSUME proc[p].pc = "delete", chunks' = Deleted(p), row' = row, indexed' = indexed,
             broken' = broken, proc'[p].pc \in {"delete", "insert"},
             proc'[p].key = proc[p].key, \A q \in Procs : q # p => proc'[q] = proc[q]
      PROVE  Table'
  <2>1. ChunksWhole' /\ (row' = NoRow => ~indexed')
    BY <1>3 DEF Table, ChunksWhole, Deleted
  <2>2. ChunksKept'
    <3>1. CASE proc[p].key = row.key
      BY <1>3, <3>1 DEF ChunksKept
    <3>2. CASE proc[p].key # row.key
      BY <1>3, <3>2 DEF Table, ChunksKept, Deleted
    <3> QED
      BY <3>1, <3>2
  <2> QED
    BY <2>1, <2>2 DEF Table
<1>4. CASE DeleteChunks(p)
  BY <1>3, <1>4 DEF DeleteChunks, Goes, TypeOK, ProcState
<1>5. CASE DeleteUnanswered(p)
  BY <1>3, <1>5 DEF DeleteUnanswered
<1>6. ASSUME proc[p].pc = "insert", Insertable(p), row' = row,
             chunks' = chunks \cup ChunksOf(proc[p].body)
      PROVE  Table'
  <2>1. proc[p].body \in Bodies
    BY <1>1, <1>6 DEF Holds
  <2>2. chunks' = ChunksOf(proc[p].body)
    BY <1>6, <2>1, InsertsIntoEmpty DEF Table
  <2>3. chunks' # {}
    BY <2>1, <2>2, ChunkZero
  <2>4. row' # NoRow
    BY <1>6 DEF Insertable
  <2> QED
    BY <2>1, <2>2, <2>3, <2>4 DEF Table, ChunksWhole, ChunksKept
<1>7. CASE InsertChunks(p)
  BY <1>6, <1>7 DEF InsertChunks
<1>8. CASE InsertUnanswered(p)
  BY <1>6, <1>8 DEF InsertUnanswered
<1>9. CASE InsertRefused(p)
  <2>1. ChunksWhole' /\ (row' = NoRow => ~indexed')
    BY <1>9 DEF InsertRefused, Table, ChunksWhole
  <2>2. ASSUME NEW q \in Procs, q # p PROVE proc'[q] = proc[q]
    BY <1>9, <2>2 DEF InsertRefused, Ends, TypeOK
  <2>3. CASE proc[p].key = row.key /\ row # NoRow
    <3>1. chunks # {}
      BY <1>9, <2>3 DEF InsertRefused, Insertable, Taken
    <3> QED
      BY <1>9, <2>1, <3>1 DEF InsertRefused, Table, ChunksKept
  <2>4. CASE ~(proc[p].key = row.key /\ row # NoRow)
    <3>1. ChunksKept'
      BY <1>9, <2>2, <2>4 DEF InsertRefused, Table, ChunksKept
    <3> QED
      BY <2>1, <3>1 DEF Table
  <2> QED
    BY <2>3, <2>4
<1> QED
  BY <1>2, <1>4, <1>5, <1>7, <1>8, <1>9 DEF IngestMessageChunks

\* A row keeps its key when it is updated, and has no chunks when it is new.
LEMMA TableUpsert ==
  ASSUME TypeOK, Table, NEW p \in Procs, UpsertRow(p),
         proc[p].pc \notin {"delete", "insert"}, proc[p].id # 0, proc[p].body \in Bodies,
         NEW s, proc' = [proc EXCEPT ![p] = s],
         chunks' = chunks, indexed' = indexed, broken' = broken
  PROVE  Table'
<1>1. row' # NoRow
  BY UpsertTyped
<1>2. CASE row = NoRow
  BY <1>1, <1>2 DEF Table, ChunksWhole, ChunksKept
<1>3. CASE row # NoRow
  <2>1. row' = [row EXCEPT !.body = proc[p].body]
    BY <1>3 DEF UpsertRow
  <2>2. row \in [key : Nat \ {0}, id : Nat \ {0}, body : Bodies]
    BY <1>3 DEF TypeOK
  <2>3. row'.key = row.key
    BY <2>1, <2>2
  <2> QED
    BY <1>1, <1>3, <2>3, TableQuiet
<1> QED
  BY <1>2, <1>3

LEMMA TableMirror ==
  ASSUME TypeOK, Table, NEW u \in Procs, UpsertMessage(u)
  PROVE  Table'
<1>1. CASE Fetch(u)
  BY <1>1, TableQuiet DEF Fetch, Starts, Busy
<1>2. CASE SnapshotMessageContent(u)
  <2>1. PICK s : proc' = [proc EXCEPT ![u] = s]
    BY <1>2 DEF SnapshotMessageContent
  <2> QED
    BY <1>2, <2>1, TableQuiet DEF SnapshotMessageContent
<1>3. CASE Upsert(u)
  <2>1. proc' = [proc EXCEPT ![u] = [proc[u] EXCEPT !.pc = "ingest"]]
    BY <1>3 DEF Upsert, Goes
  <2>2. proc[u].id # 0 /\ proc[u].body \in Bodies
    BY <1>3 DEF Upsert, TypeOK, Holds
  <2> QED
    BY <1>3, <2>1, <2>2, TableUpsert DEF Upsert
<1>5. CASE UpsertElsewhere(u)
  BY <1>5, TableQuiet DEF UpsertElsewhere, Ends
<1>6. CASE SkipUnchanged(u)
  BY <1>6, TableQuiet DEF SkipUnchanged, Ends
<1>7. CASE IngestChanged(u)
  <2>1. PICK s : proc' = [proc EXCEPT ![u] = s]
    BY <1>7 DEF IngestChanged
  <2> QED
    BY <1>7, <2>1, TableQuiet DEF IngestChanged
<1>8. CASE RowVanished(u)
  BY <1>8, TableQuiet DEF RowVanished, Ends
<1> QED
  BY <1>1, <1>2, <1>3, <1>5, <1>6, <1>7, <1>8 DEF UpsertMessage

\* An UPDATE by gmail_id keeps the row and its key, and hits it or leaves it alone.
LEMMA RenamedKey ==
  ASSUME TypeOK, NEW r \in Procs
  PROVE  /\ Renamed(r).key = row.key
         /\ Renamed(r) = NoRow <=> row = NoRow
<1>1. CASE row # NoRow /\ row.id = proc[r].id
  <2>1. row \in [key : Nat \ {0}, id : Nat \ {0}, body : Bodies]
    BY <1>1 DEF TypeOK
  <2>2. Renamed(r) = [row EXCEPT !.id = proc[r].new, !.body = proc[r].body]
    BY <1>1 DEF Renamed
  <2>3. Renamed(r).key = row.key /\ row.key # 0
    BY <2>1, <2>2
  <2>4. NoRow.key = 0
    BY DEF NoRow
  <2> QED
    BY <1>1, <2>3, <2>4
<1>2. CASE ~(row # NoRow /\ row.id = proc[r].id)
  <2>1. Renamed(r) = row
    BY <1>2 DEF Renamed
  <2> QED
    BY <2>1
<1> QED
  BY <1>1, <1>2

LEMMA TableRequest ==
  ASSUME TypeOK, Table, NEW r \in Procs, DraftRequest(r)
  PROVE  Table'
<1>1. CASE ReadDraft(r)
  BY <1>1, TableQuiet DEF ReadDraft, Starts, Busy
<1>2. ASSUME NEW b \in Bodies, UpdateInGmail(r, b) PROVE Table'
  <2>1. PICK s : proc' = [proc EXCEPT ![r] = s]
    BY <1>2 DEF UpdateInGmail
  <2> QED
    BY <1>2, <2>1, TableQuiet DEF UpdateInGmail
<1>3. CASE SendInGmail(r)
  <2>1. PICK s : proc' = [proc EXCEPT ![r] = s]
    BY <1>3 DEF SendInGmail
  <2> QED
    BY <1>3, <2>1, TableQuiet DEF SendInGmail
<1>4. row' = Renamed(r) => row'.key = row.key /\ (row' = NoRow <=> row = NoRow)
  BY RenamedKey
<1>5. CASE StoreEdit(r)
  <2>1. proc' = [proc EXCEPT ![r] = [proc[r] EXCEPT !.pc = "embed"]]
    BY <1>5 DEF StoreEdit, Goes
  <2> QED
    BY <1>4, <1>5, <2>1, TableQuiet DEF StoreEdit
<1>6. CASE StoreSent(r)
  <2>1. PICK s : proc' = [proc EXCEPT ![r] = s]
    BY <1>6 DEF StoreSent, Goes, Ends
  <2> QED
    BY <1>4, <1>6, <2>1, TableQuiet DEF StoreSent
<1>7. CASE CreateDraft(r)
  BY <1>7, TableQuiet DEF CreateDraft, Starts, Busy
<1>8. CASE StoreCreated(r)
  <2>1. PICK s : proc' = [proc EXCEPT ![r] = s]
    BY <1>8 DEF StoreCreated
  <2>2. proc[r].id # 0 /\ proc[r].body \in Bodies
    BY <1>8 DEF StoreCreated, TypeOK, Holds
  <2> QED
    BY <1>8, <2>1, <2>2, TableUpsert DEF StoreCreated
<1>9. CASE UpsertElsewhere(r)
  BY <1>9, TableQuiet DEF UpsertElsewhere, Ends
<1> QED
  BY <1>1, <1>2, <1>3, <1>5, <1>6, <1>7, <1>8, <1>9 DEF DraftRequest

LEMMA TableStep == TypeOK /\ Table /\ [Next]_vars => Table'
<1> SUFFICES ASSUME TypeOK, Table, [Next]_vars PROVE Table'
  OBVIOUS
<1>1. ASSUME NEW u \in Upserters, UpsertMessage(u) PROVE Table'
  BY <1>1, TableMirror DEF Procs
<1>2. ASSUME NEW r \in Requests, DraftRequest(r) PROVE Table'
  BY <1>2, TableRequest DEF Procs
<1>3. ASSUME NEW s \in Scripts, BackfillEmbeddings(s) PROVE Table'
  <2>1. CASE ListUnchunked(s)
    BY <2>1, TableQuiet DEF ListUnchunked, Starts, Busy, Procs
  <2>2. CASE FetchUnchunked(s)
    <3>1. PICK t : proc' = [proc EXCEPT ![s] = t]
      BY <2>2 DEF FetchUnchunked
    <3> QED
      BY <2>2, <3>1, TableQuiet DEF FetchUnchunked, Procs
  <2> QED
    BY <1>3, <2>1, <2>2 DEF BackfillEmbeddings
<1>4. ASSUME NEW p \in Procs, IngestMessageChunks(p) PROVE Table'
  BY <1>4, TableIngest
<1>5. ASSUME NEW p \in Procs, Fails(p) PROVE Table'
  <2>1. CASE proc[p].pc \in {"delete", "insert"}
    BY <1>5, <2>1 DEF Fails, Table, ChunksWhole, ChunksKept
  <2>2. CASE proc[p].pc \notin {"delete", "insert"}
    <3>1. broken' = broken
      BY <1>5, <2>2 DEF Fails, TypeOK
    <3> QED
      BY <1>5, <2>2, <3>1, TableQuiet DEF Fails, Ends
  <2> QED
    BY <2>1, <2>2
<1>6. CASE DropRow
  BY <1>6 DEF DropRow, Table, ChunksWhole, ChunksKept
<1>7. CASE UNCHANGED vars
  BY <1>7 DEF vars, Table, ChunksWhole, ChunksKept
<1> QED
  BY <1>1, <1>2, <1>3, <1>4, <1>5, <1>6, <1>7 DEF Next

(***************************************************************************)
(* Without overlap or failure.                                             *)
(***************************************************************************)
Serial ==
  /\ SerialCurrent
  /\ clean => Alone /\ \A p \in Procs : InStep(p)

\* Only the process that takes the step has anything to show.
LEMMA SerialOwn ==
  ASSUME TypeOK, Serial, NEW p \in Procs, NEW s, proc' = [proc EXCEPT ![p] = s],
         clean' => clean /\ (Busy(p) \/ \A q \in Procs : ~Busy(q)),
         clean' => InStep(p)',
         clean' /\ ~Busy(p)' /\ Due' => Current'
  PROVE  Serial'
<1>1. SUFFICES ASSUME clean'
               PROVE  /\ (\A q \in Procs : ~Busy(q)') /\ Due' => Current'
                      /\ Alone' /\ \A q \in Procs : InStep(q)'
  BY DEF Serial, SerialCurrent
<1>2. clean /\ Alone
  BY <1>1 DEF Serial
<1>3. ASSUME NEW q \in Procs, q # p PROVE proc'[q] = proc[q] /\ ~Busy(q) /\ ~Busy(q)'
  <2>1. proc'[q] = proc[q]
    BY <1>3 DEF TypeOK
  <2>2. ~Busy(q)
    BY <1>1, <1>2, <1>3 DEF Alone
  <2> QED
    BY <2>1, <2>2 DEF Busy
<1>4. Alone'
  BY <1>3 DEF Alone
<1>5. ASSUME NEW q \in Procs, q # p PROVE InStep(q)'
  <2>1. proc'[q].pc \in {"idle", "done", "failed"}
    BY <1>3, <1>5 DEF Busy
  <2> QED
    BY <2>1 DEF InStep
<1> QED
  BY <1>1, <1>4, <1>5

\* A step that ends the process and changes neither row nor chunks.
LEMMA StoppedInStep ==
  ASSUME TypeOK, NEW p \in Procs, NEW pc \in {"done", "failed"}, Ends(p, pc)
  PROVE  InStep(p)' /\ ~Busy(p)'
<1>1. proc'[p].pc = pc
  BY DEF Ends, Stopped, TypeOK
<1> QED
  BY <1>1 DEF InStep, Busy

LEMMA SerialIngest ==
  ASSUME TypeOK, Table, Serial, NEW p \in Procs, IngestMessageChunks(p)
  PROVE  Serial'
<1>1. proc[p] \in ProcState /\ Holds(p)
  BY DEF TypeOK
<1>2. clean => InStep(p)
  BY DEF Serial
<1>3. CASE Embed(p)
  <2>1. proc' = [proc EXCEPT ![p] = [proc[p] EXCEPT !.pc = "delete"]]
    BY <1>3 DEF Embed, Goes
  <2>2. clean' => clean /\ Busy(p)
    BY <1>3 DEF Embed, Busy
  <2>3. clean' => InStep(p)'
    BY <1>1, <1>2, <1>3, <2>1 DEF Embed, InStep, TypeOK, ProcState
  <2>4. Busy(p)'
    BY <1>1, <2>1 DEF Busy, TypeOK, ProcState
  <2> QED
    BY <2>1, <2>2, <2>3, <2>4, SerialOwn
<1>4. CASE DeleteChunks(p)
  <2>1. proc' = [proc EXCEPT ![p] = [proc[p] EXCEPT !.pc = "insert"]]
    BY <1>4 DEF DeleteChunks, Goes
  <2>2. clean' => clean /\ Busy(p)
    BY <1>4 DEF DeleteChunks, Busy
  <2>3. clean' => InStep(p)'
    BY <1>1, <1>2, <1>4, <2>1 DEF DeleteChunks, InStep, TypeOK, ProcState
  <2>4. Busy(p)'
    BY <1>1, <2>1 DEF Busy, TypeOK, ProcState
  <2> QED
    BY <2>1, <2>2, <2>3, <2>4, SerialOwn
<1>5. CASE InsertChunks(p)
  <2>1. proc' = [proc EXCEPT ![p] = Stopped("done")]
    BY <1>5 DEF InsertChunks, Ends
  <2>2. clean' => clean /\ Busy(p)
    BY <1>5 DEF InsertChunks, Busy
  <2>3. InStep(p)'
    BY <1>5, StoppedInStep DEF InsertChunks
  <2>4. proc[p].body \in Bodies
    BY <1>1, <1>5 DEF InsertChunks, Holds
  <2>5. chunks' = ChunksOf(proc[p].body)
    BY <1>5, <2>4, InsertsIntoEmpty DEF InsertChunks, Table
  <2>6. clean' => Current'
    BY <1>2, <1>5, <2>5 DEF InsertChunks, InStep, Current
  <2> QED
    BY <2>1, <2>2, <2>3, <2>6, SerialOwn
<1>6. CASE DeleteUnanswered(p) \/ InsertUnanswered(p) \/ InsertRefused(p)
  BY <1>6 DEF DeleteUnanswered, InsertUnanswered, InsertRefused, Serial, SerialCurrent
<1> QED
  BY <1>3, <1>4, <1>5, <1>6 DEF IngestMessageChunks

\* A process that ends without touching row or chunks: they were right before.
LEMMA SerialEnds ==
  ASSUME TypeOK, Serial, NEW p \in Procs, Ends(p, "done"), Busy(p),
         clean' = clean, row' = row, chunks' = chunks, indexed' = indexed,
         clean /\ Due => Current
  PROVE  Serial'
<1>1. proc' = [proc EXCEPT ![p] = Stopped("done")]
  BY DEF Ends
<1>2. InStep(p)'
  BY StoppedInStep
<1>3. clean' /\ Due' => Current'
  BY DEF Due, Current
<1> QED
  BY <1>1, <1>2, <1>3, SerialOwn

LEMMA SerialMirror ==
  ASSUME TypeOK, Table, Serial, NEW u \in Procs, UpsertMessage(u)
  PROVE  Serial'
<1>1. proc[u] \in ProcState /\ Holds(u)
  BY DEF TypeOK
<1>2. clean => InStep(u)
  BY DEF Serial
<1>3. CASE Fetch(u)
  <2> DEFINE s == [Stopped("snapshot") EXCEPT !.id = mail.id, !.body = mail.body]
  <2>1. s.pc = "snapshot"
    BY DEF Stopped
  <2>2. proc' = [proc EXCEPT ![u] = s]
    BY <1>3 DEF Fetch
  <2> HIDE DEF s
  <2>3. clean' => clean /\ \A q \in Procs : ~Busy(q)
    BY <1>3 DEF Fetch, Starts
  <2>4. clean' /\ Due' => Current'
    BY <1>3, <2>3 DEF Fetch, Serial, SerialCurrent, Due, Current
  <2>5. proc'[u].pc = "snapshot"
    BY <2>1, <2>2 DEF TypeOK
  <2>6. clean' => InStep(u)'
    BY <2>4, <2>5 DEF InStep
  <2>7. Busy(u)'
    BY <2>5 DEF Busy
  <2> QED
    BY <2>2, <2>3, <2>6, <2>7, SerialOwn
<1>4. CASE SnapshotMessageContent(u)
  <2> DEFINE prev == IF row.id = proc[u].id THEN row.body ELSE NoBody
  <2> DEFINE s == [proc[u] EXCEPT !.pc = "upsert", !.prev = prev]
  <2>1. s.pc = "upsert" /\ s.prev = prev /\ s.id = proc[u].id
    BY <1>1 DEF ProcState
  <2>2. proc' = [proc EXCEPT ![u] = s]
    BY <1>4 DEF SnapshotMessageContent
  <2> HIDE DEF s
  <2>3. clean' => clean /\ Busy(u)
    BY <1>4 DEF SnapshotMessageContent, Busy
  <2>4. clean' /\ Due' => Current'
    BY <1>2, <1>4 DEF SnapshotMessageContent, InStep, Due, Current
  <2>5. proc'[u] = s
    BY <2>2 DEF TypeOK
  <2>6. clean' => InStep(u)'
    BY <1>4, <2>1, <2>4, <2>5 DEF SnapshotMessageContent, InStep
  <2>7. Busy(u)'
    BY <2>1, <2>5 DEF Busy
  <2> QED
    BY <2>2, <2>3, <2>6, <2>7, SerialOwn
<1>5. ASSUME proc[u].pc = "upsert", Goes(u, "ingest"), clean' = clean,
             row'.id = proc[u].id, row'.body = proc[u].body, row' # NoRow,
             clean /\ ~Changed(u) /\ Due' => Current'
      PROVE  Serial'
  <2> DEFINE s == [proc[u] EXCEPT !.pc = "ingest"]
  <2>1. /\ s.pc = "ingest" /\ s.id = proc[u].id
        /\ s.body = proc[u].body /\ s.prev = proc[u].prev
    BY <1>1 DEF ProcState
  <2>2. proc' = [proc EXCEPT ![u] = s]
    BY <1>5 DEF Goes
  <2> HIDE DEF s
  <2>3. clean' => clean /\ Busy(u)
    BY <1>5 DEF Busy
  <2>4. proc'[u] = s
    BY <2>2 DEF TypeOK
  <2>5. Changed(u)' <=> Changed(u)
    BY <2>1, <2>4 DEF Changed
  <2>6. clean' => InStep(u)'
    BY <1>5, <2>1, <2>4, <2>5 DEF InStep
  <2>7. Busy(u)'
    BY <2>1, <2>4 DEF Busy
  <2> QED
    BY <2>2, <2>3, <2>6, <2>7, SerialOwn
<1>6. CASE Upsert(u)
  <2>1. proc[u].id # 0 /\ proc[u].body \in Bodies
    BY <1>1, <1>6 DEF Upsert, Holds
  <2>2. row'.id = proc[u].id /\ row'.body = proc[u].body /\ row' # NoRow
    BY <1>6, <2>1, UpsertTyped DEF Upsert
  <2>3. ASSUME clean, ~Changed(u), Due' PROVE Current'
    <3>1. row.id = proc[u].id /\ row.body = proc[u].body
      BY <1>2, <1>6, <2>1, <2>3, MemoryAssumption DEF Upsert, InStep, Changed
    <3>2. row # NoRow
      BY <2>1, <3>1 DEF NoRow
    <3>3. row \in [key : Nat \ {0}, id : Nat \ {0}, body : Bodies]
      BY <3>2 DEF TypeOK
    <3>4. row'.key = row.key
      BY <1>6, <3>2, <3>3 DEF Upsert, UpsertRow
    <3>5. Due
      BY <1>6, <2>3, <3>2, <3>4 DEF Upsert, Due
    <3>6. Current
      BY <1>2, <1>6, <2>3, <3>5 DEF Upsert, InStep
    <3> QED
      BY <1>6, <2>2, <3>1, <3>6 DEF Upsert, Current
  <2> QED
    BY <1>5, <1>6, <2>2, <2>3 DEF Upsert
<1>8. CASE UpsertElsewhere(u)
  BY <1>2, <1>8, SerialEnds DEF UpsertElsewhere, InStep, Busy
<1>9. CASE SkipUnchanged(u)
  BY <1>2, <1>9, SerialEnds DEF SkipUnchanged, InStep, Busy
<1>10. CASE IngestChanged(u)
  <2> DEFINE s == [proc[u] EXCEPT !.pc = "embed", !.key = row.key]
  <2>1. s.pc = "embed" /\ s.key = row.key /\ s.body = proc[u].body
    BY <1>1 DEF ProcState
  <2>2. proc' = [proc EXCEPT ![u] = s]
    BY <1>10 DEF IngestChanged
  <2> HIDE DEF s
  <2>3. clean' => clean /\ Busy(u)
    BY <1>10 DEF IngestChanged, Busy
  <2>4. proc'[u] = s
    BY <2>2 DEF TypeOK
  <2>5. clean' => InStep(u)'
    BY <1>2, <1>10, <2>1, <2>4 DEF IngestChanged, InStep
  <2>6. Busy(u)'
    BY <2>1, <2>4 DEF Busy
  <2> QED
    BY <2>2, <2>3, <2>5, <2>6, SerialOwn
<1>11. CASE RowVanished(u)
  BY <1>11 DEF RowVanished, Serial, SerialCurrent
<1> QED
  BY <1>3, <1>4, <1>6, <1>8, <1>9, <1>10, <1>11 DEF UpsertMessage

LEMMA SerialRequest ==
  ASSUME TypeOK, Table, Serial, NEW r \in Procs, DraftRequest(r)
  PROVE  Serial'
<1>1. proc[r] \in ProcState /\ Holds(r)
  BY DEF TypeOK
<1>2. clean => InStep(r)
  BY DEF Serial
<1>3. CASE ReadDraft(r)
  <2> DEFINE s == [Stopped("call") EXCEPT !.key = row.key, !.id = row.id, !.prev = row.body]
  <2>1. s.pc = "call" /\ s.key = row.key /\ s.id = row.id /\ s.prev = row.body
    BY DEF Stopped
  <2>2. proc' = [proc EXCEPT ![r] = s]
    BY <1>3 DEF ReadDraft
  <2> HIDE DEF s
  <2>3. clean' => clean /\ \A q \in Procs : ~Busy(q)
    BY <1>3 DEF ReadDraft, Starts
  <2>4. clean' /\ Due' => Current'
    BY <1>3, <2>3 DEF ReadDraft, Serial, SerialCurrent, Due, Current
  <2>5. proc'[r] = s
    BY <2>2 DEF TypeOK
  <2>6. clean' => InStep(r)'
    BY <1>3, <2>1, <2>4, <2>5 DEF ReadDraft, InStep
  <2>7. Busy(r)'
    BY <2>1, <2>5 DEF Busy
  <2> QED
    BY <2>2, <2>3, <2>6, <2>7, SerialOwn
<1>4. ASSUME proc[r].pc = "call", clean' = clean, row' = row, chunks' = chunks,
             indexed' = indexed, NEW s, proc' = [proc EXCEPT ![r] = s],
             s.pc \in {"storeEdit", "storeSent"}, s.key = proc[r].key,
             s.id = proc[r].id, s.prev = proc[r].prev
      PROVE  Serial'
  <2>1. clean' => clean /\ Busy(r)
    BY <1>4 DEF Busy
  <2>2. proc'[r] = s
    BY <1>4 DEF TypeOK
  <2>3. clean' /\ Due' => Current'
    BY <1>2, <1>4 DEF InStep, Due, Current
  <2>4. clean' => InStep(r)'
    BY <1>2, <1>4, <2>2, <2>3 DEF InStep
  <2>5. Busy(r)'
    BY <1>4, <2>2 DEF Busy
  <2> QED
    BY <1>4, <2>1, <2>4, <2>5, SerialOwn
<1>5. ASSUME NEW b \in Bodies, UpdateInGmail(r, b) PROVE Serial'
  <2> DEFINE s == [proc[r] EXCEPT !.pc = "storeEdit", !.new = mail.id + 1, !.body = b]
  <2>1. /\ s.pc = "storeEdit" /\ s.key = proc[r].key
        /\ s.id = proc[r].id /\ s.prev = proc[r].prev
    BY <1>1 DEF ProcState
  <2>2. proc' = [proc EXCEPT ![r] = s]
    BY <1>5 DEF UpdateInGmail
  <2> HIDE DEF s
  <2> QED
    BY <1>4, <1>5, <2>1, <2>2 DEF UpdateInGmail
<1>6. CASE SendInGmail(r)
  <2> DEFINE s == [proc[r] EXCEPT !.pc = "storeSent", !.new = mail.id + 1, !.body = mail.body]
  <2>1. /\ s.pc = "storeSent" /\ s.key = proc[r].key
        /\ s.id = proc[r].id /\ s.prev = proc[r].prev
    BY <1>1 DEF ProcState
  <2>2. proc' = [proc EXCEPT ![r] = s]
    BY <1>6 DEF SendInGmail
  <2> HIDE DEF s
  <2> QED
    BY <1>4, <1>6, <2>1, <2>2 DEF SendInGmail
<1>7. ASSUME clean, proc[r].pc \in {"storeEdit", "storeSent"}
      PROVE  /\ Renamed(r) # NoRow /\ Renamed(r).key = proc[r].key
             /\ Renamed(r).body = proc[r].body
  <2>1. row # NoRow /\ row.key = proc[r].key /\ row.id = proc[r].id
    BY <1>2, <1>7 DEF InStep
  <2>2. row \in [key : Nat \ {0}, id : Nat \ {0}, body : Bodies]
    BY <2>1 DEF TypeOK
  <2>3. Renamed(r) = [row EXCEPT !.id = proc[r].new, !.body = proc[r].body]
    BY <2>1 DEF Renamed
  <2> QED
    BY <2>1, <2>2, <2>3, RenamedKey
<1>8. ASSUME proc[r].pc \in {"storeEdit", "storeSent"}, clean' = clean,
             row' = Renamed(r), Goes(r, "embed")
      PROVE  Serial'
  <2> DEFINE s == [proc[r] EXCEPT !.pc = "embed"]
  <2>1. s.pc = "embed" /\ s.key = proc[r].key /\ s.body = proc[r].body
    BY <1>1 DEF ProcState
  <2>2. proc' = [proc EXCEPT ![r] = s]
    BY <1>8 DEF Goes
  <2> HIDE DEF s
  <2>3. clean' => clean /\ Busy(r)
    BY <1>8 DEF Busy
  <2>4. proc'[r] = s
    BY <2>2 DEF TypeOK
  <2>5. clean' => InStep(r)'
    BY <1>7, <1>8, <2>1, <2>4 DEF InStep
  <2>6. Busy(r)'
    BY <2>1, <2>4 DEF Busy
  <2> QED
    BY <2>2, <2>3, <2>5, <2>6, SerialOwn
<1>9. CASE StoreEdit(r)
  BY <1>8, <1>9 DEF StoreEdit
<1>10. CASE StoreSent(r)
  <2>1. CASE Changed(r)
    BY <1>8, <1>10, <2>1 DEF StoreSent
  <2>2. CASE ~Changed(r)
    <3>1. Ends(r, "done")
      BY <1>10, <2>2 DEF StoreSent
    <3>2. clean' => clean /\ Busy(r)
      BY <1>10 DEF StoreSent, Busy
    <3>3. ASSUME clean', Due' PROVE Current'
      <4>1. clean /\ proc[r].pc = "storeSent" /\ row' = Renamed(r)
        BY <1>10, <3>3 DEF StoreSent
      <4>2. row # NoRow /\ row.body = proc[r].body /\ (Due => Current)
        BY <1>2, <2>2, <4>1 DEF InStep, Changed
      <4>3. row'.body = row.body /\ row'.key = row.key
        BY <1>7, <4>1, <4>2, RenamedKey
      <4>4. Due
        BY <1>10, <3>3, <4>2, <4>3 DEF StoreSent, Due
      <4> QED
        BY <1>10, <4>2, <4>3, <4>4 DEF StoreSent, Current
    <3>4. InStep(r)'
      BY <3>1, StoppedInStep
    <3> QED
      BY <3>1, <3>2, <3>3, <3>4, SerialOwn DEF Ends
  <2> QED
    BY <2>1, <2>2
<1>11. CASE CreateDraft(r)
  <2> DEFINE s == [Stopped("storeNew") EXCEPT !.id = mail.id, !.body = mail.body]
  <2>1. s.pc = "storeNew"
    BY DEF Stopped
  <2>2. proc' = [proc EXCEPT ![r] = s]
    BY <1>11 DEF CreateDraft
  <2> HIDE DEF s
  <2>3. clean' => clean /\ \A q \in Procs : ~Busy(q)
    BY <1>11 DEF CreateDraft, Starts
  <2>4. ~Due'
    BY <1>11 DEF CreateDraft, Due
  <2>5. proc'[r].pc = "storeNew"
    BY <2>1, <2>2 DEF TypeOK
  <2>6. InStep(r)'
    BY <2>4, <2>5 DEF InStep
  <2>7. Busy(r)'
    BY <2>5 DEF Busy
  <2> QED
    BY <2>2, <2>3, <2>6, <2>7, SerialOwn
<1>12. CASE StoreCreated(r)
  <2> DEFINE s == [proc[r] EXCEPT !.pc = "embed", !.key = row'.key]
  <2>1. s.pc = "embed" /\ s.key = row'.key /\ s.body = proc[r].body
    BY <1>1 DEF ProcState
  <2>2. proc' = [proc EXCEPT ![r] = s]
    BY <1>12 DEF StoreCreated
  <2> HIDE DEF s
  <2>3. clean' => clean /\ Busy(r)
    BY <1>12 DEF StoreCreated, Busy
  <2>4. row'.body = proc[r].body /\ row' # NoRow
    BY <1>1, <1>12, UpsertTyped DEF StoreCreated, Holds
  <2>5. proc'[r] = s
    BY <2>2 DEF TypeOK
  <2>6. InStep(r)'
    BY <2>1, <2>4, <2>5 DEF InStep
  <2>7. Busy(r)'
    BY <2>1, <2>5 DEF Busy
  <2> QED
    BY <2>2, <2>3, <2>6, <2>7, SerialOwn
<1>13. CASE UpsertElsewhere(r)
  BY <1>2, <1>13, SerialEnds DEF UpsertElsewhere, InStep, Busy
<1> QED
  BY <1>3, <1>5, <1>6, <1>9, <1>10, <1>11, <1>12, <1>13 DEF DraftRequest

LEMMA SerialScript ==
  ASSUME TypeOK, Table, Serial, NEW s \in Procs, BackfillEmbeddings(s)
  PROVE  Serial'
<1>1. CASE ListUnchunked(s)
  <2>1. proc' = [proc EXCEPT ![s] = Stopped("batch")]
    BY <1>1 DEF ListUnchunked
  <2>2. clean' => clean /\ \A q \in Procs : ~Busy(q)
    BY <1>1 DEF ListUnchunked, Starts
  <2>3. clean' /\ Due' => Current'
    BY <1>1, <2>2 DEF ListUnchunked, Serial, SerialCurrent, Due, Current
  <2>4. proc'[s].pc = "batch"
    BY <2>1 DEF TypeOK, Stopped
  <2>5. clean' => InStep(s)'
    BY <2>3, <2>4 DEF InStep
  <2>6. Busy(s)'
    BY <2>4 DEF Busy
  <2> QED
    BY <2>1, <2>2, <2>5, <2>6, SerialOwn
<1>2. CASE FetchUnchunked(s)
  <2> DEFINE t == [proc[s] EXCEPT !.pc = "embed", !.key = row.key, !.body = row.body]
  <2>1. t.pc = "embed" /\ t.key = row.key /\ t.body = row.body
    BY DEF TypeOK, ProcState
  <2>2. proc' = [proc EXCEPT ![s] = t]
    BY <1>2 DEF FetchUnchunked
  <2> HIDE DEF t
  <2>3. clean' => clean /\ Busy(s)
    BY <1>2 DEF FetchUnchunked, Busy
  <2>4. proc'[s] = t
    BY <2>2 DEF TypeOK
  <2>5. InStep(s)'
    BY <1>2, <2>1, <2>4 DEF FetchUnchunked, InStep
  <2>6. Busy(s)'
    BY <2>1, <2>4 DEF Busy
  <2> QED
    BY <2>2, <2>3, <2>5, <2>6, SerialOwn
<1> QED
  BY <1>1, <1>2 DEF BackfillEmbeddings

LEMMA SerialStep == TypeOK /\ Table /\ Serial /\ [Next]_vars => Serial'
<1> SUFFICES ASSUME TypeOK, Table, Serial, [Next]_vars PROVE Serial'
  OBVIOUS
<1>1. ASSUME NEW u \in Upserters, UpsertMessage(u) PROVE Serial'
  BY <1>1, SerialMirror DEF Procs
<1>2. ASSUME NEW r \in Requests, DraftRequest(r) PROVE Serial'
  BY <1>2, SerialRequest DEF Procs
<1>3. ASSUME NEW s \in Scripts, BackfillEmbeddings(s) PROVE Serial'
  BY <1>3, SerialScript DEF Procs
<1>4. ASSUME NEW p \in Procs, IngestMessageChunks(p) PROVE Serial'
  BY <1>4, SerialIngest
<1>5. ASSUME NEW p \in Procs, Fails(p) PROVE Serial'
  BY <1>5 DEF Fails, Serial, SerialCurrent
<1>6. CASE DropRow
  <2>1. ~Due'
    BY <1>6 DEF DropRow, Due
  <2>2. clean' => clean /\ \A p \in Procs : proc'[p] = proc[p] /\ ~Busy(p) /\ ~Busy(p)'
    BY <1>6 DEF DropRow, Busy
  <2>3. ASSUME NEW p \in Procs, ~Busy(p)' PROVE InStep(p)'
    BY <2>3 DEF Busy, InStep
  <2> QED
    BY <2>1, <2>2, <2>3 DEF Serial, SerialCurrent, Alone
<1>7. CASE UNCHANGED vars
  BY <1>7 DEF vars, Serial, SerialCurrent, Alone, InStep, Busy, Due, Current, Changed
<1> QED
  BY <1>1, <1>2, <1>3, <1>4, <1>5, <1>6, <1>7 DEF Next

(***************************************************************************)
(* Theorems                                                                *)
(***************************************************************************)
LEMMA MemoryInit == Init => MInv
<1> SUFFICES ASSUME Init PROVE MInv
  OBVIOUS
<1>1. \A p \in Procs : proc[p].pc = "idle"
  BY DEF Init, Stopped
<1>2. Alone /\ \A p \in Procs : InStep(p)
  BY <1>1 DEF Alone, Busy, InStep
<1>3. ~Due
  BY DEF Init, Due, NoRow
<1> QED
  BY <1>2, <1>3 DEF Init, MInv, ChunksWhole, ChunksKept, SerialCurrent

LEMMA MemoryStep == TypeOK /\ MInv /\ [Next]_vars => MInv'
<1>1. MInv <=> Table /\ Serial
  BY DEF MInv, Table, Serial
<1>2. MInv' <=> Table' /\ Serial'
  BY DEF MInv, Table, Serial
<1> QED
  BY <1>1, <1>2, TableStep, SerialStep

\* The inductive invariant holds throughout.
THEOREM MemoryInductive == Spec => []MInv
BY TypeInit, TypeStep, MemoryInit, MemoryStep, PTL DEF Spec

\* However many rebuilds interleave, fail and are repeated, a message never has the
\* chunks of two texts or a part of one.
THEOREM WholeSafe == Spec => []ChunksWhole
<1>1. MInv => ChunksWhole
  BY DEF MInv
<1> QED
  BY <1>1, MemoryInductive, PTL

\* Overlapping rebuilds never leave a message that had chunks without any, unless
\* one was cut off between its delete and its insert.
THEOREM KeptSafe == Spec => []ChunksKept
<1>1. MInv => ChunksKept
  BY DEF MInv
<1> QED
  BY <1>1, MemoryInductive, PTL

\* Without overlap or failure the chunks are those of the stored text.
THEOREM SerialIndexed == Spec => []SerialCurrent
<1>1. MInv => SerialCurrent
  BY DEF MInv
<1> QED
  BY <1>1, MemoryInductive, PTL

(***************************************************************************)
(* Chunking.  SlicesFollow is inductive: a cut moves back by one code unit *)
(* at most, so with ChunkOverlap + 2 < ChunkSize a slice ends more than    *)
(* the overlap and one code unit after its start, and the next one starts  *)
(* further on.                                                             *)
(***************************************************************************)
\* A cut stays in the text, moves back by at most one, and is not inside a pair.
LEMMA CutIsClean ==
  ASSUME text \in Texts, NEW index \in 0 .. Len(text)
  PROVE  /\ SnapSplitIndex(index) \in 0 .. Len(text)
         /\ SnapSplitIndex(index) \in {index - 1, index}
         /\ index = Len(text) => SnapSplitIndex(index) = index
         /\ ~CutsPair(SnapSplitIndex(index))
<1>1. text \in Seq(CodeUnits) /\ Len(text) \in Nat
  BY ChunkingAssumption
<1>2. CASE index \in 1 .. Len(text) - 1 /\ text[index] = "high"
  <2>1. SnapSplitIndex(index) = index - 1
    BY <1>2 DEF SnapSplitIndex
  <2>2. ~CutsPair(index - 1)
    BY <1>1, <1>2 DEF CutsPair
  <2> QED
    BY <1>1, <1>2, <2>1, <2>2
<1>3. CASE ~(index \in 1 .. Len(text) - 1 /\ text[index] = "high")
  <2>1. SnapSplitIndex(index) = index
    BY <1>3 DEF SnapSplitIndex
  <2>2. ~CutsPair(index)
    BY <1>3 DEF CutsPair
  <2> QED
    BY <1>1, <2>1, <2>2
<1> QED
  BY <1>2, <1>3

LEMMA ChunkingStarts == ChunkingInit => SlicesFollow
<1> SUFFICES ASSUME ChunkingInit PROVE SlicesFollow
  OBVIOUS
<1>1. text \in Seq(CodeUnits) /\ Len(text) \in Nat
  BY ChunkingAssumption DEF ChunkingInit
<1>2. ~CutsPair(0)
  BY DEF CutsPair
<1>3. text \in Texts /\ split = FALSE /\ start = 0 /\ slices = <<>>
  BY DEF ChunkingInit
<1>4. slices \in Seq([from : Nat, to : Nat]) /\ DOMAIN slices = {}
  BY <1>3
<1>5. split \in BOOLEAN /\ start \in 0 .. Len(text)
  <2>1. split \in BOOLEAN
    BY <1>3, Zenon
  <2>2. start \in 0 .. Len(text)
    BY <1>1, <1>3
  <2> QED
    BY <2>1, <2>2
<1>6. IF split THEN slices # <<>> /\ slices[Len(slices)].to = Len(text)
      ELSE /\ ~CutsPair(start)
           /\ IF slices = <<>> THEN start = 0
              ELSE start < Len(text) /\ Follows(start, slices[Len(slices)])
  BY <1>2, <1>3, Zenon
<1> QED
  BY <1>3, <1>4, <1>5, <1>6, Zenon DEF SlicesFollow

LEMMA WholeBodyFollows ==
  ASSUME SlicesFollow, WholeBody
  PROVE  SlicesFollow'
<1>1. text \in Seq(CodeUnits) /\ Len(text) \in Nat
  BY ChunkingAssumption DEF SlicesFollow
<1> DEFINE whole == [from |-> 0, to |-> Len(text)]
<1>2. slices' = <<whole>> /\ text' = text /\ start' = start /\ split' = TRUE
  BY DEF WholeBody
<1>3. slices' \in Seq([from : Nat, to : Nat]) /\ Len(slices') = 1
      /\ DOMAIN slices' = {1} /\ slices'[1] = whole
  BY <1>1, <1>2
<1>4. Len(text) <= ChunkSize
  BY DEF WholeBody
<1>5. ~CutsPair(0)' /\ ~CutsPair(Len(text))'
  BY <1>1, <1>2 DEF CutsPair
<1> QED
  BY <1>1, <1>2, <1>3, <1>4, <1>5 DEF SlicesFollow

LEMMA NextSliceFollows ==
  ASSUME SlicesFollow, NextSlice
  PROVE  SlicesFollow'
<1> DEFINE size == IF start + ChunkSize < Len(text) THEN start + ChunkSize ELSE Len(text)
           end  == SnapSplitIndex(size)
           next == SnapSplitIndex(end - ChunkOverlap)
           slice == [from |-> start, to |-> end]
           n == Len(slices)
<1>1. /\ text \in Seq(CodeUnits) /\ Len(text) \in Nat /\ Len(text) > ChunkSize
      /\ text \in Texts /\ ~split /\ ~CutsPair(start) /\ start \in Nat
      /\ slices \in Seq([from : Nat, to : Nat]) /\ n \in Nat
  BY ChunkingAssumption DEF SlicesFollow, NextSlice
<1>2. start < Len(text)
  BY <1>1, ChunkingAssumption DEF SlicesFollow
<1>3. size \in 0 .. Len(text) /\ size - start <= ChunkSize
      /\ (size < Len(text) => size = start + ChunkSize)
  BY <1>1, <1>2, ChunkingAssumption
<1> HIDE DEF size
<1>4. /\ end \in 0 .. Len(text) /\ end \in {size - 1, size} /\ ~CutsPair(end)
      /\ size = Len(text) => end = size
  BY <1>1, <1>3, CutIsClean
<1> HIDE DEF end
<1>5. start < end /\ end - start <= ChunkSize
      /\ (end < Len(text) => start + 1 < end - ChunkOverlap)
  BY <1>1, <1>2, <1>3, <1>4, ChunkingAssumption
<1>6. end < Len(text) =>
        /\ next \in 0 .. Len(text) /\ next \in {end - ChunkOverlap - 1, end - ChunkOverlap}
        /\ ~CutsPair(next)
  <2>1. end < Len(text) => end - ChunkOverlap \in 0 .. Len(text)
    BY <1>1, <1>4, <1>5, ChunkingAssumption
  <2>2. end < Len(text) =>
          /\ next \in 0 .. Len(text) /\ next \in {end - ChunkOverlap - 1, end - ChunkOverlap}
          /\ ~CutsPair(next)
    BY <1>1, <2>1, CutIsClean
  <2> QED
    BY <2>2
<1> HIDE DEF next
<1>7. end < Len(text) => start < next /\ next + ChunkOverlap <= end /\ next < Len(text)
  BY <1>1, <1>4, <1>5, <1>6, ChunkingAssumption
<1>8. /\ slices' = Append(slices, slice) /\ text' = text
      /\ end >= Len(text) => split' = TRUE /\ start' = start
      /\ end < Len(text) => split' = FALSE /\ start' = next
  <2>1. ~(end <= start)
    BY <1>1, <1>4, <1>5
  <2>2. /\ slices' = Append(slices, slice) /\ text' = text
        /\ split' = (end >= Len(text) \/ next >= Len(text))
        /\ start' = IF split' THEN start ELSE next
    BY <2>1 DEF NextSlice, size, end, next
  <2>3. end < Len(text) => ~(end >= Len(text)) /\ ~(next >= Len(text))
    BY <1>1, <1>4, <1>6, <1>7
  <2> QED
    BY <2>2, <2>3, Zenon
<1>9. /\ slice \in [from : Nat, to : Nat]
      /\ slices' \in Seq([from : Nat, to : Nat]) /\ Len(slices') = n + 1
      /\ slices'[n + 1] = slice
      /\ \A k \in 1..n : slices'[k] = slices[k]
  BY <1>1, <1>4, <1>8
<1>10. \A i : CutsPair(i)' <=> CutsPair(i)
  BY <1>8 DEF CutsPair
<1>11. \A k \in DOMAIN slices' :
         /\ slices'[k].to <= Len(text) /\ slices'[k].to - slices'[k].from <= ChunkSize
         /\ ~CutsPair(slices'[k].from) /\ ~CutsPair(slices'[k].to)
  <2> SUFFICES ASSUME NEW k \in DOMAIN slices'
               PROVE  /\ slices'[k].to <= Len(text) /\ slices'[k].to - slices'[k].from <= ChunkSize
                      /\ ~CutsPair(slices'[k].from) /\ ~CutsPair(slices'[k].to)
    OBVIOUS
  <2>1. CASE k = n + 1
    BY <2>1, <1>1, <1>4, <1>5, <1>9
  <2>2. CASE k \in 1..n
    <3>1. slices'[k] = slices[k] /\ k \in DOMAIN slices
      BY <2>2, <1>1, <1>9
    <3> QED
      BY <3>1 DEF SlicesFollow
  <2> QED
    BY <2>1, <2>2, <1>1, <1>9
<1>12. \A k \in DOMAIN slices' :
         IF k = 1 THEN slices'[k].from = 0 ELSE Follows(slices'[k].from, slices'[k - 1])
  <2> SUFFICES ASSUME NEW k \in DOMAIN slices'
               PROVE  IF k = 1 THEN slices'[k].from = 0
                      ELSE Follows(slices'[k].from, slices'[k - 1])
    OBVIOUS
  <2>1. CASE k = n + 1
    <3>1. CASE n = 0
      <4>1. slices = <<>>
        BY <3>1, <1>1
      <4> QED
        BY <4>1, <3>1, <2>1, <1>1, <1>9 DEF SlicesFollow
    <3>2. CASE n > 0
      <4>1. slices # <<>> /\ slices'[k - 1] = slices[n]
        BY <3>2, <2>1, <1>1, <1>9
      <4> QED
        BY <4>1, <3>2, <2>1, <1>1, <1>9 DEF SlicesFollow
    <3> QED
      BY <3>1, <3>2, <1>1
  <2>2. CASE k \in 1..n
    <3>1. slices'[k] = slices[k] /\ k \in DOMAIN slices
      BY <2>2, <1>1, <1>9
    <3>2. k # 1 => k - 1 \in 1..n
      BY <2>2, <1>1
    <3>3. k # 1 => slices'[k - 1] = slices[k - 1]
      BY <3>2, <1>9
    <3> QED
      BY <3>1, <3>3 DEF SlicesFollow
  <2> QED
    BY <2>1, <2>2, <1>1, <1>9
<1>13. IF split' THEN slices' # <<>> /\ slices'[Len(slices')].to = Len(text)
       ELSE /\ ~CutsPair(start')
            /\ slices' # <<>> /\ start' < Len(text) /\ Follows(start', slices'[Len(slices')])
  <2>1. slices' # <<>>
    BY <1>1, <1>9
  <2>2. CASE end >= Len(text)
    <3>1. split' = TRUE
      BY <2>2, <1>8, Zenon
    <3>2. slices'[Len(slices')].to = end /\ end = Len(text)
      BY <2>2, <1>1, <1>4, <1>9
    <3> QED
      BY <2>1, <3>1, <3>2
  <2>3. CASE end < Len(text)
    <3>1. split' = FALSE /\ start' = next
      BY <2>3, <1>8, Zenon
    <3>2. slices'[Len(slices')] = slice
      BY <1>9
    <3>3. Follows(next, slice)
      BY <2>3, <1>7 DEF Follows
    <3> QED
      BY <2>1, <2>3, <1>6, <1>7, <3>1, <3>2, <3>3
  <2> QED
    BY <2>2, <2>3, <1>1, <1>4
<1>14. start' \in 0 .. Len(text) /\ split' \in BOOLEAN
  <2>1. start \in 0 .. Len(text)
    BY <1>1, <1>2
  <2>2. CASE end < Len(text)
    BY <2>2, <1>6, <1>8, Zenon
  <2>3. CASE end >= Len(text)
    BY <2>1, <2>3, <1>8, Zenon
  <2> QED
    BY <2>2, <2>3, <1>1, <1>4
<1> QED
  BY <1>1, <1>8, <1>9, <1>10, <1>11, <1>12, <1>13, <1>14 DEF SlicesFollow, Follows

\* A set of numbers that is not empty has a least one.
LEMMA LeastNumber ==
  ASSUME NEW S \in SUBSET Nat, S # {}
  PROVE  \E k \in S : \A j \in S : k <= j
<1>1. PICK k \in S : \A j \in S : ~(<<j, k>> \in OpToRel(<, Nat))
  BY NatLessThanWellFounded, WFMin
<1>2. \A j \in S : <<j, k>> \in Nat \X Nat /\ <<j, k>>[1] = j /\ <<j, k>>[2] = k
  OBVIOUS
<1>3. \A j \in S : ~(j < k)
  BY <1>1, <1>2, Zenon DEF OpToRel
<1> QED
  BY <1>3

\* When all is cut, the last slice that starts no later than a stretch of the length of
\* the overlap holds all of it: the one after it starts later, and the two overlap.
LEMMA StretchInSlice ==
  ASSUME SlicesFollow, split, NEW a \in 0 .. Len(text), NEW b \in a .. Len(text),
         b <= a + ChunkOverlap
  PROVE  \E k \in DOMAIN slices : slices[k].from <= a /\ b <= slices[k].to
<1> DEFINE n == Len(slices)
           Last(k) == k \in 1..n /\ (k = n \/ slices[k + 1].from > a)
<1>1. /\ text \in Seq(CodeUnits) /\ Len(text) \in Nat
      /\ slices \in Seq([from : Nat, to : Nat]) /\ n \in Nat \ {0}
      /\ slices[n].to = Len(text) /\ ChunkOverlap \in Nat /\ DOMAIN slices = 1..n
  BY ChunkingAssumption DEF SlicesFollow
<1>types. \A j \in 1..n : slices[j].from \in Nat /\ slices[j].to \in Nat
  <2>1. \A j \in 1 .. Len(slices) : slices[j] \in [from : Nat, to : Nat]
    BY <1>1, ElementOfSeq
  <2> QED
    BY <2>1
<1> HIDE DEF n
<1>2. \E k \in Nat : Last(k) /\ \A j \in 0 .. k - 1 : ~Last(j)
  <2> DEFINE S == {k \in Nat : Last(k)}
  <2>1. n \in S
    BY <1>1
  <2>2. PICK k \in S : \A j \in S : k <= j
    BY <2>1, LeastNumber
  <2> QED
    BY <2>2
<1>3. PICK k \in Nat : Last(k) /\ \A j \in 0 .. k - 1 : ~Last(j)
  BY <1>2
<1>4. k \in 1..n
  BY <1>3
<1>5. slices[k].from <= a
  <2>1. CASE k = 1
    BY <2>1, <1>1, <1>4 DEF SlicesFollow
  <2>2. CASE k > 1
    <3>1. n \in Nat /\ k \in 1..n /\ k > 1
      BY <2>2, <1>1, <1>4
    <3>2. k - 1 \in 1..n /\ k - 1 # n /\ k - 1 \in 0 .. k - 1 /\ (k - 1) + 1 = k
      BY <3>1
    <3>3. ~Last(k - 1)
      <4> HIDE DEF Last
      <4> QED
        BY <3>2, <1>3, Zenon
    <3>4. ~(slices[k].from > a)
      BY <3>2, <3>3, Zenon
    <3>5. slices[k].from \in Nat
      BY <1>types, <1>4, Zenon
    <3> QED
      BY <3>4, <3>5
  <2> QED
    BY <2>1, <2>2, <1>4
<1>6. b <= slices[k].to
  <2>1. CASE k = n
    BY <2>1, <1>1
  <2>2. CASE k < n
    <3>1. k + 1 \in 1..n /\ slices[k + 1].from > a
      <4>1. n \in Nat /\ k \in 1..n /\ k < n
        BY <2>2, <1>1, <1>4
      <4>2. k # n /\ k + 1 \in 1..n
        BY <4>1
      <4> QED
        BY <4>2, <1>3
    <3>2. Follows(slices[k + 1].from, slices[k])
      <4>1. k + 1 # 1 /\ (k + 1) - 1 = k
        BY <1>4
      <4> QED
        BY <3>1, <4>1, <1>1 DEF SlicesFollow
    <3>3. slices[k].to \in Nat /\ slices[k + 1].from \in Nat
      BY <3>1, <1>types, <1>1, <1>4
    <3> QED
      BY <3>1, <3>2, <3>3, <1>1 DEF Follows
  <2>3. k = n \/ k < n
    BY <1>1, <1>4
  <2> QED
    BY <2>1, <2>2, <2>3, Zenon
<1> QED
  BY <1>1, <1>4, <1>5, <1>6, Zenon

\* However long a text is and wherever its surrogate pairs are, its slices fit the chunk
\* size, cut no pair, and every stretch no longer than the overlap lies whole in one.
THEOREM SlicesSafe == ChunkingSpec => []SlicesWhole
<1>1. SlicesFollow /\ [ChunkingNext]_chunking => SlicesFollow'
  <2> SUFFICES ASSUME SlicesFollow, [ChunkingNext]_chunking PROVE SlicesFollow'
    OBVIOUS
  <2>1. CASE WholeBody
    BY <2>1, WholeBodyFollows
  <2>2. CASE NextSlice
    BY <2>2, NextSliceFollows
  <2>3. CASE UNCHANGED chunking
    BY <2>3 DEF chunking, SlicesFollow, CutsPair
  <2> QED
    BY <2>1, <2>2, <2>3 DEF ChunkingNext
<1>2. SlicesFollow => SlicesWhole
  BY StretchInSlice DEF SlicesFollow, SlicesWhole
<1> QED
  BY ChunkingStarts, <1>1, <1>2, PTL DEF ChunkingSpec

=============================================================================
