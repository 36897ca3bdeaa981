--------------------------- MODULE GmailSyncProofs -------------------------
(***************************************************************************)
(* Theorems about GmailSync, for any sets of messages, handlers, logins    *)
(* and backfills and any bound on the mailbox's history.                   *)
(*                                                                         *)
(*   1. TypeCorrect.                                                       *)
(*   2. Every step is a MirrorStep: it moves mailbox, rows and checkpoint  *)
(*      in a way under which what processes remember stays true.           *)
(*   3. Every conjunct of IInv is kept, so IInv is inductive.              *)
(*   4. IInv implies the safety properties.                                *)
(*   5. Every step is a step of CheckpointedMirror.                        *)
(***************************************************************************)
EXTENDS GmailSync, FiniteSetTheorems, TLAPS

USE ConstantsAssumption DEF Importers

(***************************************************************************)
(* 1. Types                                                                *)
(***************************************************************************)
LEMMA CallType ==
  ASSUME NEW pc \in {"idle", "watch", "expiry", "history", "page", "fetch", "store"},
         NEW user \in {"new", "known"}, NEW hist \in Nat, NEW todo \in SUBSET Msgs,
         NEW got \in Msgs \cup {None}, NEW ver \in Nat
  PROVE  Call(pc, user, hist, todo, got, ver) \in ImpState
  BY DEF Call, ImpState

LEMMA InvocationType ==
  ASSUME NEW pc \in {"idle", "skip", "list", "get", "upsert", "advance"},
         NEW new \in Nat, NEW start \in Nat, NEW todo \in SUBSET Msgs,
         NEW batch \in [Msgs -> Nat]
  PROVE  Invocation(pc, new, start, todo, batch) \in HookState
  BY DEF Invocation, HookState

LEMMA IdleTypes ==
  HookIdle \in HookState /\ ImpIdle \in ImpState /\ NoBatch \in [Msgs -> Nat]
<1>1. NoBatch \in [Msgs -> Nat]
  BY DEF NoBatch
<1> QED
  BY <1>1, CallType, InvocationType DEF HookIdle, ImpIdle

LEMMA InitTypes == Init => TypeOK
<1> SUFFICES ASSUME Init PROVE TypeOK
  OBVIOUS
<1>1. hid \in Nat \ {0} /\ last \in [Msgs -> Nat] /\ historyId \in Nat /\ forgotten \in Nat
  BY DEF Init, NoHistory
<1>2. /\ gone \subseteq Msgs /\ inbox \subseteq Msgs
      /\ pubsub \subseteq Nat /\ jumped \subseteq Msgs
  BY DEF Init
<1>3. row \in [Msgs -> Nat] /\ high \in [Msgs -> Nat] /\ since \in Nat
  BY DEF Init
<1>4. hook \in [Handlers -> HookState]
  BY IdleTypes DEF Init
<1>5. imp \in [Importers -> ImpState]
  BY IdleTypes DEF Init
<1>6. cron \in [pc : {"idle", "history"}, hist : Nat]
  BY DEF Init, CronIdle
<1>7. /\ watched \in BOOLEAN /\ watchExpiry \in BOOLEAN
      /\ session \in BOOLEAN /\ seeded \in BOOLEAN
  BY DEF Init
<1> QED
  BY <1>1, <1>2, <1>3, <1>4, <1>5, <1>6, <1>7 DEF TypeOK

\* The steps of a webhook invocation.
LEMMA WebhookTypes ==
  ASSUME TypeOK, NEW h \in Handlers, Webhook(h)
  PROVE  TypeOK'
<1> USE DEF TypeOK, gmailVars, dbVars, ghostVars, HookState, HookIdle, NoBatch, Invocation
<1>1. ASSUME NEW n \in pubsub, Receive(h, n) PROVE TypeOK'
  BY <1>1 DEF Receive
<1>2. ASSUME SkipDelta(h) PROVE TypeOK'
  BY <1>2 DEF SkipDelta, UpdateHistoryIdBlindly, SteppedOver
<1>3. ASSUME ListDelta(h) PROVE TypeOK'
  BY <1>3 DEF ListDelta, ReadyToAdvance, DeltaMessageIds
<1>4. ASSUME NEW m \in Msgs, GetMessage(h, m) PROVE TypeOK'
  BY <1>4 DEF GetMessage, ReadyToAdvance, AfterGet
<1>5. ASSUME UpsertBatch(h) PROVE TypeOK'
  BY <1>5 DEF UpsertBatch, ReadyToAdvance, UpsertMessages, Upserted, Newest
<1>6. ASSUME UpsertUnanswered(h) PROVE TypeOK'
  BY <1>6 DEF UpsertUnanswered, UpsertMessages, Upserted, Newest
<1>7. ASSUME AdvanceHistory(h) PROVE TypeOK'
  BY <1>7 DEF AdvanceHistory
<1>8. ASSUME HandlerThrows(h) PROVE TypeOK'
  BY <1>8 DEF HandlerThrows
<1>9. ASSUME HandlerKilled(h) PROVE TypeOK'
  BY <1>9 DEF HandlerKilled
<1>10. ASSUME HistoryExpired(h) PROVE TypeOK'
  BY <1>10 DEF HistoryExpired
<1> QED
  BY <1>1, <1>2, <1>3, <1>4, <1>5, <1>6, <1>7, <1>8, <1>9, <1>10 DEF Webhook

\* A listing handed to an import holds messages of the inbox.
LEMMA StartImportTypes ==
  ASSUME TypeOK, NEW p \in Importers, NEW cap, StartImport(p, cap)
  PROVE  TypeOK'
<1>1. imp' \in [Importers -> ImpState]
  <2>1. imp \in [Importers -> ImpState]
    BY DEF TypeOK
  <2>2. PICK page \in InboxPage(cap) : StartImport(p, cap)!(page)
    BY DEF StartImport
  <2>3. Importing("fetch", page, None, 0) \in ImpState
    BY CallType DEF Importing, InboxPage, TypeOK
  <2> QED
    BY <2>1, <2>2, <2>3, IdleTypes DEF ImportDone
<1>2. session' \in BOOLEAN /\ seeded' \in BOOLEAN
  BY DEF StartImport, TypeOK, ImportDone
<1> QED
  BY <1>1, <1>2 DEF StartImport, TypeOK, gmailVars, dbVars, ghostVars

LEMMA LoginTypes ==
  ASSUME TypeOK, NEW l \in Logins, Login(l)
  PROVE  TypeOK'
<1>0. l \in Importers /\ imp \in [Importers -> ImpState] /\ imp[l].hist \in Nat
  BY DEF TypeOK, ImpState
<1>1. CASE LoginStart(l)
  BY <1>0, <1>1 DEF LoginStart, Call, ImpState, TypeOK, gmailVars, dbVars, ghostVars
<1>2. CASE LoginWatch(l)
  BY <1>0, <1>2 DEF LoginWatch, Call, ImpState, TypeOK, gmailVars, dbVars, ghostVars
<1>3. CASE LoginUpdateExpiry(l)
  <2>1. Call("history", "new", imp[l].hist, {}, None, 0) \in ImpState
    BY <1>0, CallType
  <2>2. imp' \in [Importers -> ImpState]
    BY <1>0, <1>3, <2>1, IdleTypes DEF LoginUpdateExpiry
  <2> QED
    BY <1>3, <2>2 DEF LoginUpdateExpiry, TypeOK, gmailVars, dbVars, ghostVars
<1>4. CASE LoginUpdateHistory(l)
  BY <1>0, <1>4 DEF LoginUpdateHistory, Importing, Call, ImpState, UpdateHistoryIdBlindly,
     SteppedOver, TypeOK, gmailVars, dbVars, ghostVars
<1>5. CASE InitialSync(l)
  BY <1>0, <1>5, StartImportTypes DEF InitialSync
<1> QED
  BY <1>1, <1>2, <1>3, <1>4, <1>5 DEF Login

LEMMA UpsertTypes ==
  ASSUME TypeOK, NEW got \in [Msgs -> Nat], UpsertMessages(got)
  PROVE  row' \in [Msgs -> Nat] /\ high' \in [Msgs -> Nat]
  BY DEF UpsertMessages, Upserted, Newest, TypeOK

LEMMA InHandType ==
  ASSUME TypeOK, NEW p \in Importers
  PROVE  InHand(p) \in [Msgs -> Nat]
  BY DEF InHand, TypeOK, ImpState, NoBatch

LEMMA ImportTypes ==
  ASSUME TypeOK, NEW p \in Importers, Import(p)
  PROVE  TypeOK'
<1>0. imp \in [Importers -> ImpState] /\ imp[p].todo \in SUBSET Msgs
  BY DEF TypeOK, ImpState
<1>1. ASSUME NEW m \in Msgs, ImportGet(p, m) PROVE TypeOK'
  BY <1>1 DEF ImportGet, Importing, Call, ImpState, TypeOK, gmailVars, dbVars, ghostVars
<1>2. CASE ImportStore(p)
  <2>1. imp' \in [Importers -> ImpState]
    <3>1. Importing("fetch", imp[p].todo, None, 0) \in ImpState
      BY <1>0, CallType DEF Importing
    <3> QED
      BY <1>0, <1>2, <3>1, IdleTypes DEF ImportDone, ImportStore
  <2>2. session' \in BOOLEAN /\ seeded' \in BOOLEAN
    BY <1>2 DEF ImportStore, TypeOK, ImportDone
  <2> QED
    BY <1>2, <2>1, <2>2, UpsertTypes, InHandType
    DEF ImportStore, TypeOK, gmailVars, dbVars, ghostVars
<1>3. CASE StoreUnanswered(p)
  BY <1>3, UpsertTypes, InHandType
  DEF StoreUnanswered, TypeOK, gmailVars, dbVars, ghostVars
<1>4. CASE ImportFails(p)
  BY <1>4, IdleTypes DEF ImportFails, TypeOK, gmailVars, dbVars, ghostVars
<1> QED
  BY <1>1, <1>2, <1>3, <1>4 DEF Import

\* Every variable and every process keeps its type: in particular the checkpoint
\* is always a history id and the handlers only hold message ids and versions.
THEOREM TypeCorrect == Spec => []TypeOK
<1>1. Init => TypeOK
  BY InitTypes
<1>2. TypeOK /\ [Next]_vars => TypeOK'
  <2> SUFFICES ASSUME TypeOK, [Next]_vars PROVE TypeOK'
    OBVIOUS
  <2>1. ASSUME NEW m \in Msgs, GmailChange(m) PROVE TypeOK'
    BY <2>1 DEF TypeOK, GmailChange, gmailVars, dbVars, ghostVars, Publish
  <2>2. ASSUME NEW m \in Msgs, GmailDelete(m) PROVE TypeOK'
    BY <2>2 DEF TypeOK, GmailDelete, gmailVars, dbVars, ghostVars, Publish
  <2>3. ASSUME NEW n \in pubsub, LookupFails(n) PROVE TypeOK'
    BY <2>3 DEF TypeOK, LookupFails, gmailVars, dbVars, ghostVars
  <2>7. CASE WatchLapses
    BY <2>7 DEF TypeOK, WatchLapses, gmailVars, dbVars, ghostVars
  <2>8. ASSUME NEW n \in 1..MaxHist, GmailForgets(n) PROVE TypeOK'
    BY <2>8 DEF TypeOK, GmailForgets, gmailVars, dbVars, ghostVars
  <2>4. CASE RenewWatches
    <3>1. CASE CronWatch
      BY <3>1 DEF TypeOK, CronWatch, gmailVars, dbVars, ghostVars
    <3>2. CASE CronUpdateHistory
      BY <3>2 DEF TypeOK, CronUpdateHistory, CronIdle, UpdateHistoryIdBlindly, SteppedOver,
         gmailVars, dbVars, ghostVars
    <3>3. CASE CronFails
      BY <3>3 DEF TypeOK, CronFails, CronIdle, gmailVars, dbVars, ghostVars
    <3> QED
      BY <2>4, <3>1, <3>2, <3>3 DEF RenewWatches
  <2>5. ASSUME NEW b \in Backfills, RunBackfill(b) PROVE TypeOK'
    BY <2>5, StartImportTypes DEF RunBackfill
  <2>6. CASE UNCHANGED vars
    BY <2>6 DEF TypeOK, vars, gmailVars, dbVars, ghostVars
  <2> QED
    BY <2>1, <2>2, <2>3, <2>4, <2>5, <2>6, <2>7, <2>8, WebhookTypes, LoginTypes,
       ImportTypes DEF Next
<1> QED
  BY <1>1, <1>2, PTL DEF Spec

(***************************************************************************)
(* 2. What a step does to the mirror, and what it therefore preserves      *)
(***************************************************************************)
\* What any step may do to the mailbox, the rows and the checkpoint.
MirrorStep ==
  /\ hid <= hid' /\ gone \subseteq gone'
  /\ \A m \in Msgs : last'[m] = last[m] \/ (last'[m] = hid' /\ hid < hid')
  /\ \A m \in inbox' : m \in inbox \/ hid < last'[m]
  /\ \A m \in Msgs : high[m] <= high'[m] /\ high'[m] <= last'[m]
  /\ \A m \in Msgs :
       \/ row'[m] = row[m]
       \/ /\ historyId # NoHistory /\ 0 < row'[m] /\ row'[m] <= high'[m]
          /\ InHandIsCovered(m, row'[m])
  /\ \A m \in jumped : m \in jumped' \/ hid < last'[m]
  /\ historyId # NoHistory => historyId' # NoHistory /\ since' = since
  /\ since <= since' /\ since' <= hid

\* CoveredUpTo(c) in the next state, for a c of this state.
CoveredAfter(c) ==
  \A m \in Msgs \ gone' :
    since' < last'[m] /\ last'[m] <= c /\ m \notin jumped' => high'[m] = last'[m]

LEMMA QuietStep ==
  ASSUME TypeOK, IInv, UNCHANGED <<gmailVars, historyId, row, high, since, jumped>>
  PROVE  MirrorStep
  BY DEF MirrorStep, TypeOK, IInv, WithinHistory, gmailVars

LEMMA BlindStep ==
  ASSUME TypeOK, IInv, NEW new \in Nat, 0 < new, new <= hid,
         UpdateHistoryIdBlindly(new), UNCHANGED <<gmailVars, row, high>>
  PROVE  MirrorStep /\ CoveredAfter(new)
<1>1. MirrorStep
  BY DEF MirrorStep, TypeOK, IInv, WithinHistory, BeforeStart, gmailVars, UpdateHistoryIdBlindly,
     NoHistory
<1>2. CoveredAfter(new)
  BY DEF TypeOK, IInv, CoveredUpTo, CoveredAfter, gmailVars, UpdateHistoryIdBlindly,
     SteppedOver, NoHistory
<1> QED
  BY <1>1, <1>2

LEMMA UpsertStep ==
  ASSUME TypeOK, IInv, NEW got \in [Msgs -> Nat], UpsertMessages(got),
         historyId # NoHistory, \A m \in Msgs : InHandIsCovered(m, got[m]),
         UNCHANGED <<gmailVars, historyId, since, jumped>>
  PROVE  MirrorStep
<1>1. \A m \in Msgs : high[m] <= high'[m] /\ high'[m] <= last'[m]
  BY DEF TypeOK, IInv, WithinHistory, UpsertMessages, Newest, InHandIsCovered, gmailVars
<1>2. \A m \in Msgs : \/ row'[m] = row[m]
                      \/ /\ historyId # NoHistory /\ 0 < row'[m] /\ row'[m] <= high'[m]
                         /\ InHandIsCovered(m, row'[m])
  BY DEF TypeOK, UpsertMessages, Newest, Upserted
<1> QED
  BY <1>1, <1>2 DEF MirrorStep, TypeOK, IInv, WithinHistory, gmailVars

LEMMA ChangeStep ==
  ASSUME TypeOK, IInv, NEW m \in Msgs, GmailChange(m)
  PROVE  MirrorStep
  BY DEF MirrorStep, TypeOK, IInv, WithinHistory, GmailChange, dbVars

LEMMA DeleteStep ==
  ASSUME TypeOK, IInv, NEW m \in Msgs, GmailDelete(m)
  PROVE  MirrorStep
  BY DEF MirrorStep, TypeOK, IInv, WithinHistory, GmailDelete, dbVars, ghostVars

LEMMA AdvanceStep ==
  ASSUME TypeOK, IInv, NEW h \in Handlers, AdvanceHistory(h)
  PROVE  MirrorStep
  BY DEF MirrorStep, TypeOK, IInv, WithinHistory, AdvanceHistory, gmailVars, ghostVars,
     HookKnows, HookState, NoHistory

LEMMA CoveredStable ==
  ASSUME TypeOK, TypeOK', IInv, MirrorStep, NEW c \in Nat, c <= hid, CoveredUpTo(c)
  PROVE  CoveredAfter(c)
  BY DEF CoveredUpTo, CoveredAfter, MirrorStep, TypeOK

LEMMA InHandStable ==
  ASSUME TypeOK, TypeOK', IInv, MirrorStep, NEW m \in Msgs, NEW v \in Nat,
         historyId # NoHistory, InHandIsCovered(m, v)
  PROVE  InHandIsCovered(m, v)'
  BY DEF InHandIsCovered, MirrorStep, TypeOK, IInv, WithinHistory

LEMMA HookStable ==
  ASSUME TypeOK, TypeOK', IInv, MirrorStep, NEW h \in Handlers, hook'[h] = hook[h]
  PROVE  HookKnows(h)'
<1> DEFINE i == hook[h]
<1>1. i \in HookState /\ HookKnows(h)
  BY DEF TypeOK, IInv
<1>2. i.pc # "idle" => 0 < i.new /\ i.new <= hid'
  BY <1>1 DEF HookKnows, HookState, MirrorStep, TypeOK
<1>3. i.pc \in {"list", "get", "upsert"} =>
        0 < i.start /\ i.start <= hid' /\ CoveredAfter(i.start)
  BY <1>1, CoveredStable DEF HookKnows, HookState, MirrorStep, TypeOK
<1>4. i.pc \in {"get", "upsert"} =>
        \A m \in Msgs \ gone' :
          i.start < last'[m] /\ last'[m] <= i.new => m \in i.todo \/ i.batch[m] = last'[m]
  BY <1>1 DEF HookKnows, HookState, MirrorStep, TypeOK
<1>5. i.pc \in {"get", "upsert"} => \A m \in Msgs : InHandIsCovered(m, i.batch[m])'
  <2>1. i.pc \in {"get", "upsert"} => historyId # NoHistory
    BY DEF IInv, BeforeStart
  <2> QED
    BY <1>1, <2>1, InHandStable DEF HookKnows, HookState
<1>6. i.pc = "advance" => CoveredAfter(i.new)
  BY <1>1, CoveredStable DEF HookKnows, HookState
<1> QED
  BY <1>1, <1>2, <1>3, <1>4, <1>5, <1>6 DEF HookKnows, CoveredUpTo, CoveredAfter

LEMMA AccountedStable ==
  ASSUME TypeOK, TypeOK', IInv, MirrorStep, NEW m \in Msgs,
         historyId # NoHistory, Accounted(m) \/ m \notin inbox, m \in inbox'
  PROVE  Accounted(m)'
  BY DEF Accounted, MirrorStep, TypeOK, IInv, WithinHistory

LEMMA ImpStable ==
  ASSUME TypeOK, TypeOK', IInv, MirrorStep, NEW p \in Importers, imp'[p] = imp[p]
  PROVE  ImpKnows(p)'
<1> DEFINE i == imp[p]
<1>1. i \in ImpState /\ ImpKnows(p)
  BY DEF TypeOK, IInv
<1>0. i.pc \in {"fetch", "store"} => historyId # NoHistory
  BY DEF IInv, BeforeStart
<1>2. i.pc \in {"expiry", "history"} => 0 < i.hist /\ i.hist <= hid'
  BY <1>1 DEF ImpKnows, ImpState, MirrorStep, TypeOK
<1>3. i.pc \in {"fetch", "store"} => \A m \in i.todo : last'[m] > 0
  BY <1>1 DEF ImpKnows, ImpState, MirrorStep, TypeOK
<1>4. i.pc = "store" => i.got \in Msgs /\ 0 < i.ver /\ InHandIsCovered(i.got, i.ver)'
  BY <1>0, <1>1, InHandStable DEF ImpKnows, ImpState
<1>5. i.pc \in {"fetch", "store"} /\ p \in Logins /\ Cardinality(Msgs) <= SeedCap =>
        \A m \in inbox' :
          m \in i.todo \/ (i.pc = "store" /\ i.got = m) \/ Accounted(m)'
  BY <1>0, <1>1, AccountedStable DEF ImpKnows, TypeOK
<1> QED
  BY <1>1, <1>2, <1>3, <1>4, <1>5 DEF ImpKnows

LEMMA RowsStable ==
  ASSUME TypeOK, TypeOK', IInv, MirrorStep, NEW m \in Msgs, m \notin gone', row'[m] > 0
  PROVE  high'[m] = last'[m] \/ since' < last'[m]
  BY DEF MirrorStep, TypeOK, IInv, WithinHistory, RowsKnown, InHandIsCovered, BeforeStart

LEMMA IdleHook ==
  ASSUME NEW h \in Handlers, hook'[h] = HookIdle
  PROVE  HookKnows(h)'
  BY DEF HookIdle, Invocation, HookKnows

LEMMA ReadyHook ==
  ASSUME NEW h \in Handlers, NEW new \in Nat, hook'[h] = ReadyToAdvance(new),
         0 < new, new <= hid', CoveredAfter(new)
  PROVE  HookKnows(h)'
  BY DEF ReadyToAdvance, Invocation, HookKnows, CoveredUpTo, CoveredAfter

LEMMA ReceiveKnows ==
  ASSUME TypeOK, TypeOK', IInv, MirrorStep, NEW h \in Handlers, NEW n \in pubsub, Receive(h, n)
  PROVE  HookKnows(h)'
<1>1. /\ n \in Nat /\ 0 < n /\ n <= hid'
      /\ hid' \in Nat /\ historyId \in Nat /\ historyId <= hid'
  BY DEF TypeOK, IInv, WithinHistory, MirrorStep
<1>2. CoveredAfter(historyId)
  BY CoveredStable DEF IInv, TypeOK, WithinHistory
<1>3. hook'[h] = Invocation(IF historyId = NoHistory THEN "skip" ELSE "list",
                            n, historyId, {}, NoBatch)
  BY DEF Receive, TypeOK
<1>4. hook'[h].pc \in {"skip", "list"} /\ hook'[h].new = n /\ hook'[h].start = historyId
       /\ (hook'[h].pc = "list" => historyId # NoHistory)
  BY <1>3 DEF Invocation
<1> QED
  BY <1>1, <1>2, <1>4, CoveredStable DEF HookKnows, NoHistory, CoveredUpTo, CoveredAfter

LEMMA ListDeltaKnows ==
  ASSUME TypeOK, TypeOK', IInv, MirrorStep, NEW h \in Handlers, ListDelta(h)
  PROVE  HookKnows(h)'
<1> DEFINE i == hook[h]  ids == DeltaMessageIds(i.start)
<1>1. i \in HookState /\ HookKnows(h) /\ i.pc = "list"
  BY DEF TypeOK, IInv, ListDelta
<1>2. /\ 0 < i.new /\ i.new <= hid' /\ 0 < i.start /\ i.start <= hid'
      /\ CoveredAfter(i.start)
  BY <1>1, CoveredStable DEF HookKnows, HookState, MirrorStep, TypeOK
<1>3. \A m \in Msgs : last'[m] = last[m]
  BY DEF ListDelta, gmailVars
<1>4. CASE ids = {}
  <2>1. \A m \in Msgs : last'[m] <= i.start
    BY <1>1, <1>3, <1>4 DEF DeltaMessageIds, TypeOK, HookState
  <2>2. CoveredAfter(i.new)
    BY <1>1, <1>2, <2>1 DEF CoveredAfter, TypeOK, HookState
  <2>3. hook'[h] = ReadyToAdvance(i.new)
    BY <1>4 DEF ListDelta, TypeOK
  <2> QED
    BY <1>1, <1>2, <2>2, <2>3, ReadyHook DEF HookState
<1>5. CASE ids # {}
  <2>1. hook'[h] = Invocation("get", i.new, i.start, ids, NoBatch)
    BY <1>5 DEF ListDelta, TypeOK
  <2>2. /\ hook'[h].pc = "get" /\ hook'[h].new = i.new /\ hook'[h].start = i.start
        /\ hook'[h].todo = ids /\ hook'[h].batch = NoBatch
    BY <2>1 DEF Invocation
  <2>3. \A m \in Msgs : i.start < last'[m] => m \in ids
    BY <1>1, <1>3 DEF DeltaMessageIds, TypeOK, HookState
  <2>4. \A m \in Msgs : InHandIsCovered(m, NoBatch[m])'
    BY DEF InHandIsCovered, NoBatch, TypeOK
  <2> QED
    BY <1>2, <2>2, <2>3, <2>4 DEF HookKnows, CoveredUpTo, CoveredAfter
<1> QED
  BY <1>4, <1>5

LEMMA GetMessageKnows ==
  ASSUME TypeOK, TypeOK', IInv, MirrorStep, NEW h \in Handlers, NEW m \in Msgs,
         GetMessage(h, m)
  PROVE  HookKnows(h)'
<1> DEFINE i == hook[h]
           todo == i.todo \ {m}
           batch == IF m \in gone THEN i.batch ELSE [i.batch EXCEPT ![m] = last[m]]
<1>1. i \in HookState /\ HookKnows(h) /\ i.pc = "get" /\ m \in i.todo
  BY DEF TypeOK, IInv, GetMessage
<1>2. /\ 0 < i.new /\ i.new <= hid' /\ 0 < i.start /\ i.start <= hid'
      /\ CoveredAfter(i.start)
  BY <1>1, CoveredStable DEF HookKnows, HookState, MirrorStep, TypeOK
<1>3. UNCHANGED <<gmailVars, ghostVars>>
  BY DEF GetMessage
<1>4. \A k \in Msgs \ gone :
        i.start < last[k] /\ last[k] <= i.new => k \in todo \/ batch[k] = last[k]
  BY <1>1 DEF HookKnows, HookState
<1>5. \A k \in Msgs : InHandIsCovered(k, batch[k])
  BY <1>1 DEF HookKnows, HookState, InHandIsCovered, TypeOK
<1>6. hook'[h] = AfterGet(i.new, i.start, todo, batch)
  BY DEF GetMessage, TypeOK
<1>7. CASE todo = {} /\ batch = NoBatch
  <2>0. \A k \in Msgs : batch[k] = 0
    BY <1>7 DEF NoBatch
  <2>1. \A k \in Msgs \ gone : last[k] <= i.start \/ i.new < last[k]
    <3> SUFFICES ASSUME NEW k \in Msgs \ gone, i.start < last[k], last[k] <= i.new
                 PROVE  FALSE
      <4>1. i.start \in Nat /\ i.new \in Nat
        BY <1>1 DEF HookState
      <4>2. \A k \in Msgs : last[k] \in Nat
        BY DEF TypeOK
      <4> QED
        BY <4>1, <4>2
    <3>1. batch[k] = last[k]
      BY <1>4, <1>7
    <3> QED
      BY <1>1, <1>2, <2>0, <3>1 DEF TypeOK, HookState
  <2>2. CoveredAfter(i.new)
    BY <1>1, <1>2, <1>3, <2>1 DEF CoveredAfter, gmailVars, TypeOK, HookState
  <2> QED
    BY <1>1, <1>2, <1>6, <1>7, <2>2, ReadyHook DEF HookState, AfterGet
<1>8. CASE ~(todo = {} /\ batch = NoBatch)
  <2>1. /\ hook'[h].pc \in {"get", "upsert"} /\ hook'[h].new = i.new
        /\ hook'[h].start = i.start /\ hook'[h].todo = todo /\ hook'[h].batch = batch
        /\ (hook'[h].pc = "upsert" => todo = {})
    BY <1>6, <1>8 DEF AfterGet, Invocation
  <2> QED
    BY <1>2, <1>3, <1>4, <1>5, <2>1 DEF HookKnows, gmailVars, ghostVars, InHandIsCovered,
       CoveredUpTo, CoveredAfter
<1> QED
  BY <1>7, <1>8

LEMMA UpsertKnows ==
  ASSUME TypeOK, TypeOK', IInv, MirrorStep, NEW h \in Handlers, UpsertBatch(h)
  PROVE  HookKnows(h)'
<1> DEFINE i == hook[h]
<1>1. i \in HookState /\ HookKnows(h) /\ i.pc = "upsert" /\ i.todo = {}
  BY DEF TypeOK, IInv, UpsertBatch, HookKnows
<1>2. 0 < i.new /\ i.new <= hid' /\ CoveredAfter(i.start)
  BY <1>1, CoveredStable DEF HookKnows, HookState, MirrorStep, TypeOK
<1>3. \A m \in Msgs : i.batch[m] = last[m] => high'[m] = last'[m]
  BY <1>1 DEF UpsertBatch, UpsertMessages, Newest, TypeOK, IInv, WithinHistory, gmailVars
<1>4. \A m \in Msgs \ gone' : i.start < last'[m] /\ last'[m] <= i.new => high'[m] = last'[m]
  BY <1>1, <1>3 DEF HookKnows, UpsertBatch, gmailVars
<1>5. CoveredAfter(i.new)
  BY <1>1, <1>2, <1>4 DEF CoveredAfter, TypeOK, HookState
<1> QED
  BY <1>1, <1>2, <1>5, ReadyHook DEF UpsertBatch, TypeOK, HookState

LEMMA LoginKnows ==
  ASSUME TypeOK, TypeOK', IInv, MirrorStep, NEW l \in Logins,
         LoginStart(l) \/ LoginWatch(l) \/ LoginUpdateExpiry(l) \/ LoginUpdateHistory(l)
  PROVE  ImpKnows(l)'
<1>0. imp \in [Importers -> ImpState] /\ l \in Importers
  BY DEF TypeOK
<1>00. imp[l] \in ImpState /\ ImpKnows(l)
  BY <1>0 DEF IInv
<1>1. CASE LoginStart(l)
  BY <1>0, <1>00, <1>1 DEF LoginStart, Call, ImpKnows
<1>2. CASE LoginWatch(l)
  BY <1>0, <1>00, <1>2 DEF LoginWatch, Call, ImpKnows, TypeOK, gmailVars
<1>3. CASE LoginUpdateExpiry(l)
  BY <1>0, <1>00, <1>3 DEF LoginUpdateExpiry, Call, ImpIdle, ImpKnows, TypeOK, gmailVars
<1>4. CASE LoginUpdateHistory(l)
  BY <1>0, <1>00, <1>4 DEF LoginUpdateHistory, Importing, Call, ImpKnows
<1> QED
  BY <1>1, <1>2, <1>3, <1>4

LEMMA IdleImp ==
  ASSUME NEW p \in Importers, imp'[p] = ImpIdle
  PROVE  ImpKnows(p)'
  BY DEF ImpIdle, Call, ImpKnows

\* A page of an inbox no larger than the cap is the whole inbox.
LEMMA WholeInbox ==
  ASSUME TypeOK, NEW page \in InboxPage(SeedCap), Cardinality(Msgs) <= SeedCap
  PROVE  page = inbox
<1>1. inbox \subseteq Msgs /\ page \subseteq inbox
  BY DEF TypeOK, InboxPage
<1>2. IsFiniteSet(inbox) /\ Cardinality(inbox) <= Cardinality(Msgs)
  BY <1>1, FS_Subset
<1>3. Cardinality(page) <= Cardinality(inbox) /\ (Cardinality(page) = Cardinality(inbox) => page = inbox)
  BY <1>1, <1>2, FS_Subset
<1>4. Cardinality(page) \in Nat /\ Cardinality(inbox) \in Nat /\ Cardinality(Msgs) \in Nat /\ SeedCap \in Nat
  BY <1>1, <1>2, FS_Subset, FS_CardinalityType
<1>5. Cardinality(page) = SeedCap \/ page = inbox
  BY DEF InboxPage
<1> QED
  BY <1>2, <1>3, <1>4, <1>5

LEMMA StartImportKnows ==
  ASSUME TypeOK, TypeOK', IInv, MirrorStep, NEW p \in Importers, NEW cap, StartImport(p, cap),
         p \in Logins => cap = SeedCap
  PROVE  /\ ImpKnows(p)'
         /\ seeded' # seeded /\ Cardinality(Msgs) <= SeedCap => inbox' = {}
<1>1. PICK page \in InboxPage(cap) : StartImport(p, cap)!(page)
  BY DEF StartImport
<1>2. page \subseteq inbox /\ \A m \in inbox : last[m] > 0
  BY DEF InboxPage, IInv, WithinHistory
<1>3. p \in Logins /\ Cardinality(Msgs) <= SeedCap => page = inbox
  BY WholeInbox
<1>4. inbox' = inbox /\ last' = last
  BY <1>1 DEF gmailVars
<1>5. CASE page = {}
  BY <1>1, <1>3, <1>4, <1>5, IdleImp DEF ImportDone, TypeOK
<1>6. CASE page # {}
  <2>1. imp'[p] = Importing("fetch", page, None, 0) /\ seeded' = seeded
    BY <1>1, <1>6 DEF TypeOK
  <2>2. imp'[p].pc = "fetch" /\ imp'[p].todo = page
    BY <2>1 DEF Importing, Call
  <2> QED
    BY <1>2, <1>3, <1>4, <2>1, <2>2 DEF ImpKnows
<1> QED
  BY <1>5, <1>6

LEMMA ImportGetKnows ==
  ASSUME TypeOK, TypeOK', IInv, MirrorStep, NEW p \in Importers, NEW m \in Msgs, ImportGet(p, m)
  PROVE  ImpKnows(p)'
<1> DEFINE i == imp[p]
<1>1. i \in ImpState /\ ImpKnows(p) /\ i.pc = "fetch" /\ m \in i.todo
  BY DEF TypeOK, IInv, ImportGet
<1>2. /\ imp'[p].pc = "store" /\ imp'[p].todo = i.todo \ {m} /\ imp'[p].got = m
      /\ imp'[p].ver = last[m] /\ imp'[p].hist = 0
  BY DEF ImportGet, Importing, Call, TypeOK
<1>3. UNCHANGED <<last, inbox, row, since>>
  BY DEF ImportGet, gmailVars, dbVars, ghostVars
<1>4. 0 < last[m] /\ InHandIsCovered(m, last[m])'
  BY <1>1, <1>3 DEF ImpKnows, InHandIsCovered, TypeOK
<1>5. p \in Logins /\ Cardinality(Msgs) <= SeedCap =>
        \A k \in inbox' : k \in i.todo \/ Accounted(k)'
  BY <1>1, <1>3 DEF ImpKnows, Accounted
<1> QED
  BY <1>1, <1>2, <1>3, <1>4, <1>5 DEF ImpKnows

LEMMA InHandFacts ==
  ASSUME TypeOK, IInv, NEW p \in Importers, imp[p].pc = "store"
  PROVE  /\ InHand(p) \in [Msgs -> Nat]
         /\ \A m \in Msgs : InHandIsCovered(m, InHand(p)[m])
         /\ imp[p].got \in Msgs
         /\ InHand(p)[imp[p].got] > 0
  BY DEF TypeOK, IInv, ImpKnows, InHand, NoBatch, ImpState, InHandIsCovered

LEMMA ImportStoreKnows ==
  ASSUME TypeOK, TypeOK', IInv, MirrorStep, NEW p \in Importers, ImportStore(p)
  PROVE  /\ ImpKnows(p)'
         /\ seeded' # seeded /\ Cardinality(Msgs) <= SeedCap =>
              \A m \in inbox' : Accounted(m)'
<1> DEFINE i == imp[p]
<1>1. i \in ImpState /\ ImpKnows(p) /\ i.pc = "store" /\ i.got \in Msgs
  BY DEF TypeOK, IInv, ImportStore, ImpKnows
<1>2. UNCHANGED <<last, inbox, since>> /\ historyId # NoHistory
  BY <1>1 DEF ImportStore, gmailVars, IInv, BeforeStart
<1>3. row'[i.got] > 0
  BY <1>1, InHandFacts DEF ImportStore, UpsertMessages, Upserted
<1>4. p \in Logins /\ Cardinality(Msgs) <= SeedCap =>
        \A m \in inbox' : m \in i.todo \/ Accounted(m)'
  <2> SUFFICES ASSUME p \in Logins, Cardinality(Msgs) <= SeedCap, NEW m \in inbox'
               PROVE  m \in i.todo \/ Accounted(m)'
    OBVIOUS
  <2>1. m \in Msgs /\ m \in inbox
    BY <1>2 DEF TypeOK
  <2>2. CASE i.got = m
    BY <2>2, <1>3 DEF Accounted
  <2>3. CASE Accounted(m)
    BY <1>2, <2>1, <2>3, AccountedStable
  <2> QED
    BY <1>1, <2>1, <2>2, <2>3 DEF ImpKnows
<1>5. CASE i.todo = {}
  BY <1>4, <1>5, IdleImp DEF ImportStore, ImportDone, TypeOK
<1>6. CASE i.todo # {}
  <2>1. imp'[p].pc = "fetch" /\ imp'[p].todo = i.todo /\ seeded' = seeded
    BY <1>6 DEF ImportStore, Importing, Call, TypeOK
  <2> QED
    BY <1>1, <1>2, <1>4, <2>1 DEF ImpKnows
<1> QED
  BY <1>5, <1>6

(***************************************************************************)
(* 3. The inductive invariant                                              *)
(***************************************************************************)
LEMMA InitIInv == Init => IInv
<1> SUFFICES ASSUME Init PROVE IInv
  OBVIOUS
<1>1. \A h \in Handlers : hook[h].pc = "idle"
  BY DEF Init, HookIdle, Invocation
<1>2. \A p \in Importers : imp[p].pc = "idle"
  BY DEF Init, ImpIdle, Call
<1>3. WithinHistory
  BY DEF Init, WithinHistory, CronIdle, NoHistory
<1>4. BeforeStart
  BY <1>1, <1>2 DEF Init, BeforeStart
<1>5. CoveredUpTo(historyId) /\ RowsKnown
  BY DEF Init, CoveredUpTo, NoHistory, RowsKnown
<1>6. \A h \in Handlers : HookKnows(h)
  BY <1>1 DEF HookKnows
<1>7. \A p \in Importers : ImpKnows(p)
  BY <1>2 DEF ImpKnows
<1> QED
  BY <1>3, <1>4, <1>5, <1>6, <1>7 DEF IInv

\* The three writers that take over a history id without a delta.
LEMMA BlindSteps ==
  ASSUME TypeOK, IInv,
         \/ \E h \in Handlers : SkipDelta(h)
         \/ CronUpdateHistory
         \/ \E l \in Logins : LoginUpdateHistory(l)
  PROVE  MirrorStep /\ CoveredUpTo(historyId)' /\ 0 < historyId' /\ historyId' <= hid
<1>1. ASSUME NEW new \in Nat, 0 < new, new <= hid, UpdateHistoryIdBlindly(new),
             UNCHANGED <<gmailVars, row, high>>
      PROVE  MirrorStep /\ CoveredUpTo(historyId)' /\ 0 < historyId' /\ historyId' <= hid
  <2>1. MirrorStep /\ CoveredAfter(new)
    BY <1>1, BlindStep
  <2>2. historyId' = new
    BY <1>1 DEF UpdateHistoryIdBlindly
  <2> QED
    BY <1>1, <2>1, <2>2 DEF CoveredUpTo, CoveredAfter
<1>2. ASSUME NEW h \in Handlers, SkipDelta(h)
      PROVE  MirrorStep /\ CoveredUpTo(historyId)' /\ 0 < historyId' /\ historyId' <= hid
  <2>1. hook[h].new \in Nat /\ 0 < hook[h].new /\ hook[h].new <= hid
    BY <1>2 DEF SkipDelta, TypeOK, HookState, IInv, HookKnows
  <2> QED
    BY <1>1, <1>2, <2>1 DEF SkipDelta
<1>3. ASSUME CronUpdateHistory
      PROVE  MirrorStep /\ CoveredUpTo(historyId)' /\ 0 < historyId' /\ historyId' <= hid
  <2>1. cron.hist \in Nat /\ 0 < cron.hist /\ cron.hist <= hid
    BY <1>3 DEF CronUpdateHistory, TypeOK, IInv, WithinHistory
  <2> QED
    BY <1>1, <1>3, <2>1 DEF CronUpdateHistory
<1>4. ASSUME NEW l \in Logins, LoginUpdateHistory(l)
      PROVE  MirrorStep /\ CoveredUpTo(historyId)' /\ 0 < historyId' /\ historyId' <= hid
  <2>1. imp[l].hist \in Nat /\ 0 < imp[l].hist /\ imp[l].hist <= hid
    BY <1>4 DEF LoginUpdateHistory, TypeOK, ImpState, IInv, ImpKnows
  <2> QED
    BY <1>1, <1>4, <2>1 DEF LoginUpdateHistory
<1> QED
  BY <1>2, <1>3, <1>4

LEMMA UpsertSteps ==
  ASSUME TypeOK, IInv,
         \/ \E h \in Handlers : UpsertBatch(h) \/ UpsertUnanswered(h)
         \/ \E p \in Importers : ImportStore(p) \/ StoreUnanswered(p)
  PROVE  MirrorStep /\ historyId' = historyId
<1>1. ASSUME NEW h \in Handlers, UpsertBatch(h) \/ UpsertUnanswered(h)
      PROVE  MirrorStep /\ historyId' = historyId
  <2>1. hook[h].pc = "upsert" /\ UpsertMessages(hook[h].batch)
    BY <1>1 DEF UpsertBatch, UpsertUnanswered
  <2>2. hook[h].batch \in [Msgs -> Nat]
    BY DEF TypeOK, HookState
  <2>3. historyId # NoHistory /\ \A m \in Msgs : InHandIsCovered(m, hook[h].batch[m])
    BY <2>1 DEF IInv, BeforeStart, HookKnows
  <2>4. UNCHANGED <<gmailVars, historyId, since, jumped>>
    BY <1>1 DEF UpsertBatch, UpsertUnanswered
  <2> QED
    BY <2>1, <2>2, <2>3, <2>4, UpsertStep
<1>2. ASSUME NEW p \in Importers, ImportStore(p) \/ StoreUnanswered(p)
      PROVE  MirrorStep /\ historyId' = historyId
  <2>1. imp[p].pc = "store" /\ UpsertMessages(InHand(p))
    BY <1>2 DEF ImportStore, StoreUnanswered
  <2>2. historyId # NoHistory
    BY <2>1 DEF IInv, BeforeStart
  <2>3. UNCHANGED <<gmailVars, historyId, since, jumped>>
    BY <1>2 DEF ImportStore, StoreUnanswered
  <2> QED
    BY <2>1, <2>2, <2>3, InHandFacts, UpsertStep
<1> QED
  BY <1>1, <1>2

\* Steps that leave mailbox, rows and checkpoint alone.
LEMMA QuietSteps ==
  ASSUME TypeOK, IInv,
         \/ \E n \in pubsub : LookupFails(n)
         \/ WatchLapses \/ \E n \in 1..MaxHist : GmailForgets(n)
         \/ \E h \in Handlers :
              \/ \E n \in pubsub : Receive(h, n)
              \/ ListDelta(h) \/ \E m \in Msgs : GetMessage(h, m)
              \/ HistoryExpired(h) \/ HandlerThrows(h) \/ HandlerKilled(h)
         \/ CronWatch \/ CronFails
         \/ \E l \in Logins :
              LoginStart(l) \/ LoginWatch(l) \/ LoginUpdateExpiry(l) \/ InitialSync(l)
         \/ \E b \in Backfills : RunBackfill(b)
         \/ \E p \in Importers : (\E m \in Msgs : ImportGet(p, m)) \/ ImportFails(p)
  PROVE  MirrorStep /\ historyId' = historyId
<1>1. UNCHANGED <<gmailVars, historyId, row, high, since, jumped>>
  BY DEF LookupFails, WatchLapses, GmailForgets, Receive, ListDelta, GetMessage, HandlerThrows,
     HistoryExpired, HandlerKilled,
     CronWatch, CronFails, LoginStart, LoginWatch, LoginUpdateExpiry, InitialSync,
     RunBackfill, StartImport, ImportGet, ImportFails, dbVars, ghostVars
<1> QED
  BY <1>1, QuietStep

LEMMA EveryStep ==
  ASSUME TypeOK, TypeOK', IInv, Next
  PROVE  MirrorStep /\ CoveredUpTo(historyId)'
<1>1. ASSUME MirrorStep, historyId' = historyId
      PROVE  CoveredUpTo(historyId)'
  <2>1. CoveredAfter(historyId)
    BY <1>1, CoveredStable DEF IInv, WithinHistory, TypeOK
  <2> QED
    BY <1>1, <2>1 DEF CoveredUpTo, CoveredAfter
<1>2. ASSUME NEW m \in Msgs, GmailChange(m) \/ GmailDelete(m)
      PROVE  MirrorStep /\ historyId' = historyId
  BY <1>2, ChangeStep, DeleteStep DEF GmailChange, GmailDelete, dbVars
<1>3. ASSUME NEW h \in Handlers, AdvanceHistory(h)
      PROVE  MirrorStep /\ CoveredUpTo(historyId)'
  <2>1. MirrorStep
    BY <1>3, AdvanceStep
  <2>2. CoveredAfter(hook[h].new)
    BY <1>3, <2>1, CoveredStable DEF AdvanceHistory, IInv, HookKnows, TypeOK, HookState
  <2> QED
    BY <1>3, <2>1, <2>2 DEF AdvanceHistory, CoveredUpTo, CoveredAfter
<1> QED
  BY <1>1, <1>2, <1>3, BlindSteps, UpsertSteps, QuietSteps
  DEF Next, Webhook, RenewWatches, Login, Import

LEMMA HooksStep ==
  ASSUME TypeOK, TypeOK', IInv, Next, MirrorStep, NEW h \in Handlers
  PROVE  HookKnows(h)'
<1>0. hook \in [Handlers -> HookState] /\ hook' \in [Handlers -> HookState]
  BY DEF TypeOK
<1>1. CASE hook'[h] = hook[h]
  BY <1>1, HookStable
<1>2. CASE \E n \in pubsub : Receive(h, n)
  BY <1>2, ReceiveKnows
<1>3. CASE ListDelta(h)
  BY <1>3, ListDeltaKnows
<1>4. CASE \E m \in Msgs : GetMessage(h, m)
  BY <1>4, GetMessageKnows
<1>5. CASE UpsertBatch(h)
  BY <1>5, UpsertKnows
<1>6. CASE hook'[h] = HookIdle
  BY <1>6, IdleHook
<1>7. ASSUME NEW g \in Handlers, Webhook(g)
      PROVE  HookKnows(h)'
  <2>1. CASE g # h
    <3>1. hook'[h] = hook[h]
      BY <1>0, <1>7, <2>1 DEF Webhook, Receive, SkipDelta, ListDelta, GetMessage, UpsertBatch,
         UpsertUnanswered, AdvanceHistory, HandlerThrows, HistoryExpired, HandlerKilled
    <3> QED
      BY <3>1, <1>1
  <2>2. CASE g = h
    <3>1. (\/ SkipDelta(h) \/ AdvanceHistory(h) \/ HistoryExpired(h)
           \/ HandlerThrows(h) \/ HandlerKilled(h))
            => hook'[h] = HookIdle
      BY <1>0 DEF SkipDelta, AdvanceHistory, HandlerThrows, HistoryExpired, HandlerKilled
    <3>2. UpsertUnanswered(h) => hook'[h] = hook[h]
      BY DEF UpsertUnanswered
    <3> QED
      BY <1>1, <1>2, <1>3, <1>4, <1>5, <1>6, <1>7, <2>2, <3>1, <3>2 DEF Webhook
  <2> QED
    BY <2>1, <2>2
<1>8. CASE ~\E g \in Handlers : Webhook(g)
  <2>1. hook' = hook
    BY <1>8 DEF Next, GmailChange, GmailDelete, LookupFails, WatchLapses, GmailForgets,
       RenewWatches, CronWatch,
       CronUpdateHistory, CronFails, Login, LoginStart, LoginWatch, LoginUpdateExpiry,
       LoginUpdateHistory, InitialSync, RunBackfill, StartImport, Import, ImportGet,
       ImportStore, StoreUnanswered, ImportFails
  <2> QED
    BY <2>1, <1>1
<1> QED
  BY <1>7, <1>8

LEMMA ImpsStep ==
  ASSUME TypeOK, TypeOK', IInv, Next, MirrorStep, NEW p \in Importers
  PROVE  ImpKnows(p)'
<1>0. imp \in [Importers -> ImpState] /\ imp' \in [Importers -> ImpState]
  BY DEF TypeOK
<1>1. CASE imp'[p] = imp[p]
  BY <1>1, ImpStable
<1>2. ASSUME NEW l \in Logins, Login(l)
      PROVE  ImpKnows(p)'
  <2>1. CASE l = p
    BY <1>2, <2>1, LoginKnows, StartImportKnows DEF Login, InitialSync
  <2>2. CASE l # p
    <3>1. imp'[p] = imp[p]
      BY <1>0, <1>2, <2>2 DEF Login, LoginStart, LoginWatch, LoginUpdateExpiry,
         LoginUpdateHistory, InitialSync, StartImport, ImportDone
    <3> QED
      BY <3>1, <1>1
  <2> QED
    BY <2>1, <2>2
<1>3. ASSUME NEW b \in Backfills, RunBackfill(b)
      PROVE  ImpKnows(p)'
  <2>1. CASE b = p
    BY <1>3, <2>1, StartImportKnows DEF RunBackfill
  <2>2. CASE b # p
    <3>1. imp'[p] = imp[p]
      BY <1>0, <1>3, <2>2 DEF RunBackfill, StartImport, ImportDone
    <3> QED
      BY <3>1, <1>1
  <2> QED
    BY <2>1, <2>2
<1>4. ASSUME NEW q \in Importers, Import(q)
      PROVE  ImpKnows(p)'
  <2>1. CASE q = p
    <3>1. ImportFails(p) => imp'[p] = ImpIdle
      BY <1>0 DEF ImportFails
    <3>2. StoreUnanswered(p) => imp'[p] = imp[p]
      BY DEF StoreUnanswered
    <3> QED
      BY <1>1, <1>4, <2>1, <3>1, <3>2, ImportGetKnows, ImportStoreKnows, IdleImp DEF Import
  <2>2. CASE q # p
    <3>1. imp'[p] = imp[p]
      BY <1>0, <1>4, <2>2 DEF Import, ImportGet, ImportStore, StoreUnanswered, ImportFails,
         ImportDone
    <3> QED
      BY <3>1, <1>1
  <2> QED
    BY <2>1, <2>2
<1>5. CASE /\ ~\E l \in Logins : Login(l)
           /\ ~\E b \in Backfills : RunBackfill(b)
           /\ ~\E q \in Importers : Import(q)
  <2>1. imp' = imp
    BY <1>5 DEF Next, GmailChange, GmailDelete, LookupFails, WatchLapses, GmailForgets,
       RenewWatches, CronWatch,
       CronUpdateHistory, CronFails, Webhook, Receive, SkipDelta, ListDelta, GetMessage,
       UpsertBatch, UpsertUnanswered, AdvanceHistory, HandlerThrows, HistoryExpired, HandlerKilled
  <2> QED
    BY <2>1, <1>1
<1> QED
  BY <1>2, <1>3, <1>4, <1>5

LEMMA RowsStep ==
  ASSUME TypeOK, TypeOK', IInv, Next, MirrorStep
  PROVE  RowsKnown'
<1>1. \A m \in Msgs \ gone' : row'[m] > 0 => high'[m] = last'[m] \/ since' < last'[m]
  BY RowsStable
<1>2. ASSUME seeded' = seeded, seeded, Cardinality(Msgs) <= SeedCap, NEW m \in inbox'
      PROVE  Accounted(m)'
  <2>1. historyId # NoHistory /\ m \in Msgs
    BY <1>2 DEF IInv, BeforeStart, TypeOK
  <2>2. Accounted(m) \/ m \notin inbox
    BY <1>2 DEF IInv, RowsKnown
  <2> QED
    BY <1>2, <2>1, <2>2, AccountedStable
<1>3. ASSUME seeded' # seeded, Cardinality(Msgs) <= SeedCap, NEW m \in inbox'
      PROVE  Accounted(m)'
  <2>1. \/ \E l \in Logins : InitialSync(l)
        \/ \E b \in Backfills : RunBackfill(b)
        \/ \E p \in Importers : ImportStore(p)
    BY <1>3 DEF Next, GmailChange, GmailDelete, LookupFails, WatchLapses, GmailForgets,
       RenewWatches, CronWatch,
       CronUpdateHistory, CronFails, Login, LoginStart, LoginWatch, LoginUpdateExpiry,
       LoginUpdateHistory, Import, ImportGet, StoreUnanswered, ImportFails, Webhook,
       Receive, SkipDelta, ListDelta, GetMessage, UpsertBatch, UpsertUnanswered,
       AdvanceHistory, HandlerThrows, HistoryExpired, HandlerKilled, ghostVars
  <2>2. ASSUME NEW l \in Logins, InitialSync(l) PROVE Accounted(m)'
    BY <1>3, <2>2, StartImportKnows DEF InitialSync
  <2>3. ASSUME NEW b \in Backfills, RunBackfill(b) PROVE Accounted(m)'
    BY <1>3, <2>3, StartImportKnows DEF RunBackfill
  <2>4. ASSUME NEW p \in Importers, ImportStore(p) PROVE Accounted(m)'
    BY <1>3, <2>4, ImportStoreKnows
  <2> QED
    BY <2>1, <2>2, <2>3, <2>4
<1> QED
  BY <1>1, <1>2, <1>3 DEF RowsKnown

LEMMA WithinHistoryStep ==
  ASSUME TypeOK, TypeOK', IInv, Next, MirrorStep
  PROVE  WithinHistory'
<1>1. \A m \in Msgs : row'[m] <= high'[m] /\ high'[m] <= last'[m] /\ last'[m] <= hid'
  BY DEF TypeOK, IInv, WithinHistory, MirrorStep
<1>2. ASSUME NEW m \in Msgs, GmailChange(m) \/ GmailDelete(m)
      PROVE  WithinHistory'
  <2>1. /\ hid' = hid + 1 /\ hid' <= MaxHist
        /\ pubsub' \subseteq pubsub \cup {hid'}
        /\ UNCHANGED <<historyId, cron>> /\ since' = since
    BY <1>2 DEF GmailChange, GmailDelete, Publish, TypeOK, dbVars, ghostVars
  <2>2. \A k \in inbox' : k \notin gone' /\ last'[k] > 0
    BY <1>2 DEF GmailChange, GmailDelete, TypeOK, IInv, WithinHistory
  <2>3. /\ historyId' <= hid' /\ since' <= hid'
        /\ \A n \in pubsub' : 0 < n /\ n <= hid'
        /\ (cron'.pc = "history" => 0 < cron'.hist /\ cron'.hist <= hid')
    BY <2>1 DEF TypeOK, IInv, WithinHistory
  <2> QED
    BY <1>1, <2>1, <2>2, <2>3 DEF WithinHistory
<1>3. CASE ~\E m \in Msgs : GmailChange(m) \/ GmailDelete(m)
  <2>0. UNCHANGED gmailVars
    BY <1>3 DEF Next, LookupFails, WatchLapses, GmailForgets, RenewWatches, CronWatch,
       CronUpdateHistory, CronFails, Login,
       LoginStart, LoginWatch, LoginUpdateExpiry, LoginUpdateHistory, InitialSync,
       RunBackfill, StartImport, Import, ImportGet, ImportStore, StoreUnanswered,
       ImportFails, Webhook, Receive, SkipDelta, ListDelta, GetMessage, UpsertBatch,
       UpsertUnanswered, AdvanceHistory, HandlerThrows, HistoryExpired, HandlerKilled
  <2>1. \A k \in inbox' : k \notin gone' /\ last'[k] > 0
    BY <2>0 DEF gmailVars, IInv, WithinHistory
  <2>2. \A n \in pubsub' : 0 < n /\ n <= hid'
    <3>1. pubsub' \subseteq pubsub \/ \E h \in Handlers : HandlerKilled(h)
      BY <1>3 DEF Next, LookupFails, WatchLapses, GmailForgets, RenewWatches,
         CronWatch, CronUpdateHistory, CronFails, Login, LoginStart, LoginWatch,
         LoginUpdateExpiry, LoginUpdateHistory, InitialSync, RunBackfill, StartImport,
         Import, ImportGet, ImportStore, StoreUnanswered, ImportFails, Webhook, Receive,
         SkipDelta, ListDelta, GetMessage, UpsertBatch, UpsertUnanswered, AdvanceHistory,
         HandlerThrows, HistoryExpired
    <3>2. ASSUME NEW h \in Handlers, HandlerKilled(h)
          PROVE  pubsub' = pubsub \cup {hook[h].new} /\ 0 < hook[h].new /\ hook[h].new <= hid
      BY <3>2 DEF HandlerKilled, IInv, HookKnows
    <3> QED
      BY <2>0, <3>1, <3>2 DEF gmailVars, IInv, WithinHistory
  <2>3. historyId' <= hid'
    <3>1. ASSUME NEW h \in Handlers, AdvanceHistory(h)
          PROVE  historyId' <= hid'
      BY <2>0, <3>1 DEF AdvanceHistory, IInv, HookKnows, gmailVars
    <3>2. historyId' = historyId => historyId' <= hid'
      BY <2>0 DEF gmailVars, IInv, WithinHistory
    <3> QED
      BY <1>3, <2>0, <3>1, <3>2, BlindSteps, UpsertSteps, QuietSteps
      DEF gmailVars, Next, Webhook, RenewWatches, Login, Import
  <2>4. cron'.pc = "history" => 0 < cron'.hist /\ cron'.hist <= hid'
    <3>1. \/ cron' = cron \/ cron' = CronIdle \/ cron' = [pc |-> "history", hist |-> hid]
      BY DEF Next, GmailChange, GmailDelete, LookupFails, WatchLapses, GmailForgets, RenewWatches,
         CronWatch, CronUpdateHistory, CronFails, Login, LoginStart, LoginWatch,
         LoginUpdateExpiry, LoginUpdateHistory, InitialSync, RunBackfill, StartImport,
         Import, ImportGet, ImportStore, StoreUnanswered, ImportFails, Webhook, Receive,
         SkipDelta, ListDelta, GetMessage, UpsertBatch, UpsertUnanswered, AdvanceHistory,
         HandlerThrows, HistoryExpired, HandlerKilled
    <3> QED
      BY <2>0, <3>1 DEF gmailVars, IInv, WithinHistory, CronIdle, TypeOK
  <2>5. hid' <= MaxHist /\ since' <= hid'
    BY <2>0 DEF gmailVars, IInv, WithinHistory, MirrorStep
  <2> QED
    BY <1>1, <2>1, <2>2, <2>3, <2>4, <2>5 DEF WithinHistory
<1> QED
  BY <1>2, <1>3

LEMMA BeforeStartStep ==
  ASSUME TypeOK, TypeOK', IInv, Next, MirrorStep
  PROVE  BeforeStart'
<1>1. CASE historyId # NoHistory
  BY <1>1 DEF MirrorStep, BeforeStart
<1>2. CASE historyId = NoHistory
  <2> USE <1>2
  <2>1. /\ since = 0 /\ jumped = {} /\ ~session /\ ~seeded
        /\ \A m \in Msgs : row[m] = 0
        /\ \A h \in Handlers : hook[h].pc \in {"idle", "skip"}
        /\ \A p \in Importers :
             /\ imp[p].pc \in {"idle", "watch", "expiry", "history"}
             /\ imp[p].pc \in {"watch", "expiry"} => imp[p].user = "new"
    BY DEF IInv, BeforeStart
  <2>2. hook \in [Handlers -> HookState] /\ imp \in [Importers -> ImpState]
    BY DEF TypeOK
  <2>3. CASE \/ \E h \in Handlers : SkipDelta(h)
             \/ CronUpdateHistory
             \/ \E l \in Logins : LoginUpdateHistory(l)
    BY <2>3, BlindSteps DEF BeforeStart, NoHistory
  <2>4. ASSUME NEW m \in Msgs, GmailChange(m) \/ GmailDelete(m)
        PROVE  BeforeStart'
    BY <2>1, <2>4 DEF GmailChange, GmailDelete, dbVars, ghostVars, BeforeStart
  <2>5. CASE \/ \E n \in pubsub : LookupFails(n)
            \/ WatchLapses \/ \E n \in 1..MaxHist : GmailForgets(n)
            \/ CronWatch \/ CronFails
    BY <2>1, <2>5 DEF LookupFails, WatchLapses, GmailForgets, CronWatch, CronFails, dbVars,
       ghostVars, BeforeStart
  <2>6. ASSUME NEW h \in Handlers,
               \/ \E n \in pubsub : Receive(h, n)
               \/ HistoryExpired(h) \/ HandlerThrows(h) \/ HandlerKilled(h)
        PROVE  BeforeStart'
    BY <2>1, <2>2, <2>6 DEF Receive, HandlerThrows, HistoryExpired, HandlerKilled, HookIdle,
       Invocation, dbVars, ghostVars, BeforeStart
  <2>7. ASSUME NEW l \in Logins, LoginStart(l) \/ LoginWatch(l) \/ LoginUpdateExpiry(l)
        PROVE  BeforeStart'
    BY <2>1, <2>2, <2>7 DEF LoginStart, LoginWatch, LoginUpdateExpiry, Call, dbVars, ghostVars,
       BeforeStart
  <2>8. ASSUME NEW p \in Importers, ImportFails(p)
        PROVE  BeforeStart'
    BY <2>1, <2>2, <2>8 DEF ImportFails, ImpIdle, Call, dbVars, ghostVars, BeforeStart
  <2>9. /\ \A h \in Handlers : hook[h].pc \notin {"list", "get", "upsert", "advance"}
        /\ \A p \in Importers : imp[p].pc \notin {"page", "fetch", "store"}
    BY <2>1
  <2>10. /\ \A h \in Handlers : ~ListDelta(h) /\ ~UpsertBatch(h) /\ ~UpsertUnanswered(h)
                                /\ ~AdvanceHistory(h) /\ \A m \in Msgs : ~GetMessage(h, m)
         /\ \A p \in Importers : ~ImportStore(p) /\ ~StoreUnanswered(p)
                                 /\ \A m \in Msgs : ~ImportGet(p, m)
         /\ \A l \in Logins : ~InitialSync(l)
         /\ \A b \in Backfills : ~RunBackfill(b)
    BY <2>1, <2>9 DEF ListDelta, UpsertBatch, UpsertUnanswered, AdvanceHistory, GetMessage,
       ImportStore, StoreUnanswered, ImportGet, InitialSync, RunBackfill
  <2> QED
    BY <2>3, <2>4, <2>5, <2>6, <2>7, <2>8, <2>10
    DEF Next, Webhook, RenewWatches, Login, Import
<1> QED
  BY <1>1, <1>2

LEMMA IInvStep ==
  ASSUME TypeOK, TypeOK', IInv, [Next]_vars
  PROVE  IInv'
<1>1. CASE Next
  <2>1. MirrorStep /\ CoveredUpTo(historyId)'
    BY <1>1, EveryStep
  <2>2. \A h \in Handlers : HookKnows(h)'
    BY <1>1, <2>1, HooksStep
  <2>3. \A p \in Importers : ImpKnows(p)'
    BY <1>1, <2>1, ImpsStep
  <2> QED
    BY <1>1, <2>1, <2>2, <2>3, WithinHistoryStep, BeforeStartStep, RowsStep DEF IInv
<1>2. CASE UNCHANGED vars
  BY <1>2 DEF vars, gmailVars, dbVars, ghostVars, IInv, WithinHistory, BeforeStart,
     CoveredUpTo, HookKnows, InHandIsCovered, ImpKnows, Accounted, RowsKnown
<1> QED
  BY <1>1, <1>2

(***************************************************************************)
(* 4. The invariant implies the properties                                 *)
(***************************************************************************)

LEMMA IInvImplies == TypeOK /\ IInv => CheckpointCovered /\ RowsCovered /\ InboxCovered
<1> SUFFICES ASSUME TypeOK, IInv PROVE CheckpointCovered /\ RowsCovered /\ InboxCovered
  OBVIOUS
<1>1. CheckpointCovered
  BY DEF IInv, CoveredUpTo, CheckpointCovered, BehindCheckpoint, Stored
<1>2. RowsCovered
  BY <1>1 DEF IInv, RowsKnown, CheckpointCovered, RowsCovered, BehindCheckpoint, Stored
<1>3. InboxCovered
  BY <1>1, <1>2 DEF IInv, RowsKnown, WithinHistory, Accounted, CheckpointCovered, RowsCovered,
     InboxCovered, TypeOK
<1> QED
  BY <1>1, <1>2, <1>3

(***************************************************************************)
(* 5. CheckpointedMirror is implemented                                    *)
(***************************************************************************)

LEMMA MirrorInit == Init => Mirror!Init
<1> SUFFICES ASSUME Init PROVE Mirror!Init
  OBVIOUS
<1> QED
  BY DEF Init, Mirror!Init, NoHistory

LEMMA MirrorNext ==
  ASSUME TypeOK, TypeOK', IInv, [Next]_vars
  PROVE  [Mirror!Next]_(Mirror!vars)
<1>1. ASSUME NEW m \in Msgs, GmailChange(m)
      PROVE  Mirror!Next
  <2>1. Mirror!Change(m)
    BY <1>1 DEF GmailChange, dbVars, Mirror!Change
  <2> QED
    BY <2>1 DEF Mirror!Next
<1>2. ASSUME NEW m \in Msgs, GmailDelete(m)
      PROVE  Mirror!Next
  <2>1. Mirror!Delete(m)
    BY <1>2 DEF GmailDelete, dbVars, ghostVars, Mirror!Delete
  <2> QED
    BY <2>1 DEF Mirror!Next
<1>3. ASSUME NEW c \in Nat, 0 < c, c <= hid, UpdateHistoryIdBlindly(c), UNCHANGED <<gmailVars, high>>
      PROVE  Mirror!Next
  <2>1. Mirror!Override(c)
    BY <1>3 DEF UpdateHistoryIdBlindly, SteppedOver, NoHistory, gmailVars, Mirror!Override
  <2>2. c \in 1..MaxHist
    BY <1>3 DEF IInv, WithinHistory, TypeOK
  <2> QED
    BY <2>1, <2>2 DEF Mirror!Next
<1>4. ASSUME NEW h \in Handlers, SkipDelta(h)
      PROVE  Mirror!Next
  <2>1. hook[h].new \in Nat /\ 0 < hook[h].new /\ hook[h].new <= hid
    BY <1>4 DEF SkipDelta, TypeOK, HookState, IInv, HookKnows
  <2> QED
    BY <1>3, <1>4, <2>1 DEF SkipDelta
<1>5. ASSUME CronUpdateHistory
      PROVE  Mirror!Next
  <2>1. cron.hist \in Nat /\ 0 < cron.hist /\ cron.hist <= hid
    BY <1>5 DEF CronUpdateHistory, TypeOK, IInv, WithinHistory
  <2> QED
    BY <1>3, <1>5, <2>1 DEF CronUpdateHistory
<1>6. ASSUME NEW l \in Logins, LoginUpdateHistory(l)
      PROVE  Mirror!Next
  <2>1. imp[l].hist \in Nat /\ 0 < imp[l].hist /\ imp[l].hist <= hid
    BY <1>6 DEF LoginUpdateHistory, TypeOK, ImpState, IInv, ImpKnows
  <2> QED
    BY <1>3, <1>6, <2>1 DEF LoginUpdateHistory
<1>7. ASSUME NEW h \in Handlers, AdvanceHistory(h)
      PROVE  Mirror!Next
  <2> DEFINE c == hook[h].new
  <2>1. c \in Nat /\ 0 < c /\ c <= hid /\ CoveredUpTo(c) /\ historyId # 0
    BY <1>7 DEF AdvanceHistory, TypeOK, HookState, IInv, HookKnows, BeforeStart, NoHistory
  <2>2. Mirror!Acknowledge(c)
    BY <1>7, <2>1 DEF AdvanceHistory, gmailVars, ghostVars, CoveredUpTo, Mirror!Acknowledge,
       Mirror!CoveredUpTo
  <2>3. c \in 1..MaxHist
    BY <2>1 DEF IInv, WithinHistory, TypeOK
  <2> QED
    BY <2>2, <2>3 DEF Mirror!Next
<1>8. CASE \/ \E h \in Handlers : UpsertBatch(h) \/ UpsertUnanswered(h)
           \/ \E p \in Importers : ImportStore(p) \/ StoreUnanswered(p)
  <2>1. UNCHANGED <<gmailVars, historyId, since, jumped>>
    BY <1>8 DEF UpsertBatch, UpsertUnanswered, ImportStore, StoreUnanswered
  <2>2. \A m \in Msgs : high[m] <= high'[m] /\ high'[m] <= last[m]
    BY <1>8, <2>1, UpsertSteps DEF MirrorStep, gmailVars
  <2>3. high' = [m \in Msgs |-> high'[m]]
    BY DEF TypeOK
  <2>4. Mirror!Store
    BY <2>1, <2>2, <2>3 DEF gmailVars, Mirror!Store
  <2> QED
    BY <2>4 DEF Mirror!Next
<1>9. ASSUME UNCHANGED <<gmailVars, historyId, high, since, jumped>>
      PROVE  UNCHANGED Mirror!vars
  BY <1>9 DEF gmailVars, Mirror!vars
<1>10. CASE UNCHANGED vars
  BY <1>9, <1>10 DEF vars, dbVars, ghostVars
<1>11. CASE \/ \E n \in pubsub : LookupFails(n)
            \/ WatchLapses \/ \E n \in 1..MaxHist : GmailForgets(n)
            \/ \E h \in Handlers :
                 \/ \E n \in pubsub : Receive(h, n)
                 \/ ListDelta(h) \/ \E m \in Msgs : GetMessage(h, m)
                 \/ HistoryExpired(h) \/ HandlerThrows(h) \/ HandlerKilled(h)
            \/ CronWatch \/ CronFails
            \/ \E l \in Logins :
                 LoginStart(l) \/ LoginWatch(l) \/ LoginUpdateExpiry(l) \/ InitialSync(l)
            \/ \E b \in Backfills : RunBackfill(b)
            \/ \E p \in Importers : (\E m \in Msgs : ImportGet(p, m)) \/ ImportFails(p)
  <2>1. UNCHANGED <<gmailVars, historyId, high, since, jumped>>
    BY <1>11 DEF LookupFails, WatchLapses, GmailForgets, Receive, ListDelta, GetMessage,
       HandlerThrows, HistoryExpired, HandlerKilled,
     CronWatch, CronFails, LoginStart, LoginWatch, LoginUpdateExpiry, InitialSync,
     RunBackfill, StartImport, ImportGet, ImportFails, dbVars, ghostVars
  <2> QED
    BY <1>9, <2>1
<1> QED
  BY <1>1, <1>2, <1>4, <1>5, <1>6, <1>7, <1>8, <1>10, <1>11
  DEF Next, Webhook, RenewWatches, Login, Import

\* IInv holds throughout: what the processes remember between two steps stays
\* true of mailbox, rows and checkpoint, however the steps interleave.
THEOREM Inductive == Spec => []IInv
<1>1. Init => IInv
  BY InitIInv
<1>2. TypeOK /\ TypeOK' /\ IInv /\ [Next]_vars => IInv'
  BY IInvStep
<1> QED
  BY <1>1, <1>2, TypeCorrect, PTL DEF Spec

\* For every number of messages, handlers, logins and backfills: no change
\* between the first checkpoint and the current one is missing from the rows,
\* unless a writer that fetched nothing stepped over it (processGmailNotification).
THEOREM CheckpointSafe == Spec => []CheckpointCovered
  BY IInvImplies, TypeCorrect, Inductive, PTL

\* The imports of runInitialSync and runBackfill, interleaved with the webhook in
\* any way, leave no row stale behind the checkpoint.
THEOREM RowsSafe == Spec => []RowsCovered
  BY IInvImplies, TypeCorrect, Inductive, PTL

\* exchangeCode's order (watch, checkpoint, listing) leaves no message of the
\* inbox out of both the rows and the next delta.
THEOREM InboxSafe == Spec => []InboxCovered
  BY IInvImplies, TypeCorrect, Inductive, PTL

\* The account's writers implement CheckpointedMirror: behaviours of GmailSync are
\* behaviours of the abstract mirror.
THEOREM MirrorImplemented == Spec => ImplementsMirror /\ Mirror!Spec
<1>1. TypeOK /\ TypeOK' /\ IInv /\ [Next]_vars => [Mirror!Next]_(Mirror!vars)
  BY MirrorNext
<1> QED
  BY <1>1, MirrorInit, TypeCorrect, Inductive, PTL DEF Spec, ImplementsMirror, Mirror!Spec

=============================================================================
