----------------------------- MODULE GmailSync -----------------------------
(***************************************************************************)
(* One VibeMail account: the Gmail mailbox, the Pub/Sub notifications it   *)
(* publishes, and every server-side writer that copies it into the         *)
(* messages table or moves users.history_id:                               *)
(*   - the push webhook          src/src/webhook/gmail.ts                  *)
(*   - the daily watch renewal   src/src/cron/renewWatch.ts                *)
(*   - the OAuth login           src/src/providers/gmail/auth.ts           *)
(*   - initial sync and backfill src/src/sync/index.ts                     *)
(* Rows are keyed by gmail_id and belong to one user, so accounts do not   *)
(* interact and one is enough.                                             *)
(*                                                                         *)
(* Gmail numbers every change of a mailbox with an increasing history id.  *)
(* The content of a message is abstracted to the history id of the change  *)
(* that produced it, its version: two reads of a message return the same   *)
(* content exactly when the versions agree.                                *)
(***************************************************************************)
EXTENDS Naturals, FiniteSets

CONSTANTS
  Msgs,         \* Gmail message ids
  Handlers,     \* webhook invocations that may run at the same time
  Logins,       \* OAuth callbacks that may run at the same time
  Backfills,    \* backfill requests that may run at the same time
  None,         \* "no message in hand"
  SeedCap,      \* MAX_INITIAL_SYNC: messages the initial sync imports
  BatchCap,     \* BACKFILL_BATCH: messages one backfill call imports
  MaxHist,      \* bound: the mailbox changes until its history id is MaxHist
  MayThrow      \* whether handler steps may fail in this instance

Importers == Logins \cup Backfills

ASSUME ConstantsAssumption ==
  /\ IsFiniteSet(Msgs)
  /\ Logins \cap Backfills = {}
  /\ None \notin Msgs
  /\ SeedCap \in Nat /\ BatchCap \in Nat
  /\ MaxHist \in Nat \ {0}
  /\ MayThrow \in BOOLEAN

NoHistory == 0     \* users.history_id IS NULL; Gmail's ids are positive

VARIABLES
  \* Gmail
  hid,          \* the mailbox's current history id
  last,         \* last[m]: version of m, 0 before it arrives
  gone,         \* messages deleted permanently
  inbox,        \* messages that carry the INBOX label
  watched,      \* a push watch is active
  forgotten,    \* Gmail keeps no record of the changes up to this one
  pubsub,       \* history ids of the notifications not yet acknowledged
  \* Supabase
  historyId,    \* users.history_id
  watchExpiry,  \* users.watch_expiry IS NOT NULL
  row,          \* row[m]: version stored in messages, 0 for no row
  \* processes
  hook,         \* hook[h]: state of a webhook invocation
  imp,          \* imp[p]: state of a login or a backfill
  cron,         \* state of the watch-renewal job
  session,      \* some login has returned, so the client holds a JWT
  \* history variables: they record what happened and guard nothing
  high,         \* high[m]: newest version of m ever stored
  since,        \* the first checkpoint ever stored
  jumped,       \* messages whose newest change a blind write stepped over
  seeded        \* an initial sync has run to its end

gmailVars == <<hid, last, gone, inbox>>
dbVars    == <<historyId, watchExpiry, row>>
ghostVars == <<high, since, jumped, seeded>>
vars == <<gmailVars, watched, forgotten, pubsub, dbVars, hook, imp, cron, session,
          ghostVars>>

NoBatch == [m \in Msgs |-> 0]

\* A webhook invocation: the notification's id, the checkpoint read, the ids
\* still to fetch and the messages fetched.
Invocation(pc, new, start, todo, batch) ==
  [pc |-> pc, new |-> new, start |-> start, todo |-> todo, batch |-> batch]

HookIdle == Invocation("idle", 0, 0, {}, NoBatch)

ReadyToAdvance(new) == Invocation("advance", new, 0, {}, NoBatch)

\* A login or a backfill: whether the user is new (isNewUser), the history id the
\* watch returned, the ids still to fetch, the message in hand and its version.
Call(pc, user, hist, todo, got, ver) ==
  [pc |-> pc, user |-> user, hist |-> hist, todo |-> todo, got |-> got,
   ver |-> ver]

ImpIdle == Call("idle", "known", 0, {}, None, 0)

Importing(pc, todo, got, ver) == Call(pc, "known", 0, todo, got, ver)

CronIdle == [pc |-> "idle", hist |-> 0]     \* hist: the id the watch returned

Init ==
  /\ hid = 1
  /\ last \in [Msgs -> 0..1]
  /\ gone = {}
  /\ inbox \in SUBSET {m \in Msgs : last[m] = 1}
  /\ watched = FALSE
  /\ forgotten = 0
  /\ pubsub = {}
  /\ historyId = NoHistory
  /\ watchExpiry = FALSE
  /\ row = [m \in Msgs |-> 0]
  /\ hook = [h \in Handlers |-> HookIdle]
  /\ imp = [p \in Importers |-> ImpIdle]
  /\ cron = CronIdle
  /\ session = FALSE
  /\ high = [m \in Msgs |-> 0]
  /\ since = 0
  /\ jumped = {}
  /\ seeded = FALSE

(***************************************************************************)
(* Gmail and Pub/Sub, as the code relies on them.                          *)
(***************************************************************************)

\* A change is published while a watch is active, or the notification is lost.
Publish(n) == pubsub' \in {pubsub, IF watched THEN pubsub \cup {n} ELSE pubsub}

\* A message arrives or its labels change; it is in INBOX afterwards or not.
GmailChange(m) ==
  /\ hid < MaxHist /\ m \notin gone
  /\ hid' = hid + 1
  /\ last' = [last EXCEPT ![m] = hid + 1]
  /\ inbox' \in {inbox \cup {m}, inbox \ {m}}
  /\ Publish(hid + 1)
  /\ jumped' = jumped \ {m}
  /\ UNCHANGED <<gone, watched, forgotten, dbVars, hook, imp, cron, session,
                 high, since, seeded>>

\* A message is deleted for good. Its messageDeleted record is not among the
\* historyTypes the webhook asks for, so last[m] stays as it is.
GmailDelete(m) ==
  /\ hid < MaxHist /\ m \notin gone /\ last[m] > 0
  /\ hid' = hid + 1
  /\ gone' = gone \cup {m}
  /\ inbox' = inbox \ {m}
  /\ Publish(hid + 1)
  /\ UNCHANGED <<last, watched, forgotten, dbVars, hook, imp, cron, session,
                 ghostVars>>

\* A watch lapses after seven days unless it is renewed: not in the seconds the
\* renewal takes.
WatchLapses ==
  /\ watched /\ cron.pc = "idle"
  /\ watched' = FALSE
  /\ UNCHANGED <<gmailVars, forgotten, pubsub, dbVars, hook, imp, cron,
                 session, ghostVars>>

\* Old history records expire.
GmailForgets(n) ==
  /\ forgotten < n /\ n <= hid
  /\ forgotten' = n
  /\ UNCHANGED <<gmailVars, watched, pubsub, dbVars, hook, imp, cron,
                 session, ghostVars>>

(***************************************************************************)
(* Writes of users.history_id. updateHistoryId overwrites the column with  *)
(* no comparison. A writer that has not fetched the delta up to new steps  *)
(* over every change between the old and the new value that nobody has     *)
(* stored: jumped records them.                                            *)
(***************************************************************************)

SteppedOver(new) ==
  {m \in Msgs : /\ historyId # NoHistory
                /\ historyId < last[m] /\ last[m] <= new
                /\ high[m] # last[m]}

UpdateHistoryIdBlindly(new) ==
  /\ historyId' = new
  /\ since' = IF historyId = NoHistory THEN new ELSE since
  /\ jumped' = jumped \cup SteppedOver(new)

(***************************************************************************)
(* upsert ... onConflict gmail_id: the rows take the values in hand,       *)
(* whatever they held. got[m] = 0 means m is not in the batch.             *)
(***************************************************************************)
Upserted(got) == [m \in Msgs |-> IF got[m] = 0 THEN row[m] ELSE got[m]]

Newest(got) == [m \in Msgs |-> IF got[m] > high[m] THEN got[m] ELSE high[m]]

UpsertMessages(got) ==
  /\ row' = Upserted(got)
  /\ high' = Newest(got)

(***************************************************************************)
(* The webhook: processGmailNotification under api/webhook/gmail.ts.       *)
(***************************************************************************)

\* A delivery starts: getUserByEmail reads history_id. Pub/Sub delivers at
\* least once and in any order, so the notification may be delivered again.
Receive(h, n) ==
  /\ hook[h].pc = "idle" /\ n \in pubsub
  /\ pubsub' \in {pubsub, pubsub \ {n}}
  /\ hook' = [hook EXCEPT ![h] =
       Invocation(IF historyId = NoHistory THEN "skip" ELSE "list",
                  n, historyId, {}, NoBatch)]
  /\ UNCHANGED <<gmailVars, watched, forgotten, dbVars, imp, cron, session,
                 ghostVars>>

\* No stored history_id: the delta is skipped, the notification's id stored.
SkipDelta(h) ==
  /\ hook[h].pc = "skip"
  /\ UpdateHistoryIdBlindly(hook[h].new)
  /\ hook' = [hook EXCEPT ![h] = HookIdle]
  /\ UNCHANGED <<gmailVars, watched, forgotten, pubsub, watchExpiry, row,
                 imp, cron, session, high, seeded>>

\* Mutant: the change right after the checkpoint is taken as already seen.
DeltaMessageIds_SkipsFirst(start) == {m \in Msgs : last[m] > start + 1}

\* Mutant: a history record without a message id is not filtered out.
DeltaMessageIds_Unfiltered(start) == {m \in Msgs : last[m] > start} \cup {None}

\* collectDeltaMessageIds: every message with a messageAdded, labelAdded or
\* labelRemoved record later than startHistoryId, deleted ones included.
DeltaMessageIds(start) == {m \in Msgs : last[m] > start}

ListDelta(h) ==
  /\ hook[h].pc = "list" /\ forgotten <= hook[h].start
  /\ LET ids == DeltaMessageIds(hook[h].start)
     IN  hook' = [hook EXCEPT ![h] =
           IF ids = {} THEN ReadyToAdvance(hook[h].new)
           ELSE Invocation("get", hook[h].new, hook[h].start, ids, NoBatch)]
  /\ UNCHANGED <<gmailVars, watched, forgotten, pubsub, dbVars, imp, cron,
                 session, ghostVars>>

\* history.list answers 404 when records after startHistoryId have expired. This
\* 404 is not caught: the invocation ends as in HandlerThrows.
HistoryExpired(h) ==
  /\ hook[h].pc = "list" /\ hook[h].start < forgotten
  /\ hook' = [hook EXCEPT ![h] = HookIdle]
  /\ UNCHANGED <<gmailVars, watched, forgotten, pubsub, dbVars, imp, cron,
                 session, ghostVars>>

\* The loop goes on while ids are left; then the batch, unless it is empty, is
\* upserted.
AfterGet(new, start, todo, batch) ==
  IF todo = {} /\ batch = NoBatch THEN ReadyToAdvance(new)
  ELSE Invocation(IF todo = {} THEN "upsert" ELSE "get", new, start, todo, batch)

\* Mutant: a 404 ends the loop instead of skipping the message.
GetMessage_StopsAt404(h, m) ==
  /\ hook[h].pc = "get" /\ m \in hook[h].todo
  /\ hook' = [hook EXCEPT ![h] =
       IF m \in gone
       THEN AfterGet(@.new, @.start, {}, @.batch)
       ELSE AfterGet(@.new, @.start, @.todo \ {m}, [@.batch EXCEPT ![m] = last[m]])]
  /\ UNCHANGED <<gmailVars, watched, forgotten, pubsub, dbVars, imp, cron,
                 session, ghostVars>>

\* messages.get of one listed message; a 404 skips it.
GetMessage(h, m) ==
  /\ hook[h].pc = "get" /\ m \in hook[h].todo
  /\ LET todo  == hook[h].todo \ {m}
         batch == IF m \in gone THEN hook[h].batch
                  ELSE [hook[h].batch EXCEPT ![m] = last[m]]
     IN  hook' = [hook EXCEPT ![h] =
                    AfterGet(hook[h].new, hook[h].start, todo, batch)]
  /\ UNCHANGED <<gmailVars, watched, forgotten, pubsub, dbVars, imp, cron,
                 session, ghostVars>>

\* upsertMessages: one statement writes the whole batch. ingestChangedMessages
\* follows it; its failure is HandlerThrows before AdvanceHistory.
UpsertBatch(h) ==
  /\ hook[h].pc = "upsert"
  /\ UpsertMessages(hook[h].batch)
  /\ hook' = [hook EXCEPT ![h] = ReadyToAdvance(hook[h].new)]
  /\ UNCHANGED <<gmailVars, watched, forgotten, pubsub, historyId,
                 watchExpiry, imp, cron, session, since, jumped, seeded>>

\* withWriteRetry: the connection drops after the write was applied, and the
\* same rows will be sent again. (Attempts that change nothing leave no trace,
\* so their limit of RETRY_ATTEMPTS is not counted.)
UpsertUnanswered(h) ==
  /\ hook[h].pc = "upsert"
  /\ UpsertMessages(hook[h].batch)
  /\ UNCHANGED <<gmailVars, watched, forgotten, pubsub, historyId,
                 watchExpiry, hook, imp, cron, session, since, jumped, seeded>>

\* Mutant: the checkpoint becomes the mailbox's id at the end of the run.
AdvanceHistory_ToMailbox(h) ==
  /\ hook[h].pc = "advance"
  /\ historyId' = hid
  /\ hook' = [hook EXCEPT ![h] = HookIdle]
  /\ UNCHANGED <<gmailVars, watched, forgotten, pubsub, watchExpiry, row,
                 imp, cron, session, ghostVars>>

\* The checkpoint becomes the notification's id, not the mailbox's.
AdvanceHistory(h) ==
  /\ hook[h].pc = "advance"
  /\ historyId' = hook[h].new
  /\ hook' = [hook EXCEPT ![h] = HookIdle]
  /\ UNCHANGED <<gmailVars, watched, forgotten, pubsub, watchExpiry, row,
                 imp, cron, session, ghostVars>>

\* Any call throws. The entry point catches, logs and answers 200, so the
\* notification counts as delivered and nothing is advanced.
HandlerThrows(h) ==
  /\ MayThrow
  /\ hook[h].pc # "idle"
  /\ hook' = [hook EXCEPT ![h] = HookIdle]
  /\ UNCHANGED <<gmailVars, watched, forgotten, pubsub, dbVars, imp, cron,
                 session, ghostVars>>

\* getUserByEmail maps a database error to "no user": the handler returns and
\* the delivery is acknowledged without having done anything.
LookupFails(n) ==
  /\ MayThrow
  /\ n \in pubsub
  /\ pubsub' = pubsub \ {n}
  /\ UNCHANGED <<gmailVars, watched, forgotten, dbVars, hook, imp, cron,
                 session, ghostVars>>

\* The function is killed before it answers: Pub/Sub delivers again.
HandlerKilled(h) ==
  /\ hook[h].pc # "idle"
  /\ pubsub' = pubsub \cup {hook[h].new}
  /\ hook' = [hook EXCEPT ![h] = HookIdle]
  /\ UNCHANGED <<gmailVars, watched, forgotten, dbVars, imp, cron, session,
                 ghostVars>>

(***************************************************************************)
(* The watch renewal cron. Which users are due is a matter of wall-clock   *)
(* time; here the job may pick the user whenever watch_expiry is set.      *)
(***************************************************************************)

\* users.watch, then updateWatchExpiry, which only moves a date already set.
CronWatch ==
  /\ cron.pc = "idle" /\ watchExpiry
  /\ watched' = TRUE
  /\ cron' = [pc |-> "history", hist |-> hid]
  /\ UNCHANGED <<gmailVars, forgotten, pubsub, dbVars, hook, imp, session,
                 ghostVars>>

\* Mutant: as setupWatch does for returning users, a stored checkpoint is kept.
CronUpdateHistory_Keeps ==
  /\ cron.pc = "history"
  /\ cron' = CronIdle
  /\ UNCHANGED <<gmailVars, watched, forgotten, pubsub, dbVars, hook, imp,
                 session, ghostVars>>

CronUpdateHistory ==
  /\ cron.pc = "history"
  /\ UpdateHistoryIdBlindly(cron.hist)
  /\ cron' = CronIdle
  /\ UNCHANGED <<gmailVars, watched, forgotten, pubsub, watchExpiry, row,
                 hook, imp, session, high, seeded>>

\* One user's failure is counted and the job goes on with the next user.
CronFails ==
  /\ cron.pc # "idle"
  /\ cron' = CronIdle
  /\ UNCHANGED <<gmailVars, watched, forgotten, pubsub, dbVars, hook, imp,
                 session, ghostVars>>

(***************************************************************************)
(* The OAuth login: exchangeCode.                                          *)
(***************************************************************************)

\* persistTokens, then getUser: a user without a checkpoint is a new user.
LoginStart(l) ==
  /\ imp[l].pc = "idle"
  /\ imp' = [imp EXCEPT ![l] =
       Call("watch", IF historyId = NoHistory THEN "new" ELSE "known", 0, {}, None, 0)]
  /\ UNCHANGED <<gmailVars, watched, forgotten, pubsub, dbVars, hook, cron,
                 session, ghostVars>>

\* setupWatch, its three calls.
LoginWatch(l) ==
  /\ imp[l].pc = "watch"
  /\ watched' = TRUE
  /\ imp' = [imp EXCEPT ![l] = Call("expiry", imp[l].user, hid, {}, None, 0)]
  /\ UNCHANGED <<gmailVars, forgotten, pubsub, dbVars, hook, cron, session,
                 ghostVars>>

LoginUpdateExpiry(l) ==
  /\ imp[l].pc = "expiry"
  /\ watchExpiry' = TRUE
  /\ IF imp[l].user = "new"
     THEN /\ imp' = [imp EXCEPT ![l] =
               Call("history", "new", imp[l].hist, {}, None, 0)]
          /\ UNCHANGED session
     ELSE imp' = [imp EXCEPT ![l] = ImpIdle] /\ session' = TRUE
  /\ UNCHANGED <<gmailVars, watched, forgotten, pubsub, historyId, row, hook,
                 cron, ghostVars>>

LoginUpdateHistory(l) ==
  /\ imp[l].pc = "history"
  /\ UpdateHistoryIdBlindly(imp[l].hist)
  /\ imp' = [imp EXCEPT ![l] = Importing("page", {}, None, 0)]
  /\ UNCHANGED <<gmailVars, watched, forgotten, pubsub, watchExpiry, row,
                 hook, cron, session, high, seeded>>

(***************************************************************************)
(* Importing INBOX messages one by one: the loop of runInitialSync and of  *)
(* runBackfill. The pages of one call are one listing here; a cap smaller  *)
(* than the inbox leaves out the older messages.                           *)
(***************************************************************************)

\* Mutant: the loop over the pages stops one message short of its cap.
InboxPage_OneShort(cap) ==
  {s \in SUBSET inbox : /\ Cardinality(s) < cap
                        /\ Cardinality(s) = cap - 1 \/ s = inbox}

InboxPage(cap) ==
  {s \in SUBSET inbox : /\ Cardinality(s) <= cap
                        /\ Cardinality(s) = cap \/ s = inbox}

\* The whole call is over: a login returns to the user, a backfill its cursor.
ImportDone(p) ==
  /\ imp' = [imp EXCEPT ![p] = ImpIdle]
  /\ session' = (session \/ p \in Logins)
  /\ seeded' = (seeded \/ p \in Logins)

StartImport(p, cap) ==
  \E page \in InboxPage(cap) :
    /\ IF page = {} THEN ImportDone(p)
       ELSE /\ imp' = [imp EXCEPT ![p] = Importing("fetch", page, None, 0)]
            /\ UNCHANGED <<session, seeded>>
    /\ UNCHANGED <<gmailVars, watched, forgotten, pubsub, dbVars, hook, cron,
                   high, since, jumped>>

InitialSync(l) == imp[l].pc = "page" /\ StartImport(l, SeedCap)

\* Backfill needs the JWT a login returns.
RunBackfill(b) == imp[b].pc = "idle" /\ session /\ StartImport(b, BatchCap)

\* messages.get; a 404 is not skipped here, the call fails (ImportFails).
ImportGet(p, m) ==
  /\ imp[p].pc = "fetch" /\ m \in imp[p].todo \ gone
  /\ imp' = [imp EXCEPT ![p] =
       Importing("store", imp[p].todo \ {m}, m, last[m])]
  /\ UNCHANGED <<gmailVars, watched, forgotten, pubsub, dbVars, hook, cron,
                 session, ghostVars>>

InHand(p) == [NoBatch EXCEPT ![imp[p].got] = imp[p].ver]

\* upsertMessage and ingestChangedMessages of the message in hand.
ImportStore(p) ==
  /\ imp[p].pc = "store"
  /\ UpsertMessages(InHand(p))
  /\ IF imp[p].todo = {} THEN ImportDone(p)
     ELSE /\ imp' = [imp EXCEPT ![p] = Importing("fetch", imp[p].todo, None, 0)]
          /\ UNCHANGED <<session, seeded>>
  /\ UNCHANGED <<gmailVars, watched, forgotten, pubsub, historyId,
                 watchExpiry, hook, cron, since, jumped>>

\* withWriteRetry around upsertMessage, as in UpsertUnanswered.
StoreUnanswered(p) ==
  /\ imp[p].pc = "store"
  /\ UpsertMessages(InHand(p))
  /\ UNCHANGED <<gmailVars, watched, forgotten, pubsub, historyId,
                 watchExpiry, hook, imp, cron, session, since, jumped, seeded>>

\* Any call of a login or a backfill throws, or its function is killed. (After
\* the upsert, by a failed embedding: StoreUnanswered comes before it.)
ImportFails(p) ==
  /\ imp[p].pc # "idle"
  /\ imp' = [imp EXCEPT ![p] = ImpIdle]
  /\ UNCHANGED <<gmailVars, watched, forgotten, pubsub, dbVars, hook, cron,
                 session, ghostVars>>

Webhook(h) ==
  \/ \E n \in pubsub : Receive(h, n)
  \/ SkipDelta(h)
  \/ ListDelta(h)
  \/ HistoryExpired(h)
  \/ \E m \in Msgs : GetMessage(h, m)
  \/ UpsertBatch(h)
  \/ UpsertUnanswered(h)
  \/ AdvanceHistory(h)
  \/ HandlerThrows(h)
  \/ HandlerKilled(h)

RenewWatches ==
  \/ CronWatch \/ CronUpdateHistory \/ CronFails

Login(l) ==
  \/ LoginStart(l) \/ LoginWatch(l) \/ LoginUpdateExpiry(l)
  \/ LoginUpdateHistory(l) \/ InitialSync(l)

Import(p) ==
  \/ \E m \in Msgs : ImportGet(p, m)
  \/ ImportStore(p) \/ StoreUnanswered(p) \/ ImportFails(p)

Next ==
  \/ \E m \in Msgs : GmailChange(m)
  \/ \E m \in Msgs : GmailDelete(m)
  \/ WatchLapses
  \/ \E n \in 1..MaxHist : GmailForgets(n)
  \/ \E n \in pubsub : LookupFails(n)
  \/ \E h \in Handlers : Webhook(h)
  \/ RenewWatches
  \/ \E l \in Logins : Login(l)
  \/ \E b \in Backfills : RunBackfill(b)
  \/ \E p \in Importers : Import(p)

Spec == Init /\ [][Next]_vars

(***************************************************************************)
(* Fairness. The user and the mailbox owe nothing. Pub/Sub keeps pushing a *)
(* notification until it is acknowledged (strong fairness: a handler is    *)
(* free again and again), and a started invocation runs on unless it is    *)
(* killed.                                                                 *)
(***************************************************************************)
HandlerSteps(h) ==
  \/ SkipDelta(h) \/ ListDelta(h) \/ HistoryExpired(h)
  \/ (\E m \in Msgs : GetMessage(h, m)) \/ UpsertBatch(h) \/ AdvanceHistory(h)

Fairness ==
  \A h \in Handlers :
    /\ WF_vars(HandlerSteps(h))
    /\ \A n \in 1..MaxHist : SF_vars(Receive(h, n))

FairSpec == Spec /\ Fairness

(***************************************************************************)
(* Properties                                                              *)
(***************************************************************************)

HookState ==
  [pc : {"idle", "skip", "list", "get", "upsert", "advance"},
   new : Nat, start : Nat, todo : SUBSET Msgs, batch : [Msgs -> Nat]]

ImpState ==
  [pc : {"idle", "watch", "expiry", "history", "page", "fetch", "store"},
   user : {"new", "known"}, hist : Nat, todo : SUBSET Msgs, got : Msgs \cup {None},
   ver : Nat]

\* Type invariant of the account's state and of every process.
TypeOK ==
  /\ hid \in Nat \ {0} /\ last \in [Msgs -> Nat]
  /\ gone \subseteq Msgs /\ inbox \subseteq Msgs
  /\ watched \in BOOLEAN /\ forgotten \in Nat /\ pubsub \subseteq Nat
  /\ historyId \in Nat /\ watchExpiry \in BOOLEAN /\ row \in [Msgs -> Nat]
  /\ hook \in [Handlers -> HookState]
  /\ imp \in [Importers -> ImpState]
  /\ cron \in [pc : {"idle", "history"}, hist : Nat]
  /\ session \in BOOLEAN
  /\ high \in [Msgs -> Nat] /\ since \in Nat
  /\ jumped \subseteq Msgs /\ seeded \in BOOLEAN

\* The message's newest change has been stored at some time. (Whether the row
\* still holds it is RowsCurrent.)
Stored(m) == high[m] = last[m]

\* The next delta will not list the message any more.
BehindCheckpoint(m) == last[m] <= historyId

\* No change is lost behind the checkpoint: whatever changed since the first
\* checkpoint and is not listed by the next delta has been stored, unless a
\* writer that fetched nothing stepped over it. Holds with overlapping, failing,
\* killed, repeated and reordered deliveries (processGmailNotification).
CheckpointCovered ==
  \A m \in Msgs \ gone :
    since < last[m] /\ BehindCheckpoint(m) /\ m \notin jumped => Stored(m)

\* The same for every message that has a row, however old: the imports of
\* runInitialSync and runBackfill, which run beside the webhook and leave the
\* checkpoint alone, open no gap between the row they wrote and the delta.
RowsCovered ==
  \A m \in Msgs \ gone :
    row[m] > 0 /\ BehindCheckpoint(m) /\ m \notin jumped => Stored(m)

\* Registering the watch before listing the inbox leaves no gap: after a
\* completed initial sync that was not cut off by its cap, every INBOX message
\* is stored or is listed by the next delta (exchangeCode's order of calls).
InboxCovered ==
  seeded /\ Cardinality(Msgs) <= SeedCap =>
    \A m \in inbox : BehindCheckpoint(m) /\ m \notin jumped => Stored(m)

\* A notification that names a version of m at least v is waiting.
Announced(m, v) == last[m] >= v /\ v > 0 /\ \E n \in pubsub : n >= v

KillsStop == <>[][\A h \in Handlers : ~HandlerKilled(h)]_vars

\* Liveness of the delta path: a change announced while some checkpoint is
\* stored reaches the mirror (or a later version does), provided invocations are
\* not killed for ever and no call throws; renewal, deletion and history that
\* Gmail has dropped excepted.
AnnouncedIsMirrored ==
  KillsStop =>
    \A m \in Msgs : \A v \in 2..MaxHist :
      Announced(m, v) ~>
        high[m] >= v \/ m \in gone \/ m \in jumped \/ since >= v
        \/ forgotten > 0

\* The job runs every day, and some renewal of the user succeeds in the end.
RenewalGoesOn == WF_vars(CronWatch) /\ SF_vars(CronUpdateHistory)

\* A user who has logged in is never left for good without a watch or with a
\* checkpoint that Gmail answers with 404: a failed renewal is repeated, and a
\* renewal replaces the checkpoint (renewExpiringWatches, exchangeCode).
RenewalRecovers ==
  RenewalGoesOn => (session ~> watched /\ forgotten <= historyId)

\* The account's writers together implement the abstract mirror: whatever they
\* do to rows and checkpoint is a change, a store, an acknowledgement of stored
\* changes or an override on record.
Mirror == INSTANCE CheckpointedMirror WITH
  Item <- Msgs, MaxClock <- MaxHist, clock <- hid, latest <- last,
  deleted <- gone, stored <- high, checkpoint <- historyId, base <- since,
  skipped <- jumped

\* Every step is a step of CheckpointedMirror or leaves its state alone.
ImplementsMirror == [][Mirror!Next]_(Mirror!vars)

\* README: the mechanisms "together keep Supabase a faithful mirror"; setupWatch
\* keeps a stored history_id so that the webhook can catch up from it. The
\* renewal job should therefore never step over changes nobody has fetched.
NoChangeSteppedOver == jumped = {}

\* exchangeCode: "For returning users the existing DB rows are already
\* populated": once any login has returned, the initial sync has completed.
ReturningUserIsSeeded == session => seeded

\* upsertMessage: "On conflict the row is updated with the latest field values":
\* a row whose message the next delta will not list holds the newest version,
\* also when two writers had the message in hand at the same time.
RowsCurrent ==
  \A m \in Msgs \ gone :
    row[m] > 0 /\ BehindCheckpoint(m) /\ m \notin jumped => row[m] = last[m]

(***************************************************************************)
(* The inductive invariant behind CheckpointCovered, RowsCovered,          *)
(* InboxCovered and ImplementsMirror. What the properties leave out is     *)
(* what a process knows between its steps.                                 *)
(***************************************************************************)

\* Versions and history ids never run ahead of the mailbox.
WithinHistory ==
  /\ hid <= MaxHist
  /\ \A m \in Msgs : row[m] <= high[m] /\ high[m] <= last[m] /\ last[m] <= hid
  /\ historyId <= hid /\ since <= hid
  /\ \A n \in pubsub : 0 < n /\ n <= hid
  /\ \A m \in inbox : m \notin gone /\ last[m] > 0
  /\ cron.pc = "history" => 0 < cron.hist /\ cron.hist <= hid

\* Before a checkpoint is stored nothing is imported and nobody is logged in.
BeforeStart ==
  historyId = NoHistory =>
    /\ since = 0 /\ jumped = {} /\ ~session /\ ~seeded
    /\ \A m \in Msgs : row[m] = 0
    /\ \A h \in Handlers : hook[h].pc \in {"idle", "skip"}
    /\ \A p \in Importers :
         /\ imp[p].pc \in {"idle", "watch", "expiry", "history"}
         /\ imp[p].pc \in {"watch", "expiry"} => imp[p].user = "new"

\* Every change between the first checkpoint and c is stored or on record.
CoveredUpTo(c) ==
  \A m \in Msgs \ gone :
    since < last[m] /\ last[m] <= c /\ m \notin jumped => high[m] = last[m]

\* A version in hand that is not the newest was superseded after the first
\* checkpoint, so the delta lists the message again.
InHandIsCovered(m, v) == v <= last[m] /\ (0 < v /\ v < last[m] => since < last[m])

\* A handler started from a covered checkpoint; until it has read a change up to
\* its notification it still has the message on its list.
HookKnows(h) ==
  LET i == hook[h] IN
    /\ i.pc # "idle" => 0 < i.new /\ i.new <= hid
    /\ i.pc \in {"list", "get", "upsert"} =>
         0 < i.start /\ i.start <= hid /\ CoveredUpTo(i.start)
    /\ i.pc \in {"get", "upsert"} =>
         \A m \in Msgs \ gone :
           i.start < last[m] /\ last[m] <= i.new =>
             m \in i.todo \/ i.batch[m] = last[m]
    /\ i.pc \in {"get", "upsert"} =>
         \A m \in Msgs : InHandIsCovered(m, i.batch[m])
    /\ i.pc = "upsert" => i.todo = {}
    /\ i.pc = "advance" => CoveredUpTo(i.new)

\* m will be stored by login p, has a row, or is listed by the delta.
Accounted(m) == row[m] > 0 \/ since < last[m]

ImpKnows(p) ==
  LET i == imp[p] IN
    /\ i.pc \in {"expiry", "history"} => 0 < i.hist /\ i.hist <= hid
    /\ i.pc \in {"fetch", "store"} => \A m \in i.todo : last[m] > 0
    /\ i.pc = "store" =>
         i.got \in Msgs /\ 0 < i.ver /\ InHandIsCovered(i.got, i.ver)
    /\ i.pc \in {"fetch", "store"} /\ p \in Logins /\ Cardinality(Msgs) <= SeedCap =>
         \A m \in inbox :
           m \in i.todo \/ (i.pc = "store" /\ i.got = m) \/ Accounted(m)

\* Every row is the newest version or will be listed again; after a complete
\* initial sync every INBOX message is accounted for.
RowsKnown ==
  /\ \A m \in Msgs \ gone : row[m] > 0 => high[m] = last[m] \/ since < last[m]
  /\ seeded /\ Cardinality(Msgs) <= SeedCap => \A m \in inbox : Accounted(m)

IInv ==
  /\ WithinHistory
  /\ BeforeStart
  /\ CoveredUpTo(historyId)
  /\ \A h \in Handlers : HookKnows(h)
  /\ \A p \in Importers : ImpKnows(p)
  /\ RowsKnown

=============================================================================
