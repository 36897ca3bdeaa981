---------------------------- MODULE MCGmailSync ----------------------------
(***************************************************************************)
(* Instances of GmailSync for TLC. Messages, handlers and imports of one   *)
(* kind are interchangeable in every safety property.                      *)
(***************************************************************************)
EXTENDS GmailSync, TLC

Symmetry ==
  Permutations(Msgs) \cup Permutations(Handlers) \cup Permutations(Backfills)

(***************************************************************************)
(* A run may start at the account of a returning user: the first login has *)
(* set the checkpoint and its initial sync has imported the whole inbox.   *)
(* Every such state is one that Spec reaches.                              *)
(***************************************************************************)
ReturningInit ==
  /\ hid = 1
  /\ last \in [Msgs -> 0..1]
  /\ gone = {}
  /\ inbox \in SUBSET {m \in Msgs : last[m] = 1}
  /\ watched = TRUE
  /\ forgotten = 0
  /\ pubsub = {}
  /\ historyId = 1
  /\ watchExpiry = TRUE
  /\ row = [m \in Msgs |-> IF m \in inbox THEN 1 ELSE 0]
  /\ hook = [h \in Handlers |-> HookIdle]
  /\ imp = [p \in Importers |-> ImpIdle]
  /\ cron = CronIdle
  /\ session = TRUE
  /\ high = row
  /\ since = 1
  /\ jumped = {}
  /\ seeded = TRUE

(***************************************************************************)
(* Or at an account nobody has logged in to whose mailbox has one change   *)
(* to go.                                                                  *)
(***************************************************************************)
LateInit ==
  /\ hid = MaxHist - 1
  /\ last \in [Msgs -> 0..hid]
  /\ gone = {}
  /\ inbox \in SUBSET {m \in Msgs : last[m] > 0}
  /\ watched = FALSE
  /\ forgotten = 0
  /\ pubsub = {}
  /\ historyId = NoHistory
  /\ watchExpiry = FALSE
  /\ row = [m \in Msgs |-> 0]
  /\ hook = [h \in Handlers |-> HookIdle]
  /\ imp = [p \in Importers |-> ImpIdle]
  /\ cron = CronIdle
  /\ session = FALSE
  /\ high = row
  /\ since = 0
  /\ jumped = {}
  /\ seeded = FALSE

LiveSpec == (ReturningInit \/ LateInit) /\ [][Next]_vars /\ Fairness

(***************************************************************************)
(* Or a little later, when every message has changed once more and no      *)
(* notification of it has been processed: the delta is not empty, and one  *)
(* more change suffices for a message to change again or to disappear      *)
(* while the delta is being fetched. The notification of the last change   *)
(* is pending or was lost.                                                 *)
(***************************************************************************)
BehindInit ==
  /\ hid = Cardinality(Msgs) + 1
  /\ last \in {f \in [Msgs -> 2..hid] : \A m, n \in Msgs : f[m] = f[n] => m = n}
  /\ gone = {}
  /\ inbox \in SUBSET Msgs
  /\ watched = TRUE
  /\ forgotten = 0
  /\ pubsub \in SUBSET {hid}
  /\ historyId = 1
  /\ watchExpiry = TRUE
  /\ row \in [Msgs -> 0..1]
  /\ hook = [h \in Handlers |-> HookIdle]
  /\ imp = [p \in Importers |-> ImpIdle]
  /\ cron = CronIdle
  /\ session = TRUE
  /\ high = row
  /\ since = 1
  /\ jumped = {}
  /\ seeded = TRUE
=============================================================================
