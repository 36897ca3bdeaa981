-------------------------- MODULE CheckpointedMirror ------------------------
(***************************************************************************)
(* What the synchronisation of one account promises, without processes: a  *)
(* mirror stores versions of messages, and a checkpoint may be taken over  *)
(* from a notification only when everything up to it has been stored. The  *)
(* one way to lose a change is to replace the checkpoint unseen, and then  *)
(* the messages concerned are known.                                       *)
(***************************************************************************)
EXTENDS Naturals

CONSTANTS Item, MaxClock

VARIABLES
  clock,       \* number of the newest change
  latest,      \* latest[i]: number of the newest change of i
  deleted,     \* items deleted for good
  stored,      \* stored[i]: newest version ever stored
  checkpoint,  \* changes up to here are no longer asked for; 0 before the first
  base,        \* the first checkpoint
  skipped      \* items whose newest change was passed over unseen

vars == <<clock, latest, deleted, stored, checkpoint, base, skipped>>

Init ==
  /\ clock \in Nat \ {0}
  /\ latest \in [Item -> 0..clock]
  /\ deleted = {} /\ skipped = {}
  /\ stored \in [Item -> Nat] /\ \A i \in Item : stored[i] <= latest[i]
  /\ checkpoint = 0 /\ base = 0

\* Everything that changed after the first checkpoint and up to c is stored.
CoveredUpTo(c) ==
  \A i \in Item \ deleted :
    base < latest[i] /\ latest[i] <= c /\ i \notin skipped => stored[i] = latest[i]

Change(i) ==
  /\ clock < MaxClock /\ i \notin deleted
  /\ clock' = clock + 1
  /\ latest' = [latest EXCEPT ![i] = clock + 1]
  /\ skipped' = skipped \ {i}
  /\ UNCHANGED <<deleted, stored, checkpoint, base>>

Delete(i) ==
  /\ clock < MaxClock /\ i \notin deleted
  /\ clock' = clock + 1
  /\ deleted' = deleted \cup {i}
  /\ UNCHANGED <<latest, stored, checkpoint, base, skipped>>

\* Some items reach the mirror, in versions that exist.
Store ==
  /\ \A i \in Item : stored[i] <= stored'[i] /\ stored'[i] <= latest[i]
  /\ stored' = [i \in Item |-> stored'[i]]
  /\ UNCHANGED <<clock, latest, deleted, checkpoint, base, skipped>>

\* The checkpoint follows a notification: only over stored changes.
Acknowledge(c) ==
  /\ checkpoint # 0 /\ 0 < c /\ c <= clock
  /\ CoveredUpTo(c)
  /\ checkpoint' = c
  /\ UNCHANGED <<clock, latest, deleted, stored, base, skipped>>

\* The checkpoint is replaced without looking at the changes in between.
Override(c) ==
  /\ 0 < c /\ c <= clock
  /\ checkpoint' = c
  /\ base' = IF checkpoint = 0 THEN c ELSE base
  /\ skipped' = skipped \cup
       {i \in Item : /\ checkpoint # 0 /\ checkpoint < latest[i] /\ latest[i] <= c
                     /\ stored[i] # latest[i]}
  /\ UNCHANGED <<clock, latest, deleted, stored>>

Next ==
  \/ \E i \in Item : Change(i)
  \/ \E i \in Item : Delete(i)
  \/ Store
  \/ \E c \in 1..MaxClock : Acknowledge(c)
  \/ \E c \in 1..MaxClock : Override(c)

Spec == Init /\ [][Next]_vars

=============================================================================
