------------------------ MODULE MessageLabelsProofs -------------------------
(***************************************************************************)
(* Proofs about MessageLabels: types, the coherence of the status column,  *)
(* and that a row mirrors Gmail's labels as long as no two writers have    *)
(* overlapped, for any labels, request bodies and numbers of processes.    *)
(***************************************************************************)
EXTENDS MessageLabels, TLAPS

\* deriveStatus is total: its result is one of the five statuses.
LEMMA DeriveStatusType == \A labels : DeriveStatus(labels) \in Statuses
  BY DEF DeriveStatus, Statuses

\* What normalisation writes is a row, and never the missing one.
LEMMA RowOfType ==
  ASSUME NEW labels \in SUBSET Labels
  PROVE  /\ RowOf(labels) \in RowType /\ RowOf(labels) # NoRow
         /\ RowOf(labels).labels = labels
         /\ RowOf(labels).status = DeriveStatus(labels)
  BY DeriveStatusType DEF RowOf, Columns, RowType, NoRow, Statuses

LEMMA NoRowType == NoRow \in RowType
  BY DEF NoRow, Columns, RowType, Statuses

\* The label changes of a body and of the labels route are labels.
LEMMA RequestLabelsType ==
  ASSUME NEW body, NEW labels \in SUBSET Labels
  PROVE  AddLabels(body) \subseteq Labels /\ RemoveLabels(body, labels) \subseteq Labels
  BY DEF AddLabels, RemoveLabels, Labels, ProtectedLabels

\* At the start no call has made the message.
LEMMA MakeInit == Init => make.pc \in {"none", "ready"}
<1>1. make = NoMaking => make.pc = "none" BY DEF NoMaking
<1>2. ASSUME NEW m \in Makings, make = [pc |-> "ready", route |-> m.route, got |-> m.labels]
      PROVE  make.pc = "ready"
  BY <1>2
<1> QED BY <1>1, <1>2 DEF Init

LEMMA TypeInit == Init => TypeOK
<1> SUFFICES ASSUME Init PROVE TypeOK
  OBVIOUS
<1>1. gmail \in SUBSET Labels BY LabelsAssumption DEF Init
<1>2. row \in RowType BY <1>1, RowOfType, NoRowType DEF Init
<1>3. draftId \in BOOLEAN BY DEF Init
<1>4. make \in [pc : {"none", "ready", "get", "store"}, route : Routes \cup {"none"},
               got : SUBSET Labels]
  <2>1. CASE make = NoMaking BY <2>1 DEF NoMaking
  <2>2. CASE \E m \in Makings : make = [pc |-> "ready", route |-> m.route, got |-> m.labels]
    BY <2>2, LabelsAssumption
  <2> QED BY <2>1, <2>2 DEF Init
<1> QED BY <1>1, <1>2, <1>3, <1>4
           DEF Init, TypeOK, RequestState, HookIdle, ReqIdle, RecIdle

(***************************************************************************)
(* The steps in the form the proofs use: one case per action.              *)
(***************************************************************************)
LEMMA TypeStep == TypeOK /\ [Next]_vars => TypeOK'
<1> SUFFICES ASSUME TypeOK, [Next]_vars PROVE TypeOK'
  OBVIOUS
<1> USE DEF TypeOK, RequestState
<1>1. ASSUME NEW l \in Toggled, GmailToggles(l) PROVE TypeOK'
  BY <1>1, LabelsAssumption DEF GmailToggles, GmailBecomes
<1>2. ASSUME NEW h \in Hooks, Synchronise(h) PROVE TypeOK'
  <2>1. CASE Deliver(h) BY <2>1 DEF Deliver, Starts, Busy
  <2>2. CASE ImportInbox(h) BY <2>2 DEF ImportInbox, Starts, Busy
  <2>3. CASE GetLabels(h) BY <2>3 DEF GetLabels
  <2>4. CASE StoreLabels(h)
    <3>1. row' \in RowType BY <2>4, RowOfType DEF StoreLabels
    <3> QED BY <2>4, <3>1 DEF StoreLabels, HookIdle
  <2>5. CASE HookFails(h) BY <2>5 DEF HookFails, HookIdle
  <2> QED BY <1>2, <2>1, <2>2, <2>3, <2>4, <2>5 DEF Synchronise
<1>3. ASSUME NEW r \in Requests, Request(r) PROVE TypeOK'
  <2>0. row.labels \in SUBSET Labels BY DEF RowType
  <2>1. ASSUME NEW add \in SUBSET Labels, NEW remove \in SUBSET Labels,
               ReadForChange(r, add, remove)
        PROVE  TypeOK'
    BY <2>0, <2>1 DEF ReadForChange, Starts, Busy
  <2>2. ASSUME NEW body \in Bodies, Patch(r, body) PROVE TypeOK'
    BY <2>0, <2>1, <2>2, RequestLabelsType DEF Patch
  <2>3. ASSUME NEW l \in UserLabels, AddUserLabel(r, l) \/ RemoveUserLabel(r, l)
        PROVE  TypeOK'
    BY <2>1, <2>3 DEF AddUserLabel, RemoveUserLabel, Labels
  <2>4. CASE ModifyGmail(r)
    <3>1. gmail' \subseteq Labels /\ pending' \in BOOLEAN
      BY <2>4 DEF ModifyGmail, GmailBecomes
    <3>2. req' \in [Requests -> RequestState]
      BY <2>4 DEF ModifyGmail
    <3> QED BY <2>4, <3>1, <3>2 DEF ModifyGmail
  <2>5. CASE WriteLabels(r)
    <3>1. row' \in RowType
      BY <2>5, RowOfType, NoRowType DEF WriteLabels, UpdateRow
    <3> QED BY <2>5, <3>1 DEF WriteLabels, ReqIdle
  <2>6. CASE ReadForDelete(r)
    <3> DEFINE next == IF row.status = "trash" THEN "drop" ELSE "trash"
    <3>1. next \in {"trash", "drop"} OBVIOUS
    <3>2. req' = [req EXCEPT ![r].pc = next] BY <2>6 DEF ReadForDelete
    <3> HIDE DEF next
    <3>3. req' \in [Requests -> RequestState] BY <3>1, <3>2
    <3> QED BY <2>6, <3>3 DEF ReadForDelete, Starts, Busy
  <2>7. CASE TrashInGmail(r)
    BY <2>7 DEF TrashInGmail, GmailBecomes, Labels, ProtectedLabels
  <2>8. CASE DropRow(r) BY <2>8, NoRowType DEF DropRow, ReqIdle
  <2>9. CASE RequestFails(r) BY <2>9 DEF RequestFails, ReqIdle
  <2> QED
    BY <1>3, <2>2, <2>3, <2>4, <2>5, <2>6, <2>7, <2>8, <2>9 DEF Request
<1>4. ASSUME NEW c \in Reconcilers, Reconcile(c) PROVE TypeOK'
  <2>1. CASE ListInbox(c) BY <2>1 DEF ListInbox, Starts, Busy
  <2>2. CASE ReadInboxRows(c) BY <2>2 DEF ReadInboxRows, RecIdle, RowType
  <2>3. CASE DropInboxLabel(c)
    <3>1. row' \in RowType
      BY <2>3, DeriveStatusType, NoRowType DEF DropInboxLabel, UpdateRow, RowType
    <3> QED BY <2>3, <3>1 DEF DropInboxLabel, RecIdle
  <2>4. CASE ReconcileFails(c) BY <2>4 DEF ReconcileFails, RecIdle
  <2> QED BY <1>4, <2>1, <2>2, <2>3, <2>4 DEF Reconcile
<1>5. CASE MakeStep
  <2>1. CASE MakeMessage
    <3>1. gmail' \subseteq Labels BY <2>1 DEF MakeMessage, Labels, ProtectedLabels
    <3>2. make'.pc \in {"get", "store"} /\ make' = [make EXCEPT !.pc = make'.pc]
      BY <2>1 DEF MakeMessage
    <3> QED BY <2>1, <3>1, <3>2 DEF MakeMessage, Starts, Busy
  <2>2. CASE GetMade BY <2>2 DEF GetMade
  <2>3. ASSUME NEW new \in RowType, NEW id \in BOOLEAN, StoresMade(new, id) PROVE TypeOK'
    BY <2>3 DEF StoresMade, NoMaking
  <2>4. CASE StoreNew BY <2>3, <2>4, RowOfType DEF StoreNew
  <2>5. CASE StoreUpdated BY <2>3, <2>5, RowOfType DEF StoreUpdated
  <2>6. CASE StoreSent
    <3>1. Columns(make.got, "UNREAD" \notin make.got, "STARRED" \in make.got, "sent") \in RowType
      BY DEF Columns, RowType, Statuses
    <3> QED BY <2>3, <2>6, <3>1 DEF StoreSent
  <2>7. CASE MakeFails BY <2>7 DEF MakeFails, NoMaking
  <2> QED BY <1>5, <2>1, <2>2, <2>4, <2>5, <2>6, <2>7 DEF MakeStep
<1>6. CASE UNCHANGED vars BY <1>6 DEF vars
<1> QED BY <1>1, <1>2, <1>3, <1>4, <1>5, <1>6 DEF Next

\* Every reachable state is well typed.
THEOREM TypeCorrect == Spec => []TypeOK
<1>1. Init => TypeOK BY TypeInit
<1>2. TypeOK /\ [Next]_vars => TypeOK' BY TypeStep
<1> QED BY <1>1, <1>2, PTL DEF Spec

(***************************************************************************)
(* Processes that have not overlapped run one at a time.                   *)
(***************************************************************************)

\* Steps that start no process keep processes from overlapping.
LEMMA AloneKept ==
  ASSUME Alone,
         \A h \in Hooks : hook'[h].pc # "idle" => hook[h].pc # "idle",
         \A r \in Requests : req'[r].pc # "idle" => req[r].pc # "idle",
         \A c \in Reconcilers : rec'[c].pc # "idle" => rec[c].pc # "idle",
         Making' => Making
  PROVE  Alone'
  BY DEF Alone

\* So does a step that starts one process while all are idle.
LEMMA AloneStarts ==
  ASSUME ~Busy, UNCHANGED make,
         \/ /\ \E h \in Hooks : \A g \in Hooks \ {h} : hook'[g] = hook[g]
            /\ req' = req /\ rec' = rec
         \/ /\ \E r \in Requests : \A q \in Requests \ {r} : req'[q] = req[q]
            /\ hook' = hook /\ rec' = rec
         \/ /\ \E c \in Reconcilers : \A d \in Reconcilers \ {c} : rec'[d] = rec[d]
            /\ hook' = hook /\ req' = req
  PROVE  Alone'
  BY DEF Alone, Busy, Making

\* A step that starts a process and leaves no mark found all of them idle.
LEMMA StartsAlone ==
  ASSUME TypeOK, Starts, ~overlapped'
  PROVE  ~overlapped /\ ~Busy
  BY DEF TypeOK, Starts, Busy

(***************************************************************************)
(* The status column.                                                      *)
(***************************************************************************)
LEMMA StatusStep == TypeOK /\ StatusInv /\ [Next]_vars => StatusInv'
<1> SUFFICES ASSUME TypeOK, StatusInv, [Next]_vars PROVE StatusInv'
  OBVIOUS
<1> DEFINE Covered == Owed \/ dropped
           Derived(r) == r = NoRow \/ r.status = DeriveStatus(r.labels)
<1>0. ASSUME row' = row \/ (row # NoRow /\ Derived(row')) \/ ~Making',
             row' = row \/ Derived(row'),
             Making' => Making \/ Covered', make'.route = make.route \/ ~Making',
             row' = NoRow => row = NoRow \/ Covered' \/ ~Making',
             Covered => Covered'
      PROVE  StatusInv'
  BY <1>0 DEF StatusInv, StatusCoherent
<1>1. ASSUME NEW l \in Toggled, GmailToggles(l) PROVE StatusInv'
  BY <1>0, <1>1 DEF GmailToggles, GmailBecomes, Owed, Making
<1>2. ASSUME NEW h \in Hooks, Synchronise(h) PROVE StatusInv'
  <2>1. CASE StoreLabels(h)
    <3>1. hook[h].got \in SUBSET Labels BY DEF TypeOK
    <3> QED BY <2>1, <3>1, RowOfType DEF StoreLabels, StatusInv, StatusCoherent
  <2>2. CASE Deliver(h) \/ ImportInbox(h) \/ GetLabels(h) \/ HookFails(h)
    <3>1. UNCHANGED <<row, make, dropped>>
      BY <2>2 DEF Deliver, ImportInbox, GetLabels, HookFails
    <3>2. Owed => Owed'
      <4>1. CASE Deliver(h) BY <4>1 DEF Deliver, Owed, TypeOK
      <4>2. CASE ImportInbox(h) BY <4>2 DEF ImportInbox, Owed, TypeOK
      <4>3. CASE GetLabels(h) BY <4>3 DEF GetLabels, Owed, TypeOK
      <4>4. CASE HookFails(h) BY <4>4 DEF HookFails, HookIdle, Owed, TypeOK
      <4> QED BY <2>2, <4>1, <4>2, <4>3, <4>4
    <3> QED BY <1>0, <3>1, <3>2 DEF Making
  <2> QED BY <1>2, <2>1, <2>2 DEF Synchronise
<1>3. ASSUME NEW r \in Requests, Request(r) PROVE StatusInv'
  <2>1. CASE WriteLabels(r)
    <3> DEFINE new == (req[r].seen \cup req[r].add) \ req[r].remove
    <3>1. new \in SUBSET Labels BY DEF TypeOK, RequestState
    <3>2. row' = IF row = NoRow THEN NoRow ELSE RowOf(new)
      BY <2>1 DEF WriteLabels, UpdateRow
    <3>3. UNCHANGED <<pending, hook, make, dropped>> BY <2>1 DEF WriteLabels
    <3> HIDE DEF new
    <3> QED BY <3>1, <3>2, <3>3, RowOfType DEF StatusInv, StatusCoherent, Owed, Making
  <2>2. CASE DropRow(r) BY <2>2 DEF DropRow, StatusInv, StatusCoherent, Making
  <2>3. CASE ModifyGmail(r) \/ TrashInGmail(r)
    BY <1>0, <2>3 DEF ModifyGmail, TrashInGmail, GmailBecomes, Owed, Making
  <2>4. CASE ReadForDelete(r) \/ RequestFails(r)
    BY <1>0, <2>4 DEF ReadForDelete, RequestFails, Owed, Making
  <2>5. ASSUME NEW add, NEW remove, ReadForChange(r, add, remove) PROVE StatusInv'
    BY <1>0, <2>5 DEF ReadForChange, Owed, Making
  <2> QED
    BY <1>3, <2>1, <2>2, <2>3, <2>4, <2>5 DEF Request, Patch, AddUserLabel, RemoveUserLabel
<1>4. ASSUME NEW c \in Reconcilers, Reconcile(c) PROVE StatusInv'
  <2>1. CASE DropInboxLabel(c)
    <3> DEFINE labels == rec[c].seen \ {"INBOX"}
               new == [row EXCEPT !.labels = labels, !.status = DeriveStatus(labels)]
    <3>1. row' = IF row = NoRow THEN NoRow ELSE new
      BY <2>1 DEF DropInboxLabel, UpdateRow
    <3>2. new.labels = labels /\ new.status = DeriveStatus(labels) /\ new # NoRow
      BY DeriveStatusType DEF TypeOK, RowType, NoRow, Columns, Statuses
    <3>3. UNCHANGED <<pending, hook, make, dropped>> BY <2>1 DEF DropInboxLabel
    <3> HIDE DEF new, labels
    <3> QED BY <3>1, <3>2, <3>3 DEF StatusInv, StatusCoherent, Owed, Making
  <2>2. CASE ListInbox(c) \/ ReadInboxRows(c) \/ ReconcileFails(c)
    BY <1>0, <2>2 DEF ListInbox, ReadInboxRows, ReconcileFails, Owed, Making
  <2> QED BY <1>4, <2>1, <2>2 DEF Reconcile
<1>5. CASE MakeStep
  <2>1. CASE MakeMessage
    <3>1. pending' /\ row' = row /\ Owed' BY <2>1 DEF MakeMessage, Owed
    <3> QED BY <3>1 DEF StatusInv, StatusCoherent
  <2>2. CASE GetMade BY <1>0, <2>2 DEF GetMade, Owed, Making, TypeOK
  <2>3. ASSUME NEW new, NEW id, StoresMade(new, id) PROVE ~Making' /\ row' = new
    BY <2>3 DEF StoresMade, NoMaking, Making
  <2>4. CASE StoreNew \/ StoreUpdated
    <3>1. make.got \in SUBSET Labels BY DEF TypeOK
    <3>2. ~Making' /\ row' = RowOf(make.got) BY <2>3, <2>4 DEF StoreNew, StoreUpdated
    <3> QED BY <3>1, <3>2, RowOfType DEF StatusInv, StatusCoherent
  <2>5. CASE StoreSent
    <3>1. Making /\ make.route = "send" /\ row = NoRow
      BY <2>5 DEF StoreSent, StoresMade, Making
    <3>2. UNCHANGED <<pending, hook, dropped>> BY <2>5 DEF StoreSent, StoresMade
    <3>3. Owed' \/ dropped' BY <3>1, <3>2 DEF StatusInv, Owed
    <3>4. ~Making' /\ row'.status = "sent" BY <2>5 DEF StoreSent, StoresMade, Columns, NoMaking, Making
    <3> QED BY <3>3, <3>4 DEF StatusInv, StatusCoherent
  <2>6. CASE MakeFails
    BY <1>0, <2>6 DEF MakeFails, NoMaking, Owed, Making
  <2> QED BY <1>5, <2>1, <2>2, <2>4, <2>5, <2>6 DEF MakeStep
<1>6. CASE UNCHANGED vars BY <1>0, <1>6 DEF vars, Owed, Making
<1> QED BY <1>1, <1>2, <1>3, <1>4, <1>5, <1>6 DEF Next

\* However deliveries, requests, reconciliations and the calls that make the message
\* interleave and fail, the status is the one its label set stands for, or the 'sent'
\* of a draft's send that a delivery is still owed to; the deletion of the row while
\* such a send is under way is excepted (dropped).
THEOREM StatusSafe == Spec => []StatusCoherent
<1>1. Init => StatusInv
  <2> SUFFICES ASSUME Init PROVE StatusInv
    OBVIOUS
  <2>1. gmail \in SUBSET Labels BY LabelsAssumption DEF Init
  <2>2. StatusCoherent BY <2>1, RowOfType DEF Init, StatusCoherent
  <2>3. make.pc \in {"none", "ready"} BY MakeInit
  <2> QED BY <2>2, <2>3 DEF StatusInv, Making
<1>2. TypeOK /\ StatusInv /\ [Next]_vars => StatusInv' BY StatusStep
<1>3. StatusInv => StatusCoherent BY DEF StatusInv
<1> QED BY <1>1, <1>2, <1>3, TypeCorrect, PTL DEF Spec

(***************************************************************************)
(* The row mirrors Gmail while processes do not overlap. In every step     *)
(* below the acting process is the only one that is not idle.              *)
(***************************************************************************)

\* A change of Gmail's labels that leaves nothing to deliver is none.
LEMMA QuietGmail ==
  ASSUME TypeOK, NEW labels, GmailBecomes(labels), ~pending'
  PROVE  ~pending /\ gmail' = gmail /\ labels = gmail
  BY DEF TypeOK, GmailBecomes

LEMMA SyncStep ==
  ASSUME TypeOK, Alone, InStep, ~overlapped, NEW h \in Hooks, Synchronise(h), ~overlapped'
  PROVE  Alone' /\ InStep'
<1> USE DEF TypeOK
<1>1. CASE Deliver(h)
  <2>1. ~Busy BY <1>1, StartsAlone DEF Deliver
  <2>2. Alone' BY <1>1, <2>1, AloneStarts DEF Deliver
  <2>3. InStep'
    BY <1>1, <2>1 DEF Deliver, InStep, Making, Synced, Busy
  <2> QED BY <2>2, <2>3
<1>2. CASE ImportInbox(h)
  <2>1. ~Busy BY <1>2, StartsAlone DEF ImportInbox
  <2>2. Alone' BY <1>2, <2>1, AloneStarts DEF ImportInbox
  <2>3. InStep'
    BY <1>2, <2>1 DEF ImportInbox, InStep, Making, Synced, Busy
  <2> QED BY <2>2, <2>3
<1>3. CASE GetLabels(h)
  <2>1. Alone' BY <1>3, AloneKept DEF Making, GetLabels
  <2>2. InStep' BY <1>3 DEF GetLabels, InStep, Making, Synced
  <2> QED BY <2>1, <2>2
<1>4. CASE StoreLabels(h)
  <2>1. Alone' BY <1>4, AloneKept DEF Making, StoreLabels, HookIdle
  <2>2. \A r \in Requests : req[r].pc = "idle"
    BY <1>4 DEF StoreLabels, Alone
  <2>3. \A c \in Reconcilers : rec[c].pc = "idle"
    BY <1>4 DEF StoreLabels, Alone
  <2>4. \A g \in Hooks : hook'[g].pc = "idle"
    BY <1>4 DEF StoreLabels, Alone, HookIdle
  <2>5. ~pending' => row' = RowOf(gmail')
    BY <1>4 DEF StoreLabels, InStep, Making
  <2>6. InStep'
    BY <1>4, <2>2, <2>3, <2>4, <2>5 DEF StoreLabels, InStep, Making, Synced
  <2> QED BY <2>1, <2>6
<1>5. CASE HookFails(h)
  <2>1. Alone' BY <1>5, AloneKept DEF Making, HookFails, HookIdle
  <2>2. InStep'
    BY <1>5 DEF HookFails, HookIdle, InStep, Making, Synced, Alone
  <2> QED BY <2>1, <2>2
<1> QED BY <1>1, <1>2, <1>3, <1>4, <1>5 DEF Synchronise

LEMMA RequestStep ==
  ASSUME TypeOK, Alone, InStep, ~overlapped, NEW r \in Requests, Request(r), ~overlapped'
  PROVE  Alone' /\ InStep'
<1> USE DEF TypeOK, RequestState
<1>1. ASSUME NEW add, NEW remove, ReadForChange(r, add, remove)
      PROVE  Alone' /\ InStep'
  <2>1. ~Busy BY <1>1, StartsAlone DEF ReadForChange
  <2>2. Alone' BY <1>1, <2>1, AloneStarts DEF ReadForChange
  <2>3. ~pending => row.labels = gmail
    BY <1>1, <2>1, RowOfType DEF ReadForChange, InStep, Making, Synced, Busy
  <2>4. InStep' BY <1>1, <2>1, <2>3 DEF ReadForChange, InStep, Making, Synced, Busy
  <2> QED BY <2>2, <2>4
<1>2. CASE ModifyGmail(r)
  <2>1. Alone' BY <1>2, AloneKept DEF Making, ModifyGmail
  <2>2. \A h \in Hooks : hook[h].pc = "idle" BY <1>2 DEF ModifyGmail, Alone
  <2>3. \A c \in Reconcilers : rec[c].pc = "idle" BY <1>2 DEF ModifyGmail, Alone
  <2>4. ~pending' => /\ ~pending /\ gmail' = gmail
                     /\ (gmail \cup req[r].add) \ req[r].remove = gmail
    BY <1>2, QuietGmail DEF ModifyGmail
  <2>5. /\ req'[r].pc = "write" /\ req'[r].add = req[r].add
        /\ req'[r].remove = req[r].remove /\ req'[r].seen = req[r].seen
        /\ \A q \in Requests \ {r} : req'[q] = req[q]
    BY <1>2 DEF ModifyGmail
  <2>6. \A q \in Requests \ {r} : req[q].pc = "idle" BY <1>2 DEF ModifyGmail, Alone
  <2>7. UNCHANGED <<row, hook, rec, make>> /\ req[r].pc = "modify" /\ ~Making
    BY <1>2 DEF ModifyGmail, Alone
  <2>8. InStep'
    BY <2>2, <2>3, <2>4, <2>5, <2>6, <2>7 DEF InStep, Making, Synced
  <2> QED BY <2>1, <2>8
<1>3. CASE WriteLabels(r)
  <2>1. Alone' BY <1>3, AloneKept DEF Making, WriteLabels, ReqIdle
  <2>2. \A h \in Hooks : hook[h].pc = "idle" BY <1>3 DEF WriteLabels, Alone
  <2>3. \A c \in Reconcilers : rec[c].pc = "idle" BY <1>3 DEF WriteLabels, Alone
  <2>4. \A q \in Requests : req'[q].pc = "idle"
    BY <1>3 DEF WriteLabels, Alone, ReqIdle
  <2>5. ~pending => (req[r].seen \cup req[r].add) \ req[r].remove = gmail
    BY <1>3 DEF WriteLabels, InStep, Making
  <2>6. ~pending' => row' = NoRow \/ row' = RowOf(gmail')
    BY <1>3, <2>5 DEF WriteLabels, UpdateRow
  <2>7. InStep' BY <1>3, <2>2, <2>3, <2>4, <2>6 DEF WriteLabels, InStep, Making, Synced
  <2> QED BY <2>1, <2>7
<1>4. CASE ReadForDelete(r)
  <2>1. ~Busy BY <1>4, StartsAlone DEF ReadForDelete
  <2>2. Alone' BY <1>4, <2>1, AloneStarts DEF ReadForDelete
  <2>3. req'[r].pc \in {"drop", "trash"} /\ \A q \in Requests \ {r} : req'[q] = req[q]
    BY <1>4 DEF ReadForDelete
  <2>4. InStep' BY <1>4, <2>1, <2>3 DEF ReadForDelete, InStep, Making, Synced, Busy
  <2> QED BY <2>2, <2>4
<1>5. CASE TrashInGmail(r)
  <2>1. Alone' BY <1>5, AloneKept DEF Making, TrashInGmail
  <2>2. \A h \in Hooks : hook[h].pc = "idle" BY <1>5 DEF TrashInGmail, Alone
  <2>3. \A c \in Reconcilers : rec[c].pc = "idle" BY <1>5 DEF TrashInGmail, Alone
  <2>4. ~pending' => ~pending /\ gmail' = gmail BY <1>5, QuietGmail DEF TrashInGmail
  <2>5. req'[r].pc = "drop" /\ \A q \in Requests \ {r} : req'[q] = req[q]
    BY <1>5 DEF TrashInGmail
  <2>6. UNCHANGED <<row, hook, rec, make>> /\ ~Making BY <1>5 DEF TrashInGmail, Alone
  <2>7. InStep' BY <2>2, <2>3, <2>4, <2>5, <2>6 DEF InStep, Making, Synced
  <2> QED BY <2>1, <2>7
<1>6. CASE DropRow(r)
  <2>1. Alone' BY <1>6, AloneKept DEF Making, DropRow, ReqIdle
  <2>2. \A q \in Requests : req'[q].pc = "idle"
    BY <1>6 DEF DropRow, Alone, ReqIdle
  <2>3. InStep' BY <1>6, <2>2 DEF DropRow, InStep, Making, Synced
  <2> QED BY <2>1, <2>3
<1>7. CASE RequestFails(r)
  <2>1. Alone' BY <1>7, AloneKept DEF Making, RequestFails, ReqIdle
  <2>2. \A q \in Requests : req'[q].pc = "idle"
    BY <1>7 DEF RequestFails, Alone, ReqIdle
  <2>3. InStep' BY <1>7, <2>2 DEF RequestFails, InStep, Making, Synced
  <2> QED BY <2>1, <2>3
<1> QED
  BY <1>1, <1>2, <1>3, <1>4, <1>5, <1>6, <1>7
     DEF Request, Patch, AddUserLabel, RemoveUserLabel

LEMMA ReconcileStep ==
  ASSUME TypeOK, Alone, InStep, ~overlapped, NEW c \in Reconcilers, Reconcile(c),
         ~overlapped'
  PROVE  Alone' /\ InStep'
<1> USE DEF TypeOK
<1>1. CASE ListInbox(c)
  <2>1. ~Busy BY <1>1, StartsAlone DEF ListInbox
  <2>2. Alone' BY <1>1, <2>1, AloneStarts DEF ListInbox
  <2>3. InStep' BY <1>1, <2>1 DEF ListInbox, InStep, Making, Synced, Busy
  <2> QED BY <2>2, <2>3
<1>2. CASE ReadInboxRows(c)
  <2>1. Alone' BY <1>2, AloneKept DEF Making, ReadInboxRows, RecIdle
  <2>2. \A h \in Hooks : hook[h].pc = "idle" BY <1>2 DEF ReadInboxRows, Alone
  <2>3. row # NoRow /\ "INBOX" \in row.labels => pending
    <3> SUFFICES ASSUME row # NoRow, "INBOX" \in row.labels, ~pending PROVE FALSE
      OBVIOUS
    <3>1. "INBOX" \notin gmail BY <1>2 DEF ReadInboxRows, InStep, Making
    <3>2. row = RowOf(gmail) BY <2>2 DEF InStep, Making, Synced
    <3> QED BY <3>1, <3>2, RowOfType
  <2>4. InStep' BY <1>2, <2>3 DEF ReadInboxRows, RecIdle, InStep, Making, Synced
  <2> QED BY <2>1, <2>4
<1>3. CASE DropInboxLabel(c)
  <2>1. Alone' BY <1>3, AloneKept DEF Making, DropInboxLabel, RecIdle
  <2>2. pending BY <1>3 DEF DropInboxLabel, InStep, Making
  <2>3. InStep' BY <1>3, <2>2 DEF DropInboxLabel, RecIdle, InStep, Making
  <2> QED BY <2>1, <2>3
<1>4. CASE ReconcileFails(c)
  <2>1. Alone' BY <1>4, AloneKept DEF Making, ReconcileFails, RecIdle
  <2>2. InStep' BY <1>4 DEF ReconcileFails, RecIdle, InStep, Making, Synced
  <2> QED BY <2>1, <2>2
<1> QED BY <1>1, <1>2, <1>3, <1>4 DEF Reconcile

LEMMA MakingStep ==
  ASSUME TypeOK, Alone, InStep, ~overlapped, MakeStep, ~overlapped'
  PROVE  Alone' /\ InStep'
<1> USE DEF TypeOK
<1>1. CASE MakeMessage
  <2>1. ~Busy BY <1>1, StartsAlone DEF MakeMessage
  <2>2. pending' /\ UNCHANGED <<row, hook, req, rec>> BY <1>1 DEF MakeMessage
  <2>3. Alone' BY <2>1, <2>2 DEF Alone, Busy
  <2>4. InStep' BY <2>1, <2>2 DEF InStep, Busy
  <2> QED BY <2>3, <2>4
<1>2. ASSUME ~Making' \/ Making, Making, UNCHANGED <<pending, hook, req, rec>>
      PROVE  Alone' /\ InStep'
  <2>1. Alone' BY <1>2, AloneKept
  <2>2. pending' BY <1>2 DEF InStep
  <2>3. InStep' BY <1>2, <2>2 DEF InStep, Alone
  <2> QED BY <2>1, <2>3
<1>3. CASE GetMade BY <1>2, <1>3 DEF GetMade, Making
<1>4. CASE StoreNew \/ StoreUpdated \/ StoreSent
  BY <1>2, <1>4 DEF StoreNew, StoreUpdated, StoreSent, StoresMade, NoMaking, Making
<1>5. CASE MakeFails BY <1>2, <1>5 DEF MakeFails, NoMaking, Making
<1> QED BY <1>1, <1>3, <1>4, <1>5 DEF MakeStep

\* The overlap mark is never taken back.
LEMMA OverlapStays == TypeOK /\ [Next]_vars /\ ~overlapped' => ~overlapped
<1> SUFFICES ASSUME TypeOK, [Next]_vars, ~overlapped' PROVE ~overlapped
  OBVIOUS
<1>1. CASE \E l \in Toggled : GmailToggles(l) BY <1>1 DEF GmailToggles
<1>2. ASSUME NEW h \in Hooks, Synchronise(h) PROVE ~overlapped
  BY <1>2, StartsAlone
     DEF Synchronise, Deliver, ImportInbox, GetLabels, StoreLabels, HookFails
<1>3. ASSUME NEW r \in Requests, Request(r) PROVE ~overlapped
  BY <1>3, StartsAlone
     DEF Request, Patch, AddUserLabel, RemoveUserLabel, ReadForChange, ModifyGmail,
         WriteLabels, ReadForDelete, TrashInGmail, DropRow, RequestFails
<1>4. ASSUME NEW c \in Reconcilers, Reconcile(c) PROVE ~overlapped
  BY <1>4, StartsAlone
     DEF Reconcile, ListInbox, ReadInboxRows, DropInboxLabel, ReconcileFails
<1>5. CASE MakeStep
  BY <1>5, StartsAlone
     DEF MakeStep, MakeMessage, GetMade, StoreNew, StoreUpdated, StoreSent, StoresMade,
         MakeFails
<1>6. CASE UNCHANGED vars BY <1>6 DEF vars
<1> QED BY <1>1, <1>2, <1>3, <1>4, <1>5, <1>6 DEF Next

LEMMA LabelsStep == TypeOK /\ LInv /\ [Next]_vars => LInv'
<1> SUFFICES ASSUME TypeOK, LInv, [Next]_vars, ~overlapped' PROVE Alone' /\ InStep'
  BY DEF LInv
<1>0. ~overlapped /\ Alone /\ InStep BY OverlapStays DEF LInv
<1>1. ASSUME NEW l \in Toggled, GmailToggles(l) PROVE Alone' /\ InStep'
  <2>1. pending' BY <1>1 DEF GmailToggles, GmailBecomes
  <2>2. UNCHANGED <<row, hook, req, rec, make>> BY <1>1 DEF GmailToggles
  <2>3. Alone' BY <1>0, <2>2, AloneKept DEF Making
  <2>4. InStep' BY <1>0, <2>1, <2>2 DEF InStep
  <2> QED BY <2>3, <2>4
<1>2. ASSUME NEW h \in Hooks, Synchronise(h) PROVE Alone' /\ InStep'
  BY <1>0, <1>2, SyncStep
<1>3. ASSUME NEW r \in Requests, Request(r) PROVE Alone' /\ InStep'
  BY <1>0, <1>3, RequestStep
<1>4. ASSUME NEW c \in Reconcilers, Reconcile(c) PROVE Alone' /\ InStep'
  BY <1>0, <1>4, ReconcileStep
<1>5. CASE MakeStep BY <1>0, <1>5, MakingStep
<1>6. CASE UNCHANGED vars
  <2>1. UNCHANGED <<gmail, pending, row, hook, req, rec, make>> BY <1>6 DEF vars
  <2>2. Alone' BY <1>0, <2>1, AloneKept DEF Making
  <2>3. InStep' BY <1>0, <2>1 DEF InStep, Making, Synced
  <2> QED BY <2>2, <2>3
<1> QED BY <1>1, <1>2, <1>3, <1>4, <1>5, <1>6 DEF Next

LEMMA LabelsInit == Init => LInv
<1> SUFFICES ASSUME Init PROVE LInv
  OBVIOUS
<1>1. make.pc \in {"none", "ready"} /\ row \in {RowOf(gmail), NoRow}
  BY MakeInit DEF Init
<1>2. Alone BY <1>1 DEF Init, Alone, Making, HookIdle, ReqIdle, RecIdle
<1>3. InStep BY <1>1 DEF Init, InStep, Making, Synced, HookIdle, ReqIdle, RecIdle
<1> QED BY <1>2, <1>3 DEF LInv

\* The inductive invariant holds in every reachable state.
THEOREM LabelsInductive == Spec => []LInv
<1>1. Init => LInv BY LabelsInit
<1>2. TypeOK /\ LInv /\ [Next]_vars => LInv' BY LabelsStep
<1> QED BY <1>1, <1>2, TypeCorrect, PTL DEF Spec

\* Overlap is the only way to lose a label: PATCH, the labels route, deletion,
\* deliveries, imports, reconciliation and the calls that make a message keep a row
\* equal to Gmail's labels as long as none of them starts while another is running.
THEOREM SerialSafe == Spec => []SerialMirror
<1>1. TypeOK /\ LInv => SerialMirror
  BY DEF LInv, InStep, Making, Synced, SerialMirror, Busy, TypeOK
<1> QED BY <1>1, TypeCorrect, LabelsInductive, PTL

=============================================================================
