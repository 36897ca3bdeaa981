---------------------------- MODULE MessageLabels ---------------------------
(***************************************************************************)
(* The labels of one message, in Gmail and in its row, and everything that *)
(* reads or writes them:                                                   *)
(*   - deliveries and imports            webhook/gmail.ts, sync/index.ts   *)
(*   - PATCH and DELETE of the message   routes/messages/item.ts           *)
(*   - adding and removing a user label  routes/messages/labels.ts         *)
(*   - the inbox reconciliation          sync/index.ts                     *)
(*   - the calls that make the message   send/index.ts, routes/drafts      *)
(* A row carries label_ids and three columns derived from them: is_read,   *)
(* is_starred and status. Every writer reads before it writes, with a call *)
(* to Gmail in between and no transaction around it. A message keeps its   *)
(* id here: how a draft's row leaves one id for the next, or is deleted,   *)
(* is the subject of DraftLifecycle.                                       *)
(***************************************************************************)
EXTENDS Naturals

CONSTANTS
  UserLabels,    \* labels other than the protected ones
  Initial,       \* the label sets the message may start with
  Toggled,       \* labels the user changes in Gmail itself
  Bodies,        \* PATCH bodies that clients send
  Makings,       \* routes that make a message here, each with labels it gets
  Hooks,         \* deliveries and imports that may run at the same time
  Requests,      \* API requests that may run at the same time
  Reconcilers,   \* reconciliations that may run at the same time
  MaxChanges     \* bound: label changes the user makes in Gmail itself

ProtectedLabels == {"UNREAD", "STARRED", "INBOX", "SENT", "DRAFT", "TRASH"}
Labels == ProtectedLabels \cup UserLabels

\* A body turns some fields on and some off.
Fields == {"read", "starred", "archived", "trashed"}

\* POST /messages; POST, PATCH and send of a draft.
Routes == {"post", "draft", "update", "send"}

ASSUME LabelsAssumption ==
  /\ UserLabels \cap ProtectedLabels = {}
  /\ Initial \subseteq SUBSET Labels
  /\ Toggled \subseteq Labels
  /\ Bodies \subseteq [on : SUBSET Fields, off : SUBSET Fields]
  /\ Makings \subseteq [route : Routes, labels : SUBSET Labels]
  /\ MaxChanges \in Nat

VARIABLES
  gmail,       \* the message's labels in Gmail
  pending,     \* the next delta lists the message
  row,         \* its row in messages, or NoRow
  draftId,     \* the row has a draft_id
  hook,        \* hook[h]: state of a delivery or an import
  req,         \* req[r]: state of an API request
  rec,         \* rec[c]: state of a reconciliation
  make,        \* state of the call that makes the message
  changes,     \* changes made in Gmail itself
  overlapped,  \* history: some process started while another was running
  dropped      \* history: the row was deleted while the message was being made

vars == <<gmail, pending, row, draftId, hook, req, rec, make, changes, overlapped,
          dropped>>

(***************************************************************************)
(* Derived columns.                                                        *)
(***************************************************************************)
Statuses == {"draft", "trash", "sent", "archived", "inbox"}

\* The tests come in this order: a draft in the trash is a draft.
DeriveStatus(labels) ==
  IF "DRAFT" \in labels THEN "draft"
  ELSE IF "TRASH" \in labels THEN "trash"
  ELSE IF "SENT" \in labels THEN "sent"
  ELSE IF "INBOX" \notin labels THEN "archived"
  ELSE "inbox"

Columns(labels, read, starred, status) ==
  [labels |-> labels, isRead |-> read, isStarred |-> starred, status |-> status]

RowOf(labels) ==
  Columns(labels, "UNREAD" \notin labels, "STARRED" \in labels, DeriveStatus(labels))

NoRow == Columns({}, FALSE, FALSE, "none")

\* UPDATE of a row that is not there touches nothing and is no error.
UpdateRow(new) == row' = IF row = NoRow THEN NoRow ELSE new

HookIdle == [pc |-> "idle", owes |-> FALSE, got |-> {}]
ReqIdle  == [pc |-> "idle", add |-> {}, remove |-> {}, seen |-> {}]
RecIdle  == [pc |-> "idle", seen |-> {}]
NoMaking == [pc |-> "none", route |-> "none", got |-> {}]

\* The message is there, or is about to be made.
Init ==
  /\ \/ /\ make = NoMaking
        /\ gmail \in Initial
        /\ row \in {RowOf(gmail), NoRow}
        /\ draftId \in {FALSE, row.status = "draft"}
     \/ /\ \E m \in Makings :
             make = [pc |-> "ready", route |-> m.route, got |-> m.labels]
        /\ gmail = {} /\ row = NoRow /\ draftId = FALSE
  /\ pending = FALSE
  /\ hook = [h \in Hooks |-> HookIdle]
  /\ req = [r \in Requests |-> ReqIdle]
  /\ rec = [c \in Reconcilers |-> RecIdle]
  /\ changes = 0
  /\ overlapped = FALSE /\ dropped = FALSE

Making == make.pc \in {"get", "store"}

Busy ==
  \/ Making
  \/ \E h \in Hooks : hook[h].pc # "idle"
  \/ \E r \in Requests : req[r].pc # "idle"
  \/ \E c \in Reconcilers : rec[c].pc # "idle"

Starts == overlapped' = (overlapped \/ Busy)

(***************************************************************************)
(* Gmail.                                                                  *)
(***************************************************************************)

\* The labels change; a change reaches the next delta.
GmailBecomes(labels) ==
  /\ gmail' = labels
  /\ pending' = (pending \/ labels # gmail)

\* The user adds or removes one label in Gmail itself; trash is not in the inbox.
GmailToggles(l) ==
  /\ changes < MaxChanges /\ make.pc # "ready"
  /\ changes' = changes + 1
  /\ GmailBecomes(IF l \in gmail THEN gmail \ {l}
                  ELSE (gmail \cup {l}) \ (IF l = "TRASH" THEN {"INBOX"} ELSE {}))
  /\ UNCHANGED <<row, draftId, hook, req, rec, make, overlapped, dropped>>

(***************************************************************************)
(* Deliveries and imports. A delivery owes the change it was started for:  *)
(* when it stops half way, the next delta lists the message again.         *)
(***************************************************************************)
Deliver(h) ==
  /\ hook[h].pc = "idle" /\ pending
  /\ pending' = FALSE
  /\ hook' = [hook EXCEPT ![h] = [pc |-> "get", owes |-> TRUE, got |-> {}]]
  /\ Starts
  /\ UNCHANGED <<gmail, row, draftId, req, rec, make, changes, dropped>>

\* Initial sync and backfill list INBOX, whatever the delta says.
ImportInbox(h) ==
  /\ hook[h].pc = "idle" /\ "INBOX" \in gmail
  /\ hook' = [hook EXCEPT ![h] = [pc |-> "get", owes |-> FALSE, got |-> {}]]
  /\ Starts
  /\ UNCHANGED <<gmail, pending, row, draftId, req, rec, make, changes, dropped>>

GetLabels(h) ==
  /\ hook[h].pc = "get"
  /\ hook' = [hook EXCEPT ![h] =
       [pc |-> "store", owes |-> hook[h].owes, got |-> gmail]]
  /\ UNCHANGED <<gmail, pending, row, draftId, req, rec, make, changes, overlapped, dropped>>

\* normalizeMessage and the upsert: a missing row is inserted, a draft_id is kept.
StoreLabels(h) ==
  /\ hook[h].pc = "store"
  /\ row' = RowOf(hook[h].got)
  /\ hook' = [hook EXCEPT ![h] = HookIdle]
  /\ UNCHANGED <<gmail, pending, draftId, req, rec, make, changes, overlapped, dropped>>

HookFails(h) ==
  /\ hook[h].pc # "idle"
  /\ pending' = (pending \/ hook[h].owes)
  /\ hook' = [hook EXCEPT ![h] = HookIdle]
  /\ UNCHANGED <<gmail, row, draftId, req, rec, make, changes, overlapped, dropped>>

(***************************************************************************)
(* PATCH /api/v1/messages/:id and POST, DELETE .../labels: read the row,   *)
(* modify Gmail, then write what the row read would have become.           *)
(***************************************************************************)

\* Mutant: there is a label READ beside UNREAD.
AddLabels_ReadLabel(body) ==
  (IF "read"     \in body.off THEN {"UNREAD"} ELSE {}) \cup
  (IF "read"     \in body.on  THEN {"READ"} ELSE {})

AddLabels(body) ==
  (IF "read"     \in body.off THEN {"UNREAD"} ELSE {}) \cup
  (IF "starred"  \in body.on  THEN {"STARRED"} ELSE {}) \cup
  (IF "archived" \in body.off THEN {"INBOX"} ELSE {}) \cup
  (IF "trashed"  \in body.on  THEN {"TRASH"} ELSE {})

\* Archiving takes SENT away too, if the row has it.
RemoveLabels(body, labels) ==
  (IF "read"     \in body.on  THEN {"UNREAD"} ELSE {}) \cup
  (IF "starred"  \in body.off THEN {"STARRED"} ELSE {}) \cup
  (IF "archived" \in body.on  THEN {"INBOX"} \cup (labels \cap {"SENT"}) ELSE {}) \cup
  (IF "trashed"  \in body.on  THEN {"INBOX"} ELSE {}) \cup
  (IF "trashed"  \in body.off THEN {"TRASH"} ELSE {})

\* The fields that hold of a row.
Holds(r) ==
  {f \in Fields : \/ f = "read" /\ r.isRead
                  \/ f = "starred" /\ r.isStarred
                  \/ f = "archived" /\ r.status = "archived"
                  \/ f = "trashed" /\ r.status = "trash"}

AlreadyInState(body) == body.on \subseteq Holds(row) /\ body.off \cap Holds(row) = {}

ReadForChange(r, add, remove) ==
  /\ req[r].pc = "idle" /\ row # NoRow
  /\ req' = [req EXCEPT ![r] =
       [pc |-> "modify", add |-> add, remove |-> remove, seen |-> row.labels]]
  /\ Starts
  /\ UNCHANGED <<gmail, pending, row, draftId, hook, rec, make, changes, dropped>>

Patch(r, body) ==
  /\ body.on \cup body.off # {} /\ ~AlreadyInState(body)
  /\ ReadForChange(r, AddLabels(body), RemoveLabels(body, row.labels))

AddUserLabel(r, l) == l \notin row.labels /\ ReadForChange(r, {l}, {})

RemoveUserLabel(r, l) == l \in row.labels /\ ReadForChange(r, {}, {l})

\* Gmail refuses to add and remove the same label in one call (RequestFails).
ModifyGmail(r) ==
  /\ req[r].pc = "modify" /\ req[r].add \cap req[r].remove = {}
  /\ GmailBecomes((gmail \cup req[r].add) \ req[r].remove)
  /\ req' = [req EXCEPT ![r].pc = "write"]
  /\ UNCHANGED <<row, draftId, hook, rec, make, changes, overlapped, dropped>>

\* Mutant: the row is written before Gmail has been asked.
WriteLabels_Early(r) ==
  /\ req[r].pc \in {"modify", "write"}
  /\ UpdateRow(RowOf((req[r].seen \cup req[r].add) \ req[r].remove))
  /\ req' = [req EXCEPT ![r] = ReqIdle]
  /\ UNCHANGED <<gmail, pending, draftId, hook, rec, make, changes, overlapped, dropped>>

\* The new label set comes from the row read at the start.
WriteLabels(r) ==
  /\ req[r].pc = "write"
  /\ UpdateRow(RowOf((req[r].seen \cup req[r].add) \ req[r].remove))
  /\ req' = [req EXCEPT ![r] = ReqIdle]
  /\ UNCHANGED <<gmail, pending, draftId, hook, rec, make, changes, overlapped, dropped>>

(***************************************************************************)
(* DELETE /api/v1/messages/:id: not for drafts, which have a draft_id or   *)
(* the status; Gmail is not asked when the row says that the message is in *)
(* the trash already.                                                      *)
(***************************************************************************)
ReadForDelete(r) ==
  /\ req[r].pc = "idle" /\ row # NoRow /\ row.status # "draft" /\ ~draftId
  /\ req' = [req EXCEPT ![r].pc = IF row.status = "trash" THEN "drop" ELSE "trash"]
  /\ Starts
  /\ UNCHANGED <<gmail, pending, row, draftId, hook, rec, make, changes, dropped>>

TrashInGmail(r) ==
  /\ req[r].pc = "trash"
  /\ GmailBecomes((gmail \cup {"TRASH"}) \ {"INBOX"})
  /\ req' = [req EXCEPT ![r].pc = "drop"]
  /\ UNCHANGED <<row, draftId, hook, rec, make, changes, overlapped, dropped>>

DropRow(r) ==
  /\ req[r].pc = "drop"
  /\ row' = NoRow /\ draftId' = FALSE
  /\ req' = [req EXCEPT ![r] = ReqIdle]
  /\ dropped' = (dropped \/ Making)
  /\ UNCHANGED <<gmail, pending, hook, rec, make, changes, overlapped>>

\* Any call of a request fails or is never made.
RequestFails(r) ==
  /\ req[r].pc # "idle"
  /\ req' = [req EXCEPT ![r] = ReqIdle]
  /\ UNCHANGED <<gmail, pending, row, draftId, hook, rec, make, changes, overlapped, dropped>>

(***************************************************************************)
(* reconcileInbox: list Gmail's INBOX, read the rows tagged INBOX, take    *)
(* the label off those that were not listed.                               *)
(***************************************************************************)

\* Only a listing without the message can lead to a write.
ListInbox(c) ==
  /\ rec[c].pc = "idle" /\ "INBOX" \notin gmail
  /\ rec' = [rec EXCEPT ![c].pc = "rows"]
  /\ Starts
  /\ UNCHANGED <<gmail, pending, row, draftId, hook, req, make, changes, dropped>>

\* getInboxMessageRows.
ReadInboxRows(c) ==
  /\ rec[c].pc = "rows"
  /\ rec' = [rec EXCEPT ![c] =
       IF row # NoRow /\ "INBOX" \in row.labels
       THEN [pc |-> "write", seen |-> row.labels] ELSE RecIdle]
  /\ UNCHANGED <<gmail, pending, row, draftId, hook, req, make, changes, overlapped, dropped>>

\* Mutant: the status keeps the value it had while the message was in INBOX.
DropInboxLabel_KeepsStatus(c) ==
  /\ rec[c].pc = "write"
  /\ UpdateRow([row EXCEPT !.labels = rec[c].seen \ {"INBOX"}])
  /\ rec' = [rec EXCEPT ![c] = RecIdle]
  /\ UNCHANGED <<gmail, pending, draftId, hook, req, make, changes, overlapped, dropped>>

\* updateMessageLabels writes label_ids and status and leaves the two flags.
DropInboxLabel(c) ==
  /\ rec[c].pc = "write"
  /\ LET labels == rec[c].seen \ {"INBOX"}
     IN  UpdateRow([row EXCEPT !.labels = labels, !.status = DeriveStatus(labels)])
  /\ rec' = [rec EXCEPT ![c] = RecIdle]
  /\ UNCHANGED <<gmail, pending, draftId, hook, req, make, changes, overlapped, dropped>>

ReconcileFails(c) ==
  /\ rec[c].pc # "idle"
  /\ rec' = [rec EXCEPT ![c] = RecIdle]
  /\ UNCHANGED <<gmail, pending, row, draftId, hook, req, make, changes, overlapped, dropped>>

(***************************************************************************)
(* The calls that make the message: send it or create, update or send a    *)
(* draft in Gmail, get what Gmail has made of it, store that. drafts.update *)
(* answers with the id only, and the draft's row takes it as it is.        *)
(***************************************************************************)
MakeMessage ==
  /\ make.pc = "ready"
  /\ gmail' = IF make.route = "update" THEN {"DRAFT"} ELSE make.got
  /\ pending' = TRUE
  /\ make' = [make EXCEPT !.pc = IF make.route = "update" THEN "store" ELSE "get"]
  /\ Starts
  /\ UNCHANGED <<row, draftId, hook, req, rec, changes, dropped>>

GetMade ==
  /\ make.pc = "get"
  /\ make' = [make EXCEPT !.pc = "store", !.got = gmail]
  /\ UNCHANGED <<gmail, pending, row, draftId, hook, req, rec, changes, overlapped, dropped>>

StoresMade(new, id) ==
  /\ make.pc = "store"
  /\ row' = new /\ draftId' = id
  /\ make' = NoMaking
  /\ UNCHANGED <<gmail, pending, hook, req, rec, changes, overlapped, dropped>>

\* POST /messages and POST /drafts: the upsert of a normalised message.
StoreNew ==
  /\ make.route \in {"post", "draft"}
  /\ StoresMade(RowOf(make.got), make.route = "draft" \/ draftId)

\* PATCH and send of a draft rename its row. When a delivery has stored the new id
\* first, the unique index on gmail_id refuses (MakeFails).
StoreUpdated ==
  /\ make.route = "update" /\ row = NoRow
  /\ StoresMade(RowOf(make.got), TRUE)

\* The status is 'sent' whatever the labels are.
StoreSent ==
  /\ make.route = "send" /\ row = NoRow
  /\ StoresMade(Columns(make.got, "UNREAD" \notin make.got, "STARRED" \in make.got, "sent"),
                FALSE)

\* A call fails, the index refuses, or the draft's row is no longer there.
MakeFails ==
  /\ Making
  /\ make' = NoMaking
  /\ UNCHANGED <<gmail, pending, row, draftId, hook, req, rec, changes, overlapped, dropped>>

MakeStep ==
  MakeMessage \/ GetMade \/ StoreNew \/ StoreUpdated \/ StoreSent \/ MakeFails

Synchronise(h) ==
  \/ Deliver(h) \/ ImportInbox(h) \/ GetLabels(h) \/ StoreLabels(h) \/ HookFails(h)

Request(r) ==
  \/ \E body \in Bodies : Patch(r, body)
  \/ \E l \in UserLabels : AddUserLabel(r, l)
  \/ \E l \in UserLabels : RemoveUserLabel(r, l)
  \/ ModifyGmail(r) \/ WriteLabels(r)
  \/ ReadForDelete(r) \/ TrashInGmail(r) \/ DropRow(r)
  \/ RequestFails(r)

Reconcile(c) ==
  \/ ListInbox(c) \/ ReadInboxRows(c) \/ DropInboxLabel(c) \/ ReconcileFails(c)

Next ==
  \/ \E l \in Toggled : GmailToggles(l)
  \/ \E h \in Hooks : Synchronise(h)
  \/ \E r \in Requests : Request(r)
  \/ \E c \in Reconcilers : Reconcile(c)
  \/ MakeStep

Spec == Init /\ [][Next]_vars

(***************************************************************************)
(* Properties                                                              *)
(***************************************************************************)
RowType ==
  [labels : SUBSET Labels, isRead : BOOLEAN, isStarred : BOOLEAN,
   status : Statuses \cup {"none"}]

RequestState ==
  [pc : {"idle", "modify", "write", "trash", "drop"}, add : SUBSET Labels,
   remove : SUBSET Labels, seen : SUBSET Labels]

\* Type invariant.
TypeOK ==
  /\ gmail \subseteq Labels /\ pending \in BOOLEAN
  /\ row \in RowType /\ draftId \in BOOLEAN
  /\ hook \in [Hooks -> [pc : {"idle", "get", "store"}, owes : BOOLEAN,
                         got : SUBSET Labels]]
  /\ req \in [Requests -> RequestState]
  /\ rec \in [Reconcilers -> [pc : {"idle", "rows", "write"}, seen : SUBSET Labels]]
  /\ make \in [pc : {"none", "ready", "get", "store"}, route : Routes \cup {"none"},
              got : SUBSET Labels]
  /\ changes \in Nat /\ overlapped \in BOOLEAN /\ dropped \in BOOLEAN

\* A delivery of the message is still to come or under way.
Owed == pending \/ \E h \in Hooks : hook[h].pc # "idle" /\ hook[h].owes

\* However the writers interleave and fail, the status a client sees is the one its
\* label set stands for (deriveStatus). The one writer that does not derive it, the
\* send of a draft, can only leave it wrong as 'sent' and for as long as a delivery,
\* which will repair it, is owed; unless the row of a delivery that came first has
\* been deleted while the send was under way, when nothing may be owed any more.
StatusCoherent ==
  row # NoRow /\ row.status # DeriveStatus(row.labels) =>
    row.status = "sent" /\ (Owed \/ dropped)

\* normalize.ts has deriveStatus "called at write time": the status is the one its label
\* set stands for, whoever wrote it.
StatusDerived == row # NoRow => row.status = DeriveStatus(row.labels)

\* Overlap is the only way to lose a label: as long as no process has started
\* while another was running, a row is equal to Gmail's labels, derived columns
\* included, as soon as everything is idle and nothing is left to deliver. Label
\* changes in Gmail may fall between any two steps, and any step may fail.
SerialMirror == ~overlapped /\ ~Busy /\ ~pending /\ row # NoRow => row = RowOf(gmail)

\* labels.ts keeps protected labels to PATCH "so the derived fields stay
\* coherent", and 001_initial_schema.sql gives the rule of both flags: they follow
\* the stored labels whenever nothing is running and nothing is to be delivered.
FlagsCoherent ==
  ~Busy /\ ~pending /\ row # NoRow =>
    /\ row.isRead = ("UNREAD" \notin row.labels)
    /\ row.isStarred = ("STARRED" \in row.labels)

(***************************************************************************)
(* The inductive invariants. Behind StatusCoherent: a send that could still *)
(* store its row is owed a delivery. Behind SerialMirror: while processes   *)
(* have not overlapped, at most one is running, and either the next delta   *)
(* lists the message or the row is Gmail's; InStep says what the running    *)
(* one adds.                                                                *)
(***************************************************************************)
StatusInv ==
  /\ StatusCoherent
  /\ Making /\ make.route = "send" /\ row = NoRow => Owed \/ dropped

Alone ==
  /\ \A h, g \in Hooks : hook[h].pc # "idle" /\ hook[g].pc # "idle" => h = g
  /\ \A r, q \in Requests : req[r].pc # "idle" /\ req[q].pc # "idle" => r = q
  /\ \A c, d \in Reconcilers : rec[c].pc # "idle" /\ rec[d].pc # "idle" => c = d
  /\ \A h \in Hooks, r \in Requests : hook[h].pc = "idle" \/ req[r].pc = "idle"
  /\ \A h \in Hooks, c \in Reconcilers : hook[h].pc = "idle" \/ rec[c].pc = "idle"
  /\ \A r \in Requests, c \in Reconcilers : req[r].pc = "idle" \/ rec[c].pc = "idle"
  /\ Making => /\ \A h \in Hooks : hook[h].pc = "idle"
               /\ \A r \in Requests : req[r].pc = "idle"
               /\ \A c \in Reconcilers : rec[c].pc = "idle"

\* A delivery in progress has taken the message off the delta.
Synced ==
  row = NoRow \/ row = RowOf(gmail) \/ \E h \in Hooks : hook[h].pc # "idle" /\ hook[h].owes

InStep ==
  /\ ~pending => Synced
  /\ Making => pending
  /\ \A h \in Hooks : hook[h].pc = "store" /\ ~pending => hook[h].got = gmail
  /\ \A r \in Requests :
       /\ req[r].pc \in {"modify", "write"} /\ ~pending => req[r].seen = gmail
       /\ req[r].pc = "write" /\ ~pending =>
            (gmail \cup req[r].add) \ req[r].remove = gmail
  /\ \A c \in Reconcilers :
       /\ rec[c].pc = "rows" /\ ~pending => "INBOX" \notin gmail
       /\ rec[c].pc = "write" => pending

LInv == ~overlapped => Alone /\ InStep

=============================================================================
