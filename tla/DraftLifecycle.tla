--------------------------- MODULE DraftLifecycle ---------------------------
(***************************************************************************)
(* One draft, from drafts.create to its end: the Gmail draft, the rows of  *)
(* messages that stand for it, and everything that changes either:         *)
(*   - POST /api/v1/drafts               routes/drafts/collection.ts       *)
(*   - PATCH, DELETE /api/v1/drafts/:id  routes/drafts/item.ts             *)
(*   - POST /api/v1/drafts/:id/send      routes/drafts/send.ts             *)
(*   - the push webhook                  webhook/gmail.ts                  *)
(*   - the user, in Gmail itself                                           *)
(* The draft has one Gmail draft id for life; drafts.update and drafts.send *)
(* each give it a new message id. The routes are addressed by the message  *)
(* id of a row, and gmail_id is unique among the rows.                     *)
(***************************************************************************)
EXTENDS Integers

CONSTANTS
  MaxId,      \* bound: message ids Gmail hands out
  Hooks,      \* webhook deliveries that may run at the same time
  Requests    \* API requests that may run at the same time

ASSUME DraftAssumption == MaxId \in Nat

VARIABLES
  lastId,       \* message ids handed out so far: 1 .. lastId
  draftMsg,     \* message id of the Gmail draft; 0: there is no draft
  sentMsg,      \* message id it was sent as; 0: not sent
  undelivered,  \* message ids a delta still lists
  rows,         \* rows[g]: the row whose gmail_id is g, or NoRow
  hook,         \* hook[h]: state of a delivery
  req,          \* req[r]: state of an API request
  clean         \* history: no overlap, no failed call, nothing done in Gmail itself

vars == <<lastId, draftMsg, sentMsg, undelivered, rows, hook, req, clean>>

Ids == 1..MaxId

Row(status, draftId) == [status |-> status, draftId |-> draftId]
NoRow == Row("none", FALSE)

HookIdle == [pc |-> "idle", id |-> 0, got |-> "none"]
ReqIdle  == [op |-> "none", pc |-> "idle", gid |-> 0, new |-> 0]

\* Nothing yet; or a draft that is mirrored, by POST or by the webhook.
Init ==
  /\ lastId \in {0, 1} /\ lastId <= MaxId
  /\ draftMsg = lastId
  /\ sentMsg = 0
  /\ undelivered = {}
  /\ \E draftId \in BOOLEAN :
       rows = [g \in Ids |-> IF g = draftMsg THEN Row("draft", draftId) ELSE NoRow]
  /\ hook = [h \in Hooks |-> HookIdle]
  /\ req = [r \in Requests |-> ReqIdle]
  /\ clean = TRUE

Busy ==
  (\E h \in Hooks : hook[h].pc # "idle") \/ (\E r \in Requests : req[r].pc # "idle")

Starts == clean' = (clean /\ ~Busy)

Goes(r, pc) == req' = [req EXCEPT ![r].pc = pc]

Ends(r) == req' = [req EXCEPT ![r] = ReqIdle]

(***************************************************************************)
(* Gmail.                                                                  *)
(***************************************************************************)

\* A message id that no message had before, announced to the webhook.
HandOutId ==
  /\ lastId < MaxId
  /\ lastId' = lastId + 1
  /\ undelivered' = undelivered \cup {lastId'}

\* The user edits, sends or deletes the draft in Gmail itself.
GmailEdits ==
  /\ draftMsg # 0
  /\ HandOutId
  /\ draftMsg' = lastId'
  /\ clean' = FALSE
  /\ UNCHANGED <<sentMsg, rows, hook, req>>

GmailSends ==
  /\ draftMsg # 0
  /\ HandOutId
  /\ draftMsg' = 0 /\ sentMsg' = lastId'
  /\ clean' = FALSE
  /\ UNCHANGED <<rows, hook, req>>

GmailDiscards ==
  /\ draftMsg # 0
  /\ draftMsg' = 0
  /\ clean' = FALSE
  /\ UNCHANGED <<lastId, sentMsg, undelivered, rows, hook, req>>

(***************************************************************************)
(* The webhook. A message id leaves the delta when it has been dealt with: *)
(* a delivery that fails is followed by another.                           *)
(***************************************************************************)
Deliver(h, id) ==
  /\ hook[h].pc = "idle" /\ id \in undelivered
  /\ hook' = [hook EXCEPT ![h] = [pc |-> "get", id |-> id, got |-> "none"]]
  /\ Starts
  /\ UNCHANGED <<lastId, draftMsg, sentMsg, undelivered, rows, req>>

GetMessage(h) ==
  /\ hook[h].pc = "get" /\ hook[h].id \in {draftMsg, sentMsg}
  /\ hook' = [hook EXCEPT ![h] =
       [pc |-> "store", id |-> hook[h].id,
        got |-> IF hook[h].id = sentMsg THEN "sent" ELSE "draft"]]
  /\ UNCHANGED <<lastId, draftMsg, sentMsg, undelivered, rows, req, clean>>

\* messages.get answers 404: another message id has taken its place.
SkipMissing(h) ==
  /\ hook[h].pc = "get" /\ hook[h].id \notin {draftMsg, sentMsg}
  /\ undelivered' = undelivered \ {hook[h].id}
  /\ hook' = [hook EXCEPT ![h] = HookIdle]
  /\ UNCHANGED <<lastId, draftMsg, sentMsg, rows, req, clean>>

\* The upsert by gmail_id leaves draft_id alone; an inserted row has none.
StoreMessage(h) ==
  /\ hook[h].pc = "store"
  /\ rows' = [rows EXCEPT ![hook[h].id].status = hook[h].got]
  /\ undelivered' = undelivered \ {hook[h].id}
  /\ hook' = [hook EXCEPT ![h] = HookIdle]
  /\ UNCHANGED <<lastId, draftMsg, sentMsg, req, clean>>

HookFails(h) ==
  /\ hook[h].pc # "idle"
  /\ hook' = [hook EXCEPT ![h] = HookIdle]
  /\ clean' = FALSE
  /\ UNCHANGED <<lastId, draftMsg, sentMsg, undelivered, rows, req>>

(***************************************************************************)
(* POST /api/v1/drafts                                                     *)
(***************************************************************************)
CreateDraft(r) ==
  /\ req[r].pc = "idle" /\ lastId = 0
  /\ HandOutId
  /\ draftMsg' = lastId'
  /\ req' = [req EXCEPT ![r] = [op |-> "create", pc |-> "get", gid |-> 0, new |-> lastId']]
  /\ Starts
  /\ UNCHANGED <<sentMsg, rows, hook>>

GetCreated(r) ==
  /\ req[r].pc = "get" /\ req[r].new = draftMsg
  /\ Goes(r, "store")
  /\ UNCHANGED <<lastId, draftMsg, sentMsg, undelivered, rows, hook, clean>>

\* An upsert: the webhook may have inserted the row already.
StoreCreated(r) ==
  /\ req[r].pc = "store" /\ req[r].op = "create"
  /\ rows' = [rows EXCEPT ![req[r].new] = Row("draft", TRUE)]
  /\ Ends(r)
  /\ UNCHANGED <<lastId, draftMsg, sentMsg, undelivered, hook, clean>>

(***************************************************************************)
(* PATCH and DELETE /api/v1/drafts/:id, POST /api/v1/drafts/:id/send       *)
(***************************************************************************)

\* Mutant: the request goes on without a row.
ReadDraft_NoRow(r, op, g) ==
  /\ req[r].pc = "idle"
  /\ req' = [req EXCEPT ![r] = [op |-> op, pc |-> "resolve", gid |-> g, new |-> 0]]
  /\ Starts
  /\ UNCHANGED <<lastId, draftMsg, sentMsg, undelivered, rows, hook>>

\* The row is read; a null draft_id is looked up in Gmail.
ReadDraft(r, op, g) ==
  /\ req[r].pc = "idle" /\ rows[g].status = "draft"
  /\ req' = [req EXCEPT ![r] =
       [op |-> op, pc |-> IF rows[g].draftId THEN "call" ELSE "resolve",
        gid |-> g, new |-> 0]]
  /\ Starts
  /\ UNCHANGED <<lastId, draftMsg, sentMsg, undelivered, rows, hook>>

\* resolveDraftId: the draft whose message has this id.
ResolveDraftId(r) ==
  /\ req[r].pc = "resolve" /\ draftMsg = req[r].gid
  /\ Goes(r, "call")
  /\ UNCHANGED <<lastId, draftMsg, sentMsg, undelivered, rows, hook, clean>>

\* No such draft: DELETE removes the orphaned row, the others answer 404.
ResolveNothing(r) ==
  /\ req[r].pc = "resolve" /\ draftMsg # req[r].gid
  /\ IF req[r].op = "delete" THEN Goes(r, "drop") ELSE Ends(r)
  /\ UNCHANGED <<lastId, draftMsg, sentMsg, undelivered, rows, hook, clean>>

\* drafts.update replaces the message by one with a new id.
UpdateInGmail(r) ==
  /\ req[r].pc = "call" /\ req[r].op = "update" /\ draftMsg # 0
  /\ HandOutId
  /\ draftMsg' = lastId'
  /\ req' = [req EXCEPT ![r].pc = "store", ![r].new = lastId']
  /\ UNCHANGED <<sentMsg, rows, hook, clean>>

\* drafts.send, and messages.get of the message it became.
SendInGmail(r) ==
  /\ req[r].pc = "call" /\ req[r].op = "send" /\ draftMsg # 0
  /\ HandOutId
  /\ draftMsg' = 0 /\ sentMsg' = lastId'
  /\ req' = [req EXCEPT ![r].pc = "store", ![r].new = lastId']
  /\ UNCHANGED <<rows, hook, clean>>

\* The draft is gone in Gmail: 404.
DraftIsGone(r) ==
  /\ req[r].pc = "call" /\ req[r].op \in {"update", "send"} /\ draftMsg = 0
  /\ Ends(r)
  /\ UNCHANGED <<lastId, draftMsg, sentMsg, undelivered, rows, hook, clean>>

\* Mutant: any error of drafts.delete counts as already deleted.
DeleteInGmail_IgnoresErrors(r) ==
  /\ req[r].pc = "call" /\ req[r].op = "delete"
  /\ draftMsg' \in {0, draftMsg}
  /\ Goes(r, "drop")
  /\ UNCHANGED <<lastId, sentMsg, undelivered, rows, hook, clean>>

\* A draft that is gone already (404) is no error.
DeleteInGmail(r) ==
  /\ req[r].pc = "call" /\ req[r].op = "delete"
  /\ draftMsg' = 0
  /\ Goes(r, "drop")
  /\ UNCHANGED <<lastId, sentMsg, undelivered, rows, hook, clean>>

\* UPDATE ... WHERE gmail_id = old: no row, no effect; gmail_id must stay unique.
Rename(old, new, row) ==
  IF rows[old] = NoRow THEN rows' = rows
  ELSE /\ rows[new] = NoRow
       /\ rows' = [rows EXCEPT ![old] = NoRow, ![new] = row]

\* Mutant: the row keeps the id of the message it replaced.
StoreUpdated_KeepsId(r) ==
  /\ req[r].pc = "store" /\ req[r].op = "update"
  /\ rows' = [rows EXCEPT ![req[r].gid].draftId = rows[req[r].gid] # NoRow]
  /\ Ends(r)
  /\ UNCHANGED <<lastId, draftMsg, sentMsg, undelivered, hook, clean>>

\* The resolved draft id is stored as well.
StoreUpdated(r) ==
  /\ req[r].pc = "store" /\ req[r].op = "update"
  /\ Rename(req[r].gid, req[r].new, Row(rows[req[r].gid].status, TRUE))
  /\ Ends(r)
  /\ UNCHANGED <<lastId, draftMsg, sentMsg, undelivered, hook, clean>>

\* Mutant: draft_id is not cleared.
StoreSent_KeepsDraftId(r) ==
  /\ req[r].pc = "store" /\ req[r].op = "send"
  /\ Rename(req[r].gid, req[r].new, Row("sent", rows[req[r].gid].draftId))
  /\ Ends(r)
  /\ UNCHANGED <<lastId, draftMsg, sentMsg, undelivered, hook, clean>>

StoreSent(r) ==
  /\ req[r].pc = "store" /\ req[r].op = "send"
  /\ Rename(req[r].gid, req[r].new, Row("sent", FALSE))
  /\ Ends(r)
  /\ UNCHANGED <<lastId, draftMsg, sentMsg, undelivered, hook, clean>>

DropRow(r) ==
  /\ req[r].pc = "drop"
  /\ rows' = [rows EXCEPT ![req[r].gid] = NoRow]
  /\ Ends(r)
  /\ UNCHANGED <<lastId, draftMsg, sentMsg, undelivered, hook, clean>>

\* The unique index refuses the new gmail_id: the route answers 502.
IdTaken(r) ==
  /\ req[r].pc = "store" /\ req[r].op \in {"update", "send"}
  /\ rows[req[r].gid] # NoRow /\ rows[req[r].new] # NoRow
  /\ Ends(r)
  /\ UNCHANGED <<lastId, draftMsg, sentMsg, undelivered, rows, hook, clean>>

\* Any other call fails or is never made.
RequestFails(r) ==
  /\ req[r].pc # "idle"
  /\ Ends(r)
  /\ clean' = FALSE
  /\ UNCHANGED <<lastId, draftMsg, sentMsg, undelivered, rows, hook>>

Delivery(h) ==
  \/ \E id \in undelivered : Deliver(h, id)
  \/ GetMessage(h) \/ SkipMissing(h) \/ StoreMessage(h)

Create(r) == CreateDraft(r) \/ GetCreated(r) \/ StoreCreated(r)

Handle(r) ==
  \/ \E op \in {"update", "delete", "send"}, g \in Ids : ReadDraft(r, op, g)
  \/ ResolveDraftId(r) \/ ResolveNothing(r)
  \/ UpdateInGmail(r) \/ SendInGmail(r) \/ DraftIsGone(r) \/ DeleteInGmail(r)
  \/ StoreUpdated(r) \/ StoreSent(r) \/ DropRow(r) \/ IdTaken(r)

Undisturbed ==
  \/ \E h \in Hooks : Delivery(h)
  \/ \E r \in Requests : Create(r) \/ Handle(r)

Next ==
  \/ Undisturbed
  \/ GmailEdits \/ GmailSends \/ GmailDiscards
  \/ \E h \in Hooks : HookFails(h)
  \/ \E r \in Requests : RequestFails(r)

Spec == Init /\ [][Next]_vars

(***************************************************************************)
(* Properties                                                              *)
(***************************************************************************)
Statuses == {"none", "draft", "sent"}

RowState == [status : Statuses, draftId : BOOLEAN]

HookState == [pc : {"idle", "get", "store"}, id : 0..lastId, got : Statuses]

RequestState ==
  [op : {"none", "create", "update", "delete", "send"},
   pc : {"idle", "get", "resolve", "call", "store", "drop"},
   gid : 0..lastId, new : 0..lastId]

\* Type invariant.
TypeOK ==
  /\ lastId \in 0..MaxId
  /\ draftMsg \in 0..lastId /\ sentMsg \in 0..lastId
  /\ undelivered \subseteq 1..lastId
  /\ rows \in [Ids -> RowState]
  /\ \A g \in Ids : rows[g] # NoRow => g <= lastId
  /\ hook \in [Hooks -> HookState]
  /\ req \in [Requests -> RequestState]
  /\ clean \in BOOLEAN

\* routes/messages/item.ts refuses drafts "so a draft is never orphaned in Gmail
\* while its row disappears": as long as Gmail has the draft, the row of its
\* current message is there or still to be delivered, whatever requests and
\* deliveries overlap or fail.
DraftReachable == draftMsg # 0 => draftMsg \in undelivered \/ rows[draftMsg] # NoRow

\* A sent draft is recorded as sent or still to be delivered, and CONTRACT.md's
\* rule for draftId holds: null for every message that is not a draft; no row
\* claims to be sent that was not.
SentRecorded ==
  /\ sentMsg # 0 => sentMsg \in undelivered \/ rows[sentMsg] = Row("sent", FALSE)
  /\ \A g \in Ids : rows[g].status = "sent" => g = sentMsg /\ ~rows[g].draftId

Quiet == ~Busy /\ undelivered = {}

\* Without overlap, failure or changes in Gmail itself the mirror is exact: one
\* row for the draft or for the message it was sent as, and no other.
SerialDrafts ==
  clean /\ Quiet => {g \in Ids : rows[g] # NoRow} = {draftMsg, sentMsg} \ {0}

\* item.ts stores the new message id so that the row is "updated in-place" and the
\* webhook does not insert "a duplicate row".
NoDuplicateRow ==
  Quiet => \A g, k \in Ids : rows[g].status = "draft" /\ rows[k].status = "draft" => g = k

(***************************************************************************)
(* The inductive invariant: what requests and deliveries know of the ids   *)
(* they hold. Ids are fresh, so an id that has stopped being the draft's   *)
(* message never is again, and an id that was not sent never will be.      *)
(***************************************************************************)
IdsKnown ==
  /\ draftMsg # 0 => sentMsg = 0
  /\ \A g \in Ids : rows[g] # NoRow => rows[g].status # "none"
  /\ \A g \in Ids : rows[g].status = "draft" => g # sentMsg

HookKnows(h) ==
  /\ hook[h].pc # "idle" => hook[h].id \in Ids
  /\ hook[h].pc = "store" =>
       /\ hook[h].got # "none"
       /\ hook[h].got = "sent" <=> hook[h].id = sentMsg

RequestKnows(r) ==
  /\ req[r].pc # "idle" => req[r].op # "none"
  /\ req[r].pc # "idle" /\ req[r].op # "create" =>
       req[r].gid \in Ids /\ req[r].gid # sentMsg
  /\ req[r].pc \in {"get", "store"} => req[r].new \in Ids
  /\ req[r].pc = "get" => req[r].op = "create"
  /\ req[r].pc \in {"get", "store"} /\ req[r].op # "send" => req[r].new # sentMsg
  /\ req[r].pc = "store" /\ req[r].op = "send" => req[r].new = sentMsg
  /\ req[r].pc = "store" /\ req[r].op # "create" =>
       req[r].gid < req[r].new /\ req[r].gid # draftMsg
  /\ req[r].pc = "drop" => req[r].op = "delete" /\ req[r].gid # draftMsg

DInv ==
  /\ IdsKnown
  /\ \A h \in Hooks : HookKnows(h)
  /\ \A r \in Requests : RequestKnows(r)
  /\ DraftReachable
  /\ SentRecorded

=============================================================================
