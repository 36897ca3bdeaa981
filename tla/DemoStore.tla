------------------------------ MODULE DemoStore -----------------------------
(***************************************************************************)
(* The in-memory API of the public demo (src/app/lib/demo-store.ts), which *)
(* stands in for the server "without the app knowing the difference": what *)
(* each route makes of a row, and of the store, a function from message    *)
(* ids to rows. Nothing fails here and every call is one step.             *)
(***************************************************************************)


\* The tests come in this order: a sent message in the trash is sent.
DemoStatus(labels) ==
  IF "DRAFT" \in labels THEN "draft"
  ELSE IF "SENT" \in labels THEN "sent"
  ELSE IF "TRASH" \in labels THEN "trash"
  ELSE IF "INBOX" \notin labels THEN "archived"
  ELSE "inbox"

Reflag(labels) ==
  [labels |-> labels, isRead |-> "UNREAD" \notin labels,
   isStarred |-> "STARRED" \in labels, status |-> DemoStatus(labels)]

\* PATCH /messages/:id, field by field; a body turns fields on and off. Moving
\* a message to the inbox takes it out of the trash too.
DemoAdds(body) ==
  (IF "read"     \in body.off THEN {"UNREAD"} ELSE {}) \cup
  (IF "starred"  \in body.on  THEN {"STARRED"} ELSE {}) \cup
  (IF "archived" \in body.off THEN {"INBOX"} ELSE {}) \cup
  (IF "trashed"  \in body.on  THEN {"TRASH"} ELSE {})

DemoRemoves(body) ==
  (IF "read"     \in body.on  THEN {"UNREAD"} ELSE {}) \cup
  (IF "starred"  \in body.off THEN {"STARRED"} ELSE {}) \cup
  (IF "archived" \in body.on  THEN {"INBOX"} ELSE {}) \cup
  (IF "archived" \in body.off \/ "trashed" \in body.off THEN {"TRASH"} ELSE {}) \cup
  (IF "trashed"  \in body.on  THEN {"INBOX"} ELSE {})

\* Mutant: the derived columns keep their values.
DemoPatch_Unflagged(row, body) ==
  [row EXCEPT !.labels = (row.labels \ DemoRemoves(body)) \cup DemoAdds(body)]

DemoPatch(row, body) == Reflag((row.labels \ DemoRemoves(body)) \cup DemoAdds(body))

\* POST and DELETE /messages/:id/labels. Repeating either is no error.
DemoLabel(row, op, l) ==
  Reflag(IF op = "add" THEN row.labels \cup {l} ELSE row.labels \ {l})
=============================================================================
