------------------------------- MODULE Compose ------------------------------
(***************************************************************************)
(* Writing a message: the compose drawer with its recipient, its text and  *)
(* its uploads (src/app/components/mail/ComposeDrawer.tsx), the handlers   *)
(* that send, save and discard (VibeMailApp.tsx), and what the API makes   *)
(* of their calls: POST /messages, the draft routes, or the demo store. A  *)
(* draft route reads the row, asks Gmail and writes the row, one step each *)
(* (how these interleave with the webhook is the subject of                *)
(* DraftLifecycle). A draft keeps its identity (origin, Gmail's draft id,  *)
(* which its row has) while drafts.update gives it one message id after    *)
(* another; the client only knows the message ids.                         *)
(***************************************************************************)
EXTENDS Naturals

CONSTANTS
  Apis,        \* which APIs answer: "server", "demo"
  Files,       \* files the user may attach
  TooLarge,    \* those over MAX_ATTACHMENT_BYTES
  MaxForms,    \* bound: how often the drawer is opened
  MaxText,     \* bound: versions of the text in one form
  MaxPicks,    \* bound: files picked
  MaxCalls,    \* bound: calls of the handlers; past the last, what is written goes nowhere
  MaxEvents    \* bound: calls that fail and drafts discarded in Gmail together

ASSUME ComposeAssumption ==
  /\ TooLarge \subseteq Files
  /\ {MaxForms, MaxText, MaxPicks, MaxCalls, MaxEvents} \subseteq Nat

VARIABLES
  api,
  drawer,    \* the open form, or Closed
  forms,     \* forms opened so far
  picks,     \* files picked so far: the localIds handed out
  calls,     \* calls in flight
  made,      \* calls made so far
  drafts,    \* draft rows of the server, or the demo's drafts
  gmail,     \* the drafts Gmail has, with their text (those of the demo's store)
  listed,    \* draft ids in the client's list
  lastId,    \* message ids handed out
  stored,    \* picked files whose bytes are in the storage bucket
  mails,     \* history: what Gmail has sent
  events,
  calm,      \* history: see SentOnce
  serial     \* history: see SentAsWritten

vars == <<api, drawer, forms, picks, calls, made, drafts, gmail, listed, lastId,
          stored, mails, events, calm, serial>>

Closed ==
  [form |-> 0, kind |-> "none", id |-> 0, origin |-> 0, to |-> FALSE, text |-> 0,
   items |-> {}, sending |-> FALSE, banner |-> "none"]

IsOpen == drawer.form # 0

\* What the user writes after the last call goes nowhere.
CallsLeft == made < MaxCalls

Row(id) == CHOOSE d \in drafts : d.id = id
HasRow(id) == \E d \in drafts : d.id = id
InGmail(origin) == \E g \in gmail : g.origin = origin

---------------------------------------------------------------------------
(* The drawer.                                                             *)

\* The effect on [open, reply, draft] sets every field; text 0 is what was there
\* before the user wrote. origin is what the user means by the draft.
Open(kind, id) ==
  /\ ~IsOpen /\ forms < MaxForms /\ CallsLeft
  /\ forms' = forms + 1
  /\ drawer' = [Closed EXCEPT !.form = forms + 1, !.kind = kind, !.id = id,
                  !.origin = IF HasRow(id) THEN Row(id).origin ELSE 0,
                  !.to = kind # "new"]
  /\ UNCHANGED <<api, picks, calls, made, drafts, gmail, listed, lastId, stored,
                 mails, events, calm, serial>>

Compose == Open("new", 0)
Reply   == Open("reply", 0)
Edit(id) == id \in listed /\ Open("draft", id)

\* The drawer's own state, and what an upload has brought into the bucket.
Changes(form) ==
  /\ IsOpen
  /\ drawer' = form
  /\ UNCHANGED <<api, forms, calls, made, drafts, gmail, listed, lastId, mails,
                 events, calm, serial>>

Edits(form) == Changes(form) /\ UNCHANGED stored

\* The fields stay editable while a call is in flight.
Write ==
  /\ drawer.text < MaxText /\ CallsLeft
  /\ Edits([drawer EXCEPT !.text = @ + 1]) /\ UNCHANGED picks

\* The recipient of a reply is locked.
ChangeRecipient ==
  /\ drawer.kind # "reply" /\ CallsLeft
  /\ Edits([drawer EXCEPT !.to = ~@]) /\ UNCHANGED picks

\* Escape, the scrim and the close button, whatever is in flight.
Close == Edits(Closed) /\ UNCHANGED picks

Item(n, f, status) == [n |-> n, file |-> f, status |-> status]

Uploading(f) == IF f \in TooLarge THEN "error" ELSE "uploading"

PickFile(f) ==
  /\ picks < MaxPicks /\ CallsLeft
  /\ picks' = picks + 1
  /\ Edits([drawer EXCEPT !.items = @ \cup {Item(picks + 1, f, Uploading(f))}])

WithStatus(i, status) ==
  [drawer EXCEPT !.items = (@ \ {i}) \cup {[i EXCEPT !.status = status]}]

\* uploadAttachment, step one: POST /attachments reserves a path and signs a URL for
\* it. The demo has no uploads. An answer for an item that was removed, or of a form
\* that was closed, finds no localId.
CreateUpload(i) ==
  /\ i.status = "uploading" /\ api = "server" /\ i.file \notin TooLarge
  /\ Edits(WithStatus(i, "signed")) /\ UNCHANGED picks

\* Step two: the browser puts the bytes into the bucket.
PutFile(i) ==
  /\ i.status = "signed"
  /\ stored' = stored \cup {i.n}
  /\ Changes(WithStatus(i, "done")) /\ UNCHANGED picks

\* Either step fails; the bytes may have arrived nevertheless.
UploadFails(i) ==
  /\ i.status \in {"uploading", "signed"}
  /\ stored' \in {stored, stored \cup (IF i.status = "signed" THEN {i.n} ELSE {})}
  /\ Changes(WithStatus(i, "error")) /\ UNCHANGED picks

RetryUpload(i) ==
  /\ i.status = "error"
  /\ Edits(WithStatus(i, Uploading(i.file))) /\ UNCHANGED picks

RemoveItem(i) ==
  Edits([drawer EXCEPT !.items = @ \ {i}]) /\ UNCHANGED picks

IsUploading == \E i \in drawer.items : i.status \in {"uploading", "signed"}

\* buildPayload: only what has been uploaded.
Attached == {i.n : i \in {j \in drawer.items : j.status = "done"}}

---------------------------------------------------------------------------
(* handleSend, handleSaveDraft, deleteDraft.                               *)

\* Replies and new messages are one request. A draft is updated, then sent.
FirstStep(op, kind) ==
  CASE op = "delete"                    -> "delete"
    [] op # "delete" /\ kind = "draft" -> "update"
    [] op = "send" /\ kind # "draft"   -> "post"
    [] op = "save" /\ kind # "draft"   -> "create"

\* A request about a draft begins by reading its row; the demo has it at hand.
FirstStage(pc) ==
  IF api = "demo" THEN "demo" ELSE IF pc \in {"post", "create"} THEN "gmail" ELSE "read"

Makes(op, id, form) ==
  /\ CallsLeft
  /\ made' = made + 1
  /\ calls' = calls \cup
       {[n |-> made + 1, op |-> op, pc |-> FirstStep(op, drawer.kind),
         at |-> FirstStage(FirstStep(op, drawer.kind)), id |-> id, draft |-> id,
         origin |-> drawer.origin, form |-> form, text |-> drawer.text,
         files |-> IF op = "send" /\ drawer.kind # "draft" THEN Attached ELSE {},
         shown |-> Attached, answer |-> "none"]}

Invalid(op) ==
  /\ ~drawer.to
  /\ drawer' = [drawer EXCEPT !.banner = "recipient"]
  /\ UNCHANGED <<calls, made>>

\* Nothing is sent in the demo: a notice takes the drawer's place.
Submit(op) ==
  /\ IsOpen
  /\ \/ Invalid(op)
     \/ drawer.to /\ api = "demo" /\ op = "send" /\ drawer' = Closed
          /\ UNCHANGED <<calls, made>>
     \/ drawer.to /\ ~(api = "demo" /\ op = "send")
          /\ Makes(op, drawer.id, drawer.form)
          /\ drawer' = [drawer EXCEPT !.sending = TRUE, !.banner = "none"]
  /\ UNCHANGED <<api, forms, picks, drafts, gmail, listed, lastId, stored,
                 mails, events, calm, serial>>

\* Mutant: the button is not disabled while a call is in flight.
SendAgain == ~IsUploading /\ Submit("send")

Send == ~drawer.sending /\ ~IsUploading /\ Submit("send")

SaveDraft == ~drawer.sending /\ Submit("save")

\* The button of the error banner sends, also when it was saving that failed, and
\* without waiting for uploads.
TryAgain == drawer.banner \in {"send", "save"} /\ Submit("send")

\* The drawer closes at once; on a narrow screen also while a call is in flight.
DeleteDraft ==
  /\ IsOpen /\ drawer.kind = "draft"
  /\ Makes("delete", drawer.id, 0)
  /\ drawer' = Closed
  /\ UNCHANGED <<api, forms, picks, drafts, gmail, listed, lastId, stored,
                 mails, events, calm, serial>>

---------------------------------------------------------------------------
(* The API: the steps of the request c.                                    *)

\* Of what it was about, the client keeps the id and what the user meant by it.
Answered(c, answer) ==
  [c EXCEPT !.answer = answer, !.pc = "answered", !.at = "none", !.id = c.draft,
            !.text = 0, !.files = {}, !.shown = {}]

Becoming(c, next) == calls' = (calls \ {c}) \cup {next}

\* fetchAttachment, for each id: only what is in the bucket can be attached.
Fetched(c) == c.files \cap stored

Mail(c, origin, text) ==
  [n |-> c.n, form |-> c.form, origin |-> origin, text |-> text, asked |-> c.text,
   files |-> Fetched(c), shown |-> c.shown]

NewId == lastId' = lastId + 1

Draft(origin, text) == [origin |-> origin, text |-> text]

\* Gmail's draft with another text; there is none if it has been sent or deleted.
Rewritten(origin, text) ==
  {g \in gmail : g.origin # origin} \cup {Draft(origin, text)}

Without(id) == {d \in drafts : d.id # id}

\* The row is addressed by its message id, and tells Gmail's id of the draft.
ReadRow(c) ==
  /\ c.at = "read" /\ HasRow(c.id)
  /\ UNCHANGED <<drafts, gmail, lastId, mails>>

\* sendMessage: one attachment that is missing fails the request before it is sent.
PostMessage(c) ==
  /\ c.pc = "post" /\ c.at = "gmail" /\ c.files \subseteq stored
  /\ mails' = mails \cup {Mail(c, 0, c.text)}
  /\ UNCHANGED <<drafts, gmail, lastId>>

CreateInGmail(c) ==
  /\ c.pc = "create" /\ c.at = "gmail"
  /\ NewId
  /\ gmail' = gmail \cup {Draft(lastId', c.text)}
  /\ UNCHANGED <<drafts, mails>>

StoreCreated(c) ==
  /\ c.pc = "create" /\ c.at = "row"
  /\ drafts' = drafts \cup {[id |-> c.id, origin |-> c.id]}
  /\ UNCHANGED <<gmail, lastId, mails>>

\* Mutant: the edits do not reach the draft.
UpdateInGmail_Unwritten(c) ==
  /\ c.pc = "update" /\ c.at = "gmail" /\ InGmail(c.origin)
  /\ NewId
  /\ UNCHANGED <<drafts, gmail, mails>>

\* drafts.update: the draft has the new text and a new message id.
UpdateInGmail(c) ==
  /\ c.pc = "update" /\ c.at = "gmail" /\ InGmail(c.origin)
  /\ NewId
  /\ gmail' = Rewritten(c.origin, c.text)
  /\ UNCHANGED <<drafts, mails>>

\* The row of the old id takes the new one. No row of that id is no error.
StoreUpdated(c) ==
  /\ c.pc = "update" /\ c.at = "row"
  /\ drafts' = IF HasRow(c.draft)
               THEN Without(c.draft) \cup {[Row(c.draft) EXCEPT !.id = c.id]} ELSE drafts
  /\ UNCHANGED <<gmail, lastId, mails>>

\* Mutant: the draft is sent like a new message and stays.
SendInGmail_Stays(c) ==
  /\ c.pc = "senddraft" /\ c.at = "gmail"
  /\ \E g \in gmail : g.origin = c.origin /\ mails' = mails \cup {Mail(c, g.origin, g.text)}
  /\ UNCHANGED <<drafts, gmail, lastId>>

\* drafts.send: what Gmail has is sent, and the draft is gone.
SendInGmail(c) ==
  /\ c.pc = "senddraft" /\ c.at = "gmail"
  /\ \E g \in gmail :
       /\ g.origin = c.origin
       /\ mails' = mails \cup {Mail(c, g.origin, g.text)}
       /\ gmail' = gmail \ {g}
  /\ UNCHANGED <<drafts, lastId>>

\* The row becomes the message's.
StoreSent(c) ==
  /\ c.pc = "senddraft" /\ c.at = "row"
  /\ drafts' = Without(c.id)
  /\ UNCHANGED <<gmail, lastId, mails>>

\* A draft that is gone in Gmail is no error.
DeleteInGmail(c) ==
  /\ c.pc = "delete" /\ c.at = "gmail"
  /\ gmail' = {g \in gmail : g.origin # c.origin}
  /\ UNCHANGED <<drafts, lastId, mails>>

DropRow(c) ==
  /\ c.pc = "delete" /\ c.at = "row"
  /\ drafts' = Without(c.id)
  /\ UNCHANGED <<gmail, lastId, mails>>

\* Mutant: the demo's counter is not incremented.
DemoCreate_OldId(c) ==
  /\ c.at = "demo" /\ c.pc = "create"
  /\ drafts' = drafts \cup {[id |-> lastId, origin |-> lastId + 1]}
  /\ gmail' = gmail \cup {Draft(lastId + 1, c.text)}
  /\ NewId

\* demoFetch: POST, PATCH and DELETE of a draft; one that is updated keeps its id.
DemoCreate(c) ==
  /\ c.at = "demo" /\ c.pc = "create"
  /\ drafts' = drafts \cup {[id |-> lastId + 1, origin |-> lastId + 1]}
  /\ gmail' = gmail \cup {Draft(lastId + 1, c.text)}
  /\ NewId

DemoUpdate(c) ==
  /\ c.at = "demo" /\ c.pc = "update" /\ HasRow(c.id)
  /\ gmail' = Rewritten(Row(c.id).origin, c.text)
  /\ UNCHANGED <<drafts, lastId>>

DemoDelete(c) ==
  /\ c.at = "demo" /\ c.pc = "delete" /\ HasRow(c.id)
  /\ gmail' = {g \in gmail : g.origin # Row(c.id).origin}
  /\ drafts' = Without(c.id)
  /\ UNCHANGED lastId

InDemo(c) == UNCHANGED mails /\ (DemoCreate(c) \/ DemoUpdate(c) \/ DemoDelete(c))

\* The steps after which a request is answered.
LastStep(c) ==
  \/ PostMessage(c) \/ StoreCreated(c) \/ StoreUpdated(c) \/ StoreSent(c) \/ DropRow(c)
  \/ InDemo(c)

Effect(c) ==
  \/ ReadRow(c) \/ CreateInGmail(c) \/ UpdateInGmail(c) \/ SendInGmail(c)
  \/ DeleteInGmail(c) \/ LastStep(c)

\* What comes next; after an update the client sends the draft by the id it got back.
After(c) ==
  IF c.at = "read" THEN [c EXCEPT !.at = "gmail", !.origin = Row(c.id).origin]
  ELSE IF c.at = "gmail" /\ c.pc # "post"
    THEN [c EXCEPT !.at = "row",
                   !.id = IF c.pc \in {"create", "update"} THEN lastId' ELSE @]
  ELSE IF c.pc = "update" /\ c.op = "send"
    THEN [c EXCEPT !.pc = "senddraft", !.at = "read"]
  ELSE Answered(c, "ok")

\* Between reading the row and writing it, and about the same draft.
Amid(c) == c.pc \in {"update", "senddraft", "delete"} /\ c.at \in {"gmail", "row"}

Overlaps(c) ==
  \E d \in calls \ {c} :
    Amid(d) /\ d.origin = Row(c.id).origin /\ "update" \in {c.pc, d.pc}

Serve(c) ==
  /\ Effect(c)
  /\ Becoming(c, After(c))
  /\ serial' = (serial /\ ~(c.at = "read" /\ Overlaps(c)))
  /\ UNCHANGED <<api, drawer, forms, picks, made, listed, stored, events, calm>>

\* DRAFT_NOT_FOUND: no row of that id, or Gmail has no such draft.
NotFound(c) ==
  /\ \/ c.at = "read" /\ ~HasRow(c.id)
     \/ c.at = "gmail" /\ c.pc \in {"update", "senddraft"} /\ ~InGmail(c.origin)
     \/ c.at = "demo" /\ c.pc \in {"update", "delete"} /\ ~HasRow(c.id)
  /\ Becoming(c, Answered(c, "missing"))
  /\ UNCHANGED <<api, drawer, forms, picks, made, drafts, gmail, listed, lastId, stored,
                 mails, events, calm, serial>>

\* A request stops where it is, or is carried out and its answer lost.
Fails(c) ==
  /\ c.pc # "answered" /\ api = "server" /\ events < MaxEvents
  /\ events' = events + 1
  /\ \/ /\ UNCHANGED <<drafts, gmail, lastId, mails>>
        /\ serial' = (serial /\ ~(c.pc = "update" /\ c.at = "row"))
     \/ LastStep(c) /\ UNCHANGED serial
  /\ Becoming(c, Answered(c, "error"))
  /\ calm' = (calm /\ \A m \in mails' : m.n # c.n)
  /\ UNCHANGED <<api, drawer, forms, picks, made, listed, stored>>

\* The user deletes the draft in Gmail: no component removes its row.
DiscardedElsewhere(g) ==
  /\ api = "server" /\ events < MaxEvents
  /\ events' = events + 1
  /\ gmail' = gmail \ {g}
  /\ UNCHANGED <<api, drawer, forms, picks, calls, made, drafts, listed, lastId, stored,
                 mails, calm, serial>>

---------------------------------------------------------------------------
(* The answer. It reaches whatever form is on the screen by then.          *)

Stray(c) == IsOpen /\ drawer.form # c.form

\* closeCompose.
Succeeds(c) ==
  /\ c.op \in {"send", "save"} /\ c.answer = "ok"
  /\ drawer' = Closed
  /\ calls' = calls \ {c}
  /\ UNCHANGED <<made, listed>>

\* discardOrphanDraft: DELETE by the id the form was opened with, its answer ignored.
DiscardsOrphan(c) ==
  /\ c.op \in {"send", "save"} /\ c.answer = "missing"
  /\ drawer' = Closed
  /\ listed' = listed \ {c.draft}
  /\ calls' = (calls \ {c}) \cup
       {[c EXCEPT !.op = "discard", !.pc = "delete", !.at = FirstStage("delete"),
                   !.id = c.draft, !.answer = "none"]}
  /\ UNCHANGED made

\* Mutant: the button stays disabled.
Refused_StillSending(c) ==
  /\ c.op \in {"send", "save"} /\ c.answer = "error"
  /\ drawer' = IF IsOpen THEN [drawer EXCEPT !.banner = c.op] ELSE drawer
  /\ calls' = calls \ {c}
  /\ UNCHANGED <<made, listed>>

\* The banner and the button of the form on the screen.
Refused(c) ==
  /\ c.op \in {"send", "save"} /\ c.answer = "error"
  /\ drawer' = IF IsOpen THEN [drawer EXCEPT !.sending = FALSE, !.banner = c.op]
               ELSE drawer
  /\ calls' = calls \ {c}
  /\ UNCHANGED <<made, listed>>

\* A failure is a toast.
Deleted(c) ==
  /\ c.op \in {"delete", "discard"} /\ c.pc = "answered"
  /\ listed' = IF c.op = "delete" /\ c.answer = "ok" THEN listed \ {c.draft} ELSE listed
  /\ calls' = calls \ {c}
  /\ UNCHANGED <<drawer, made>>

Answer(c) ==
  /\ Succeeds(c) \/ DiscardsOrphan(c) \/ Refused(c) \/ Deleted(c)
  /\ calm' = (calm /\ (c.op \in {"send", "save"} => ~Stray(c)))
  /\ UNCHANGED <<api, forms, picks, drafts, gmail, lastId, stored, mails, events, serial>>

\* loadFirstPage after a success, and the poll.
Reload ==
  /\ listed' = {d.id : d \in drafts}
  /\ UNCHANGED <<api, drawer, forms, picks, calls, made, drafts, gmail, lastId, stored,
                 mails, events, calm, serial>>

---------------------------------------------------------------------------
Init ==
  /\ api \in Apis
  /\ drawer = Closed /\ forms = 0 /\ picks = 0
  /\ calls = {} /\ made = 0
  /\ drafts = {[id |-> 1, origin |-> 1]} /\ gmail = {Draft(1, 0)}
  /\ listed = {1} /\ lastId = 1 /\ stored = {}
  /\ mails = {}
  /\ events = 0 /\ calm = TRUE /\ serial = TRUE

User ==
  \/ Compose \/ Reply \/ \E id \in listed : Edit(id)
  \/ Write \/ ChangeRecipient \/ Close
  \/ \E f \in Files : PickFile(f)
  \/ \E i \in drawer.items : RetryUpload(i) \/ RemoveItem(i)
  \/ Send \/ SaveDraft \/ TryAgain \/ DeleteDraft

Next ==
  \/ User
  \/ \E i \in drawer.items : CreateUpload(i) \/ PutFile(i) \/ UploadFails(i)
  \/ \E c \in calls : Serve(c) \/ NotFound(c) \/ Fails(c) \/ Answer(c)
  \/ \E g \in gmail : DiscardedElsewhere(g)
  \/ Reload

\* A request is answered, by an error at the latest when the platform stops the
\* function, and the browser then runs the handler.
Fairness ==
  /\ WF_vars(\E c \in calls : Serve(c) \/ NotFound(c))
  /\ WF_vars(\E c \in calls : Answer(c))

Spec == Init /\ [][Next]_vars /\ Fairness

---------------------------------------------------------------------------
(* Properties.                                                             *)

ItemType == [n : 1..picks, file : Files,
             status : {"uploading", "signed", "done", "error"}]

CallType ==
  [n : 1..made, op : {"send", "save", "delete", "discard"},
   pc : {"post", "create", "update", "senddraft", "delete", "answered"},
   at : {"demo", "read", "gmail", "row", "none"},
   id : 0..lastId, draft : 0..lastId, origin : 0..lastId, form : 0..forms,
   text : 0..MaxText, files : SUBSET (1..picks), shown : SUBSET (1..picks),
   answer : {"none", "ok", "missing", "error"}]

MailType ==
  [n : 1..made, form : 1..forms, origin : 0..lastId, text : 0..MaxText,
   asked : 0..MaxText, files : SUBSET (1..picks), shown : SUBSET (1..picks)]

\* Type invariant. A message id belongs to one row.
TypeOK ==
  /\ api \in Apis
  /\ drawer.form \in 0..forms /\ drawer.kind \in {"none", "new", "reply", "draft"}
  /\ drawer.id \in 0..lastId /\ drawer.origin \in 0..lastId
  /\ drawer.to \in BOOLEAN /\ drawer.text \in 0..MaxText
  /\ drawer.items \subseteq ItemType /\ drawer.sending \in BOOLEAN
  /\ drawer.banner \in {"none", "recipient", "send", "save"}
  /\ forms \in 0..MaxForms /\ picks \in 0..MaxPicks /\ made \in 0..MaxCalls
  /\ calls \subseteq CallType /\ mails \subseteq MailType
  /\ drafts \subseteq [id : 1..lastId, origin : 1..lastId]
  /\ gmail \subseteq [origin : 1..lastId, text : 0..MaxText]
  /\ \A d, e \in drafts : d.id = e.id => d = e
  /\ listed \subseteq 1..lastId /\ stored \subseteq 1..picks
  /\ events \in 0..MaxEvents /\ calm \in BOOLEAN /\ serial \in BOOLEAN

\* A form is sent once, however often its buttons are pressed, unless a call failed
\* although Gmail had carried it out (the user is then told "Couldn't send"), or the
\* answer of an earlier form, closed while its call was in flight, has reached this
\* one and enabled its buttons again.
SentOnce == calm => \A m, k \in mails : m.form = k.form => m = k

\* A draft is sent once, whatever fails and whatever forms edit it at the same time:
\* sending consumes it, and a form that holds one of its earlier ids is refused.
DraftSentOnce ==
  \A m, k \in mails : m.origin = k.origin /\ m.origin # 0 => m = k

\* A new message and a reply are sent as the form held them. A draft is updated and
\* then sent, and other forms may update it before, between and after: it is sent as
\* its form wrote it all the same, because every update that is through gives the row
\* another id, by which the forms that hold the old one are refused. That fails when
\* an update has reached Gmail and not the row: serial says that no PATCH of a draft
\* has overlapped another request about it, nor stopped between the two. Attachments
\* of a draft are not sent at all.
SentAsWritten ==
  \A m \in mails :
    IF m.origin = 0 THEN m.text = m.asked /\ m.files = m.shown
    ELSE serial => m.text = m.asked

\* A form does not wait for ever: the call it waits for is answered, and the answer
\* closes it or enables its buttons.
SendingEnds ==
  \A f \in 1..MaxForms : []<>~(drawer.form = f /\ drawer.sending)

\* discardOrphanDraft tells the user "That draft no longer exists in Gmail".
OrphansAreGone ==
  \A c \in calls : c.op = "discard" =>
    ~InGmail(c.origin)
=============================================================================
