----------------------------- MODULE MailActions ----------------------------
(***************************************************************************)
(* What the mail client does to one message and how its copy of the row    *)
(* keeps up with the server's (src/app/components/VibeMailApp.tsx):        *)
(*   - commands of the reader, the keyboard and the bulk bar, shown before *)
(*     the API has answered and rolled back when it refuses                *)
(*   - label chips, deletion                                               *)
(*   - the poll and the first page of a folder, which bring server rows    *)
(* The API is the server (one request is one step of it here; how its      *)
(* steps interleave is the subject of MessageLabels) or the demo store.    *)
(* Every operation is keyed by the id of the row, so one message is        *)
(* enough; a bulk command is the same command for each selected row.       *)
(***************************************************************************)
EXTENDS Naturals, FiniteSets, DemoStore

CONSTANTS
  UserLabels,   \* labels shown as chips
  Initial,      \* the label sets the message may start with
  Toggled,      \* labels that others change
  Apis,         \* which APIs answer: "server", "demo"
  Visited,      \* folders the user looks at
  MaxCalls,     \* bound: calls the user makes
  MaxEvents     \* bound: calls that fail and changes made by others together

VARIABLES
  api,
  row,       \* the row of the server, or NoRow
  filter,    \* the folder on the screen
  client,    \* the client's copy, or Absent
  open,      \* the message is the one in the reader (selectedId)
  pending,   \* its id is in pendingPatchRef
  calls,     \* API calls that have not been answered
  made,      \* how many have been made
  poll,      \* the page a poll has been given and not merged, or NoPage
  load,      \* the same for the first page of the folder, or NoPage
  loading,   \* a first page is wanted
  events,
  calm       \* history: see Properties

vars == <<api, row, filter, client, open, pending, calls, made, poll, load,
          loading, events, calm>>

Bodies == [on : SUBSET {"read", "starred", "archived", "trashed"},
           off : SUBSET {"read", "starred", "archived", "trashed"}]

\* The server's derivations and label arithmetic.
Server == INSTANCE MessageLabels WITH
  Hooks <- {}, Requests <- {}, Reconcilers <- {}, Makings <- {}, MaxChanges <- 0,
  gmail <- row.labels, pending <- FALSE, draftId <- FALSE, hook <- <<>>, req <- <<>>,
  rec <- <<>>, make <- <<>>, changes <- 0, overlapped <- FALSE, dropped <- FALSE

NoRow   == Server!NoRow
Views   == {"all", "starred", "sent", "drafts", "archived", "trash"}
Folders == Views \cup UserLabels

ASSUME ActionsAssumption ==
  /\ UserLabels \cap (Server!ProtectedLabels \cup Views) = {}
  /\ Initial \subseteq SUBSET Server!Labels
  /\ Toggled \subseteq Server!Labels
  /\ Visited \subseteq Folders
  /\ MaxCalls \in Nat /\ MaxEvents \in Nat

\* Each store derives the columns of a row from its labels.
Made(labels) == IF api = "demo" THEN Reflag(labels) ELSE Server!RowOf(labels)

---------------------------------------------------------------------------
(* Rows of the client.                                                     *)

\* toUiMessage and userLabels: chips are the labels that are not Gmail's own.
Ui(r) ==
  [labels |-> r.labels, chips |-> r.labels \cap UserLabels, isRead |-> r.isRead,
   isStarred |-> r.isStarred, status |-> r.status]

Absent == Ui(NoRow)

Flags(r) == <<r.isRead, r.isStarred, r.status>>

\* baseVisible: which folder shows a row the client has.
Shows(f, r) ==
  CASE f = "all"      -> "INBOX" \in r.labels /\ r.status # "trash"
    [] f = "starred"  -> r.isStarred /\ r.status # "trash"
    [] f = "sent"     -> r.status = "sent"
    [] f = "drafts"   -> r.status = "draft"
    [] f = "archived" -> r.status = "archived"
    [] f = "trash"    -> r.status = "trash"
    [] f \in UserLabels ->
         "INBOX" \in r.labels /\ r.status # "trash" /\ f \in r.chips

\* The page of a folder: by label, or by status for the archive.
FolderLabel == [all |-> "INBOX", starred |-> "STARRED", sent |-> "SENT",
                drafts |-> "DRAFT", trash |-> "TRASH"]

Lists(f, r) ==
  /\ r # NoRow
  /\ IF f = "archived" THEN r.status = "archived"
     ELSE (IF f \in UserLabels THEN f ELSE FolderLabel[f]) \in r.labels

NoPage == [read |-> FALSE, row |-> NoRow, old |-> FALSE]

PageNow == [read |-> TRUE, row |-> IF Lists(filter, row) THEN row ELSE NoRow,
            old |-> FALSE]

\* History: the server's row changed, or an answer was shown, after the page was read.
Aged(p) == [p EXCEPT !.old = p.read]

---------------------------------------------------------------------------
(* Commands.                                                               *)

Commands == {"archive", "trash", "restore", "inbox", "read", "unread", "star", "unstar"}

\* Restoring is offered for what is in the trash or in the archive. The other
\* commands work on any row, by keyboard or in bulk.
Offered(cmd, r) ==
  CASE cmd = "restore" -> r.status = "trash"
    [] cmd = "inbox"   -> r.status = "archived"
    [] OTHER           -> TRUE

Optimistic(cmd, r) ==
  CASE cmd = "archive" -> [r EXCEPT !.status = "archived", !.labels = @ \ {"INBOX"}]
    [] cmd = "trash"   -> [r EXCEPT !.status = "trash",
                                    !.labels = (@ \ {"INBOX"}) \cup {"TRASH"}]
    [] cmd \in {"restore", "inbox"} ->
         [r EXCEPT !.status = "inbox", !.labels = (@ \ {"TRASH"}) \cup {"INBOX"}]
    [] cmd = "read"    -> [r EXCEPT !.isRead = TRUE, !.labels = @ \ {"UNREAD"}]
    [] cmd = "unread"  -> [r EXCEPT !.isRead = FALSE, !.labels = @ \cup {"UNREAD"}]
    [] cmd = "star"    -> [r EXCEPT !.isStarred = TRUE, !.labels = @ \cup {"STARRED"}]
    [] cmd = "unstar"  -> [r EXCEPT !.isStarred = FALSE, !.labels = @ \ {"STARRED"}]

On(fields) == [on |-> fields, off |-> {}]
Off(fields) == [on |-> {}, off |-> fields]

\* From the trash both fields are sent, or the message would land in the archive.
Body(cmd) ==
  CASE cmd = "archive" -> On({"archived"})
    [] cmd = "trash"   -> On({"trashed"})
    [] cmd = "restore" -> Off({"trashed", "archived"})
    [] cmd = "inbox"   -> Off({"archived"})
    [] cmd = "read"    -> On({"read"})
    [] cmd = "unread"  -> Off({"read"})
    [] cmd = "star"    -> On({"starred"})
    [] cmd = "unstar"  -> Off({"starred"})

\* A call carries what it asks, what it showed and the row it saw before.
Asks ==
  [kind : {"patch"}, arg : Commands] \cup
  [kind : {"add", "remove"}, arg : UserLabels] \cup
  [kind : {"delete"}, arg : {"forever"}]

Makes(ask, shown, prev) ==
  /\ made < MaxCalls
  /\ made' = made + 1
  /\ calls' = calls \cup {[n |-> made + 1, ask |-> ask, shown |-> shown,
                           prev |-> prev, answer |-> "none", row |-> NoRow]}
  /\ calm' = (calm /\ calls = {} /\ client # Absent)

\* patchAction, up to the answer.
Patches(cmd, r, prev) ==
  /\ client' = Optimistic(cmd, r)
  /\ pending' = TRUE
  /\ Makes([kind |-> "patch", arg |-> cmd], Optimistic(cmd, r), prev)

Command(cmd) ==
  /\ client # Absent /\ Offered(cmd, client)
  /\ Patches(cmd, client, client)
  /\ open' \in {open, FALSE}      \* the reader's commands close it
  /\ UNCHANGED <<api, row, filter, poll, load, loading, events>>

\* openMessage: an unread message is marked read. One that retrieval has found and
\* the list does not have is added to the list, and has nothing to roll back to.
OpenMessage ==
  /\ ~open /\ open' = TRUE
  /\ LET r == IF client = Absent THEN Ui(row) ELSE client
     IN  /\ r # Absent /\ r.status # "draft"
         /\ IF r.isRead
              THEN /\ client' = r
                   /\ calm' = (calm /\ client # Absent)
                   /\ UNCHANGED <<pending, calls, made>>
              ELSE Patches("read", r, client)
  /\ UNCHANGED <<api, row, filter, poll, load, loading, events>>

Close ==
  /\ open
  /\ open' = FALSE
  /\ UNCHANGED <<api, row, filter, client, pending, calls, made, poll, load,
                 loading, events, calm>>

\* Chips change at once; label_ids wait for the answer.
Chip(op, l) ==
  /\ client # Absent
  /\ client' = [client EXCEPT !.chips = IF op = "add" THEN @ \cup {l} ELSE @ \ {l}]
  /\ Makes([kind |-> op, arg |-> l], client', client)
  /\ UNCHANGED <<api, row, filter, open, pending, poll, load, loading, events>>

\* The bulk bar of the trash deletes on the server, the reader only locally.
BulkDeleteForever ==
  /\ filter = "trash" /\ client # Absent
  /\ client' = Absent
  /\ Makes([kind |-> "delete", arg |-> "forever"], Absent, client)
  /\ UNCHANGED <<api, row, filter, open, pending, poll, load, loading, events>>

DeleteForeverSelected ==
  /\ open /\ client.status = "trash"
  /\ client' = Absent /\ open' = FALSE
  /\ UNCHANGED <<api, row, filter, pending, calls, made, poll, load, loading,
                 events, calm>>

---------------------------------------------------------------------------
(* The API.                                                                *)

Answered(c, answer, r) == [c EXCEPT !.answer = answer, !.row = r]

\* What a call makes of the row: the answer, and the row afterwards.
ServerResult(ask) ==
  IF row = NoRow THEN <<"error", row>>
  ELSE CASE ask.kind = "patch" ->
         IF Server!AlreadyInState(Body(ask.arg)) THEN <<"already", row>>
         ELSE <<"ok", Server!RowOf((row.labels \cup Server!AddLabels(Body(ask.arg)))
                        \ Server!RemoveLabels(Body(ask.arg), row.labels))>>
    [] ask.kind = "add" ->
         IF ask.arg \in row.labels THEN <<"already", row>>
         ELSE <<"ok", Server!RowOf(row.labels \cup {ask.arg})>>
    [] ask.kind = "remove" ->
         IF ask.arg \notin row.labels THEN <<"already", row>>
         ELSE <<"ok", Server!RowOf(row.labels \ {ask.arg})>>
    [] ask.kind = "delete" ->
         IF row.status = "draft" THEN <<"error", row>> ELSE <<"ok", NoRow>>

DemoResult(ask) ==
  IF ask.kind = "delete" THEN <<"ok", NoRow>>
  ELSE IF row = NoRow THEN <<"error", row>>
  ELSE IF ask.kind = "patch" THEN <<"ok", DemoPatch(row, Body(ask.arg))>>
  ELSE <<"ok", DemoLabel(row, ask.kind, ask.arg)>>

Result(ask) == IF api = "demo" THEN DemoResult(ask) ELSE ServerResult(ask)

Waiting(c) == c \in calls /\ c.answer = "none"

Serve(c) ==
  /\ Waiting(c)
  /\ row' = Result(c.ask)[2]
  /\ calls' = (calls \ {c}) \cup {Answered(c, Result(c.ask)[1], row')}
  /\ UNCHANGED <<api, filter, client, open, pending, made, poll, load, loading,
                 events, calm>>

\* A call that fails may have been carried out.
Fails(c) ==
  /\ Waiting(c) /\ api = "server" /\ events < MaxEvents
  /\ events' = events + 1
  /\ row' \in {row, Result(c.ask)[2]}
  /\ calls' = (calls \ {c}) \cup {Answered(c, "error", row')}
  /\ calm' = (calm /\ row' = row)
  /\ UNCHANGED <<api, filter, client, open, pending, made, poll, load, loading>>

\* Deliveries, other clients.
ChangedElsewhere(l) ==
  /\ api = "server" /\ events < MaxEvents /\ row # NoRow
  /\ events' = events + 1
  /\ row' = Server!RowOf(IF l \in row.labels THEN row.labels \ {l}
                         ELSE row.labels \cup {l})
  /\ poll' = Aged(poll) /\ load' = Aged(load)
  /\ calm' = FALSE
  /\ UNCHANGED <<api, filter, client, open, pending, calls, made, loading>>

---------------------------------------------------------------------------
(* The answer of a call.                                                   *)

Update(r) == client' = IF client = Absent THEN Absent ELSE r

\* Mutant: the rollback forgets label_ids.
PatchAnswered_FlagsOnly(c) ==
  CASE c.answer = "ok" ->
         Update([client EXCEPT !.isRead = c.row.isRead,
                   !.isStarred = c.row.isStarred, !.status = c.row.status])
    [] c.answer = "already" -> client' = client
    [] c.answer = "error" ->
         IF c.prev = Absent THEN client' = client
         ELSE Update([client EXCEPT !.isRead = c.prev.isRead,
                        !.isStarred = c.prev.isStarred, !.status = c.prev.status])

\* The flags come from the answer, label_ids stay as shown. A refusal because the
\* message is in that state already is a success; others roll back.
PatchAnswered(c) ==
  CASE c.answer = "ok" ->
         Update([client EXCEPT !.isRead = c.row.isRead,
                   !.isStarred = c.row.isStarred, !.status = c.row.status])
    [] c.answer = "already" -> client' = client
    [] c.answer = "error" ->
         IF c.prev = Absent THEN client' = client
         ELSE Update([client EXCEPT !.isRead = c.prev.isRead,
                        !.isStarred = c.prev.isStarred, !.status = c.prev.status,
                        !.labels = c.prev.labels])

ChipAnswered(c) ==
  CASE c.answer = "ok" ->
         Update([client EXCEPT !.labels = c.row.labels,
                               !.chips = c.row.labels \cap UserLabels])
    [] c.answer = "already" -> client' = client
    [] c.answer = "error"   -> Update([client EXCEPT !.chips = c.prev.chips])

Answer(c) ==
  /\ c \in calls /\ c.answer # "none"
  /\ calls' = calls \ {c}
  /\ CASE c.ask.kind = "patch"  -> PatchAnswered(c)
       [] c.ask.kind = "delete" -> client' = client
       [] OTHER                 -> ChipAnswered(c)
  /\ pending' = (pending /\ c.ask.kind # "patch")
  /\ poll' = Aged(poll) /\ load' = Aged(load)
  /\ UNCHANGED <<api, row, filter, open, made, loading, events, calm>>

---------------------------------------------------------------------------
(* Pages.                                                                  *)

PollRead ==
  /\ ~poll.read
  /\ poll' = PageNow
  /\ UNCHANGED <<api, row, filter, client, open, pending, calls, made, load,
                 loading, events, calm>>

\* Mutant: without the pending marks.
Merged_Always(page) ==
  IF page = NoRow THEN client
  ELSE IF client = Absent THEN Ui(page)
  ELSE IF Flags(page) = Flags(client) /\ page.labels = client.labels THEN client
  ELSE Ui(page)

\* Rows not seen yet are added; the flags of the others are taken over unless a
\* PATCH of the row is in flight.
Merged(page) ==
  IF page = NoRow THEN client
  ELSE IF client = Absent THEN Ui(page)
  ELSE IF pending \/ (Flags(page) = Flags(client) /\ page.labels = client.labels) THEN client
  ELSE Ui(page)

PollArrives ==
  /\ poll.read
  /\ client' = Merged(poll.row)
  /\ poll' = NoPage
  /\ calm' = (calm /\ ~poll.old /\ (client = Absent => calls = {}))
  /\ UNCHANGED <<api, row, filter, open, pending, calls, made, load, loading, events>>

\* A poll that failed, or that was cancelled with its folder.
PollLost ==
  /\ poll.read
  /\ poll' = NoPage
  /\ UNCHANGED <<api, row, filter, client, open, pending, calls, made, load,
                 loading, events, calm>>

\* A new folder, or a refresh of this one. The poll belongs to the folder.
Load(f) ==
  /\ filter' = f
  /\ loading' = TRUE
  /\ load' = NoPage
  /\ poll' = IF f = filter THEN poll ELSE NoPage
  /\ open' = (open /\ f = filter)
  /\ UNCHANGED <<api, row, client, pending, calls, made, events, calm>>

LoadRead ==
  /\ loading /\ ~load.read
  /\ load' = PageNow
  /\ UNCHANGED <<api, row, filter, client, open, pending, calls, made, poll,
                 loading, events, calm>>

\* The first page replaces the list, pending or not; without one it is empty.
LoadArrives ==
  /\ loading
  /\ \/ load.read /\ client' = Ui(load.row) /\ calm' = (~load.old /\ calls = {})
     \/ client' = Absent /\ calm' = (calm /\ calls = {})
  /\ load' = NoPage /\ loading' = FALSE
  /\ UNCHANGED <<api, row, filter, open, pending, calls, made, poll, events>>

---------------------------------------------------------------------------
Init ==
  /\ api \in Apis
  /\ \E labels \in Initial : row = Made(labels)
  /\ filter = "all"
  /\ client = Absent
  /\ open = FALSE /\ pending = FALSE
  /\ calls = {} /\ made = 0
  /\ poll = NoPage /\ load = NoPage /\ loading = TRUE
  /\ events = 0
  /\ calm = TRUE

User ==
  \/ \E cmd \in Commands : Command(cmd)
  \/ OpenMessage \/ Close
  \/ \E op \in {"add", "remove"}, l \in UserLabels : Chip(op, l)
  \/ BulkDeleteForever \/ DeleteForeverSelected
  \/ \E f \in Visited : Load(f)

Next ==
  \/ User
  \/ \E c \in calls : Serve(c) \/ Fails(c) \/ Answer(c)
  \/ \E l \in Toggled : ChangedElsewhere(l)
  \/ PollRead \/ PollArrives \/ PollLost \/ LoadRead \/ LoadArrives

Spec == Init /\ [][Next]_vars

---------------------------------------------------------------------------
(* Properties. Disagreements that the client does not prevent are recorded *)
(* by calm: calls that overlap, calls carried out though they failed,      *)
(* changes made by others, a page merged after an answer it is older than, *)
(* a row that left the list with a call outstanding and is back. A first   *)
(* page read and shown while no call is outstanding ends them all.         *)

RowType == [labels : SUBSET Server!Labels, isRead : BOOLEAN, isStarred : BOOLEAN,
            status : Server!Statuses \cup {"none"}]

PageType == [read : BOOLEAN, row : RowType, old : BOOLEAN]

ClientType == [labels : SUBSET Server!Labels, chips : SUBSET UserLabels,
               isRead : BOOLEAN, isStarred : BOOLEAN,
               status : Server!Statuses \cup {"none"}]

CallType == [n : 1..MaxCalls, ask : Asks, shown : ClientType, prev : ClientType,
             answer : {"none", "ok", "already", "error"}, row : RowType]

\* Type invariant.
TypeOK ==
  /\ api \in Apis /\ row \in RowType /\ filter \in Folders
  /\ client \in ClientType
  /\ open \in BOOLEAN /\ pending \in BOOLEAN
  /\ loading \in BOOLEAN /\ calm \in BOOLEAN
  /\ poll \in PageType /\ load \in PageType
  /\ made \in 0..MaxCalls /\ events \in 0..MaxEvents
  /\ calls \subseteq CallType /\ \A c \in calls : c.n <= made

\* A change the user has made stays on the screen until the API has answered it,
\* whatever polls arrive meanwhile (pendingPatchRef); calm excepts what that mark does
\* not cover, a second call and a first page during this one among it.
OptimisticHolds ==
  \A c \in calls : calm /\ c.ask.kind = "patch" /\ client # Absent =>
    /\ Flags(client) = Flags(c.shown)
    /\ \A f \in Folders : Shows(f, client) = Shows(f, c.shown)

\* Once every call is answered, the client's flags are the server's, and a folder
\* shows the message exactly when it would show the server's row: the optimistic
\* label arithmetic and the server's lead to the same place, a refusal undoes what
\* was shown and nothing else. Rollbacks of overlapping calls do undo each other, and
\* a page read before an answer puts the older row back: calm excepts both.
SettledAgrees ==
  calm /\ calls = {} /\ client # Absent =>
    /\ row # NoRow /\ Flags(client) = Flags(row)
    /\ \A f \in Folders : Shows(f, client) = Shows(f, Ui(row))

\* The demo store does with every command what the server does, as far as flags and
\* folders show it; excepted are sent messages, which it leaves in the folder "sent"
\* when they are archived or trashed.
DemoAgrees ==
  row # NoRow /\ row.labels \cap {"SENT", "DRAFT"} = {} =>
    \A cmd \in Commands : Offered(cmd, Ui(row)) =>
      LET demo   == DemoPatch(row, Body(cmd))
          server == ServerResult([kind |-> "patch", arg |-> cmd])[2]
      IN  /\ Flags(demo) = Flags(server)
          /\ \A f \in Folders : Shows(f, Ui(demo)) = Shows(f, Ui(server))

(***************************************************************************)
(* What makes the invariants inductive.                                    *)
(***************************************************************************)

\* While calm holds, one call at most is outstanding, and the list shows what
\* it has put there and keeps the pending mark.
OneShown ==
  calm => \A c \in calls :
    /\ calls = {c}
    /\ c.ask.kind = "patch" /\ client # Absent => pending /\ client = c.shown

\* The columns of a row follow from its labels.
RowCoherent == row # NoRow => row = Made(row.labels)

\* What flags, chips and folders show of a row is what the client's copy shows.
InInbox(r) == "INBOX" \in r.labels /\ r.status # "trash"

Agrees(u, r) ==
  /\ r # NoRow /\ Flags(u) = Flags(r)
  /\ u.chips = r.labels \cap UserLabels
  /\ InInbox(u) <=> InInbox(r)

Chips == {"add", "remove"}

\* A page that is not old holds the row while no call has been carried out; while
\* one chip is being changed it holds the row up to the chips.
Fresh(p) ==
  p.read /\ ~p.old /\ p.row # NoRow =>
    /\ (\A c \in calls : c.answer = "none") => p.row = row
    /\ calm => \A c \in calls :
         /\ c.answer \in {"already", "error"} => p.row = row
         /\ c.ask.kind \in Chips =>
              Flags(p.row) = Flags(row) /\ (InInbox(p.row) <=> InInbox(row))

PagesFresh == Fresh(poll) /\ Fresh(load)

\* What the answer of a PATCH will make of what is shown.
AfterPatch(c) ==
  CASE c.answer = "ok"      -> [c.shown EXCEPT !.isRead = c.row.isRead,
                                 !.isStarred = c.row.isStarred, !.status = c.row.status]
    [] c.answer = "already" -> c.shown
    [] OTHER                -> c.prev

PatchInFlight(c, r) ==
  /\ c.shown = Optimistic(c.ask.arg, c.prev) /\ Offered(c.ask.arg, c.prev)
  /\ c.answer = "ok" => c.row = r
  /\ Agrees(AfterPatch(c), r)

\* The pending mark does not protect chips: a page may bring back the old ones.
ChipInFlight(c, u, r) ==
  LET stored == r.labels \cap UserLabels
  IN  /\ r # NoRow
      /\ c.answer = "ok" => c.row = r
      /\ c.answer \in {"none", "error"} => c.prev.chips = stored
      /\ c.answer = "already" => c.shown.chips = stored
      /\ c.answer = "none" /\ (c.ask.kind = "add" <=> c.ask.arg \in r.labels)
           => c.shown.chips = stored
      /\ u # Absent =>
           /\ Flags(u) = Flags(r) /\ (InInbox(u) <=> InInbox(r))
           /\ c.answer # "ok" => u.chips \in {c.shown.chips, stored}

\* The calls cs, the client's copy u and the server's row r go together.
AllAgree(cs, u, r) ==
  /\ cs = {} /\ u # Absent => Agrees(u, r)
  /\ \A c \in cs : /\ c.prev # Absent
                   /\ c.ask.kind = "patch"  => PatchInFlight(c, r)
                   /\ c.ask.kind \in Chips  => ChipInFlight(c, u, r)
                   /\ c.ask.kind = "delete" => u = Absent

CallsAgree == calm => AllAgree(calls, client, row)

=============================================================================
