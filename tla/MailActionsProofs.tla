------------------------- MODULE MailActionsProofs --------------------------
(***************************************************************************)
(* Theorems about MailActions, for any labels, any label sets the message  *)
(* may start with, any folders visited and any number of calls.            *)
(*                                                                         *)
(*   1. TypeCorrect.                                                       *)
(*   2. OptimisticSafe: what the user did stays on the screen.             *)
(*   3. SettledSafe: once answered, the client agrees with the server.     *)
(*   4. DemoSafe: the demo store does what the server does.                *)
(***************************************************************************)
EXTENDS MailActions, TLAPS

USE ActionsAssumption

(***************************************************************************)
(* 1. Types                                                                *)
(***************************************************************************)
LEMMA RowOfType ==
  ASSUME NEW labels \in SUBSET Server!Labels
  PROVE  Server!RowOf(labels) \in RowType
  BY DEF Server!RowOf, Server!Columns, Server!DeriveStatus, Server!Statuses, RowType

LEMMA ReflagType ==
  ASSUME NEW labels \in SUBSET Server!Labels
  PROVE  Reflag(labels) \in RowType
  BY DEF Reflag, DemoStatus, Server!Statuses, RowType

LEMMA EmptyTypes ==
  NoRow \in RowType /\ NoPage \in PageType /\ Absent \in ClientType
  BY DEF NoRow, Server!NoRow, Server!Columns, RowType, NoPage, PageType, Absent, Ui, ClientType

LEMMA UiType ==
  ASSUME NEW r \in RowType
  PROVE  Ui(r) \in ClientType
  BY DEF Ui, RowType, ClientType

LEMMA OptimisticType ==
  ASSUME NEW cmd \in Commands, NEW r \in ClientType
  PROVE  Optimistic(cmd, r) \in ClientType
  BY DEF Optimistic, Commands, ClientType, Server!Labels, Server!ProtectedLabels, Server!Statuses

LEMMA ResultType ==
  ASSUME TypeOK, NEW ask \in Asks
  PROVE  /\ Result(ask)[1] \in {"ok", "already", "error"}
         /\ Result(ask)[2] \in RowType
<1>1. row \in RowType /\ row.labels \in SUBSET Server!Labels
  BY DEF TypeOK, RowType
<1>2. /\ {"UNREAD", "STARRED", "INBOX", "SENT", "DRAFT", "TRASH"} \subseteq Server!Labels
      /\ UserLabels \subseteq Server!Labels
  BY DEF Server!Labels, Server!ProtectedLabels
<1>3. ask.kind \in {"patch", "add", "remove", "delete"}
      /\ (ask.kind \in {"add", "remove"} => ask.arg \in UserLabels)
  BY DEF Asks
<1>4. CASE api = "demo"
  <2>1. DemoPatch(row, Body(ask.arg)) \in RowType
    <3>1. DemoAdds(Body(ask.arg)) \subseteq Server!Labels
      BY <1>2 DEF DemoAdds
    <3> QED
      BY <1>1, <3>1, ReflagType DEF DemoPatch
  <2>2. ask.kind \in {"add", "remove"} => DemoLabel(row, ask.kind, ask.arg) \in RowType
    BY <1>1, <1>2, <1>3, ReflagType DEF DemoLabel
  <2> QED
    BY <1>1, <1>3, <1>4, <2>1, <2>2, EmptyTypes DEF Result, DemoResult
<1>5. CASE api # "demo"
  <2>1. Server!AddLabels(Body(ask.arg)) \subseteq Server!Labels
    BY <1>2 DEF Server!AddLabels
  <2>2. Server!RowOf((row.labels \cup Server!AddLabels(Body(ask.arg)))
                       \ Server!RemoveLabels(Body(ask.arg), row.labels)) \in RowType
    BY <1>1, <2>1, RowOfType
  <2>3. ask.kind \in {"add", "remove"} =>
          /\ Server!RowOf(row.labels \cup {ask.arg}) \in RowType
          /\ Server!RowOf(row.labels \ {ask.arg}) \in RowType
    BY <1>1, <1>2, <1>3, RowOfType
  <2>4. CASE row = NoRow
    BY <1>5, <2>4, EmptyTypes DEF Result, ServerResult
  <2>5. CASE row # NoRow
    <3>1. CASE ask.kind = "patch"
      BY <1>1, <1>5, <2>2, <2>5, <3>1 DEF Result, ServerResult
    <3>2. CASE ask.kind \in {"add", "remove"}
      BY <1>1, <1>5, <2>3, <2>5, <3>2 DEF Result, ServerResult
    <3>3. CASE ask.kind = "delete"
      BY <1>1, <1>5, <2>5, <3>3, EmptyTypes DEF Result, ServerResult
    <3> QED
      BY <1>3, <3>1, <3>2, <3>3
  <2> QED
    BY <2>4, <2>5
<1> QED
  BY <1>4, <1>5

LEMMA PageTypes ==
  ASSUME TypeOK
  PROVE  PageNow \in PageType /\ Aged(poll) \in PageType /\ Aged(load) \in PageType
  BY EmptyTypes DEF TypeOK, PageNow, Aged, PageType

LEMMA MergedType ==
  ASSUME TypeOK, NEW page \in RowType
  PROVE  Merged(page) \in ClientType
  BY UiType DEF TypeOK, Merged

\* A new call is numbered and typed.
LEMMA MakesType ==
  ASSUME TypeOK, NEW ask \in Asks, NEW shown \in ClientType, NEW prev \in ClientType,
         Makes(ask, shown, prev)
  PROVE  /\ made' \in 0..MaxCalls /\ calm' \in BOOLEAN
         /\ calls' \subseteq CallType /\ \A c \in calls' : c.n <= made'
<1>1. made' \in 1..MaxCalls /\ made' = made + 1 /\ calm' \in BOOLEAN
  BY DEF Makes, TypeOK
<1> DEFINE new == [n |-> made + 1, ask |-> ask, shown |-> shown, prev |-> prev,
                   answer |-> "none", row |-> NoRow]
<1>2. new \in CallType /\ new.n = made'
  BY <1>1, EmptyTypes DEF CallType
<1>3. calls' = calls \cup {new}
  BY DEF Makes
<1>4. \A c \in calls : c.n \in Nat /\ c.n <= made
  BY DEF TypeOK, CallType
<1> QED
  BY <1>1, <1>2, <1>3, <1>4 DEF TypeOK

LEMMA InitTypes == Init => TypeOK
<1> SUFFICES ASSUME Init PROVE TypeOK
  OBVIOUS
<1>1. row \in RowType
  BY RowOfType, ReflagType DEF Init, Made
<1>2. made \in 0..MaxCalls /\ events \in 0..MaxEvents /\ calls = {}
  BY DEF Init
<1> QED
  BY <1>1, <1>2, EmptyTypes DEF Init, TypeOK, Folders, Views

LEMMA PatchesType ==
  ASSUME TypeOK, NEW cmd \in Commands, NEW r \in ClientType, NEW prev \in ClientType,
         Patches(cmd, r, prev)
  PROVE  /\ client' \in ClientType /\ pending' \in BOOLEAN
         /\ made' \in 0..MaxCalls /\ calm' \in BOOLEAN
         /\ calls' \subseteq CallType /\ \A c \in calls' : c.n <= made'
<1>1. Optimistic(cmd, r) \in ClientType
  BY OptimisticType
<1>2. [kind |-> "patch", arg |-> cmd] \in Asks
  BY DEF Asks
<1> QED
  BY <1>1, <1>2, MakesType DEF Patches

LEMMA UserTypes ==
  ASSUME TypeOK, User
  PROVE  TypeOK'
<1>0. client \in ClientType /\ row \in RowType
  BY DEF TypeOK
<1>1. ASSUME NEW cmd \in Commands, Command(cmd) PROVE TypeOK'
  BY <1>0, <1>1, PatchesType DEF Command, TypeOK
<1>2. CASE OpenMessage
  <2> DEFINE r == IF client = Absent THEN Ui(row) ELSE client
  <2>1. r \in ClientType
    BY <1>0, UiType
  <2>2. CASE r.isRead
    BY <1>2, <2>1, <2>2 DEF OpenMessage, TypeOK
  <2>3. CASE ~r.isRead
    <3>1. Patches("read", r, client)
      BY <1>2, <2>3 DEF OpenMessage
    <3>2. "read" \in Commands
      BY DEF Commands
    <3> QED
      BY <1>0, <1>2, <2>1, <3>1, <3>2, PatchesType DEF OpenMessage, TypeOK
  <2> QED
    BY <2>2, <2>3
<1>3. CASE Close
  BY <1>3 DEF Close, TypeOK
<1>4. ASSUME NEW op \in {"add", "remove"}, NEW l \in UserLabels, Chip(op, l) PROVE TypeOK'
  <2>1. client' \in ClientType
    BY <1>0, <1>4 DEF Chip, ClientType
  <2>2. [kind |-> op, arg |-> l] \in Asks
    BY DEF Asks
  <2> QED
    BY <1>0, <1>4, <2>1, <2>2, MakesType DEF Chip, TypeOK
<1>5. CASE BulkDeleteForever
  <2>1. [kind |-> "delete", arg |-> "forever"] \in Asks
    BY DEF Asks
  <2> QED
    BY <1>0, <1>5, <2>1, EmptyTypes, MakesType DEF BulkDeleteForever, TypeOK
<1>6. CASE DeleteForeverSelected
  BY <1>6, EmptyTypes DEF DeleteForeverSelected, TypeOK
<1>7. ASSUME NEW f \in Visited, Load(f) PROVE TypeOK'
  BY <1>7, EmptyTypes DEF Load, TypeOK
<1> QED
  BY <1>1, <1>2, <1>3, <1>4, <1>5, <1>6, <1>7 DEF User

\* Answering a call changes the answer and the row it carries, nothing else.
LEMMA AnsweredType ==
  ASSUME TypeOK, NEW c \in calls, NEW answer \in {"ok", "already", "error"}, NEW r \in RowType
  PROVE  /\ Answered(c, answer, r) \in CallType
         /\ Answered(c, answer, r).n = c.n /\ Answered(c, answer, r).ask = c.ask
         /\ Answered(c, answer, r).shown = c.shown
  BY DEF TypeOK, Answered, CallType

LEMMA ReplacedType ==
  ASSUME TypeOK, NEW c \in calls, NEW answer \in {"ok", "already", "error"}, NEW r \in RowType,
         calls' = (calls \ {c}) \cup {Answered(c, answer, r)}, made' = made
  PROVE  calls' \subseteq CallType /\ \A d \in calls' : d.n <= made'
  BY AnsweredType DEF TypeOK

LEMMA UpdateType ==
  ASSUME NEW r \in ClientType, Update(r)
  PROVE  client' \in ClientType
  BY EmptyTypes DEF Update

LEMMA PatchAnsweredType ==
  ASSUME TypeOK, NEW c \in CallType, c.answer \in {"ok", "already", "error"}, PatchAnswered(c)
  PROVE  client' \in ClientType
<1>0. c.row \in RowType /\ c.prev \in ClientType /\ client \in ClientType
  BY DEF TypeOK, CallType
<1>1. CASE c.answer = "ok"
  <2>1. [client EXCEPT !.isRead = c.row.isRead, !.isStarred = c.row.isStarred,
                       !.status = c.row.status] \in ClientType
    BY <1>0 DEF ClientType, RowType
  <2> QED
    BY <1>1, <2>1, UpdateType DEF PatchAnswered
<1>2. CASE c.answer = "already"
  BY <1>0, <1>2 DEF PatchAnswered
<1>3. CASE c.answer = "error"
  <2>1. [client EXCEPT !.isRead = c.prev.isRead, !.isStarred = c.prev.isStarred,
                       !.status = c.prev.status, !.labels = c.prev.labels] \in ClientType
    BY <1>0 DEF ClientType
  <2> QED
    BY <1>0, <1>3, <2>1, UpdateType DEF PatchAnswered
<1> QED
  BY <1>1, <1>2, <1>3

LEMMA ChipAnsweredType ==
  ASSUME TypeOK, NEW c \in CallType, c.answer \in {"ok", "already", "error"}, ChipAnswered(c)
  PROVE  client' \in ClientType
<1>0. c.row \in RowType /\ c.prev \in ClientType /\ client \in ClientType
  BY DEF TypeOK, CallType
<1>1. CASE c.answer = "ok"
  <2>1. [client EXCEPT !.labels = c.row.labels,
                       !.chips = c.row.labels \cap UserLabels] \in ClientType
    BY <1>0 DEF ClientType, RowType
  <2> QED
    BY <1>1, <2>1, UpdateType DEF ChipAnswered
<1>2. CASE c.answer = "already"
  BY <1>0, <1>2 DEF ChipAnswered
<1>3. CASE c.answer = "error"
  <2>1. [client EXCEPT !.chips = c.prev.chips] \in ClientType
    BY <1>0 DEF ClientType
  <2> QED
    BY <1>3, <2>1, UpdateType DEF ChipAnswered
<1> QED
  BY <1>1, <1>2, <1>3

LEMMA ApiTypes ==
  ASSUME TypeOK, NEW c \in calls, Serve(c) \/ Fails(c) \/ Answer(c)
  PROVE  TypeOK'
<1>0. c \in CallType /\ c.ask \in Asks /\ c.row \in RowType /\ c.prev \in ClientType
      /\ client \in ClientType /\ row \in RowType
  BY DEF TypeOK, CallType
<1>1. CASE Serve(c)
  <2>1. row' \in RowType /\ Result(c.ask)[1] \in {"ok", "already", "error"}
    BY <1>0, <1>1, ResultType DEF Serve
  <2>2. calls' \subseteq CallType /\ \A d \in calls' : d.n <= made'
    BY <1>1, <2>1, ReplacedType DEF Serve
  <2> QED
    BY <1>1, <2>1, <2>2 DEF Serve, TypeOK
<1>2. CASE Fails(c)
  <2>1. row' \in RowType
    BY <1>0, <1>2, ResultType DEF Fails
  <2>2. calls' \subseteq CallType /\ \A d \in calls' : d.n <= made'
    BY <1>2, <2>1, ReplacedType DEF Fails
  <2>3. events' \in 0..MaxEvents /\ calm' \in BOOLEAN
    BY <1>2 DEF Fails, TypeOK
  <2> QED
    BY <1>2, <2>1, <2>2, <2>3 DEF Fails, TypeOK
<1>3. CASE Answer(c)
  <2>1. client' \in ClientType
    <3>0. c.answer \in {"ok", "already", "error"}
      BY <1>0, <1>3 DEF Answer, CallType
    <3>1. CASE c.ask.kind = "patch"
      BY <1>0, <1>3, <3>0, <3>1, PatchAnsweredType DEF Answer
    <3>2. CASE c.ask.kind = "delete"
      BY <1>0, <1>3, <3>2 DEF Answer
    <3>3. CASE c.ask.kind \notin {"patch", "delete"}
      BY <1>0, <1>3, <3>0, <3>3, ChipAnsweredType DEF Answer
    <3> QED
      BY <3>1, <3>2, <3>3
  <2>2. pending' \in BOOLEAN /\ calls' \subseteq calls
    BY <1>3 DEF Answer
  <2> QED
    BY <1>3, <2>1, <2>2, PageTypes DEF Answer, TypeOK
<1> QED
  BY <1>1, <1>2, <1>3

LEMMA PagesTypes ==
  ASSUME TypeOK, PollRead \/ PollArrives \/ PollLost \/ LoadRead \/ LoadArrives
  PROVE  TypeOK'
<1>0. client \in ClientType /\ poll.row \in RowType /\ load.row \in RowType
  BY DEF TypeOK, PageType
<1>1. CASE PollRead
  BY <1>1, PageTypes DEF PollRead, TypeOK
<1>2. CASE PollArrives
  BY <1>0, <1>2, EmptyTypes, MergedType DEF PollArrives, TypeOK
<1>3. CASE PollLost
  BY <1>3, EmptyTypes DEF PollLost, TypeOK
<1>4. CASE LoadRead
  BY <1>4, PageTypes DEF LoadRead, TypeOK
<1>5. CASE LoadArrives
  BY <1>0, <1>5, EmptyTypes, UiType DEF LoadArrives, TypeOK
<1> QED
  BY <1>1, <1>2, <1>3, <1>4, <1>5

LEMMA ElsewhereTypes ==
  ASSUME TypeOK, NEW l \in Toggled, ChangedElsewhere(l)
  PROVE  TypeOK'
<1>1. row' \in RowType
  BY RowOfType DEF ChangedElsewhere, TypeOK, RowType
<1>2. events' \in 0..MaxEvents
  BY DEF ChangedElsewhere, TypeOK
<1> QED
  BY <1>1, <1>2, PageTypes DEF ChangedElsewhere, TypeOK

LEMMA NextTypes == TypeOK /\ [Next]_vars => TypeOK'
<1> SUFFICES ASSUME TypeOK, [Next]_vars PROVE TypeOK'
  OBVIOUS
<1>1. CASE UNCHANGED vars
  BY <1>1 DEF vars, TypeOK
<1> QED
  BY <1>1, UserTypes, ApiTypes, PagesTypes, ElsewhereTypes DEF Next

\* Rows, pages, calls and the client's copy are well typed: a chip is always a
\* user's label, a call is numbered below the number made.
THEOREM TypeCorrect == Spec => []TypeOK
  BY InitTypes, NextTypes, PTL DEF Spec

(***************************************************************************)
(* 2. What the user did stays on the screen                                *)
(***************************************************************************)
\* A new call ends calm unless it is the only one and the row is in the list.
LEMMA MakesShown ==
  ASSUME TypeOK, OneShown, NEW ask \in Asks, NEW shown \in ClientType,
         NEW prev \in ClientType, Makes(ask, shown, prev),
         ask.kind = "patch" => pending' /\ client' = shown
  PROVE  OneShown'
<1> SUFFICES ASSUME calm', NEW c \in calls'
             PROVE  /\ calls' = {c}
                    /\ c.ask.kind = "patch" /\ client' # Absent => pending' /\ client' = c.shown
  BY DEF OneShown, Absent, Ui, NoRow, Server!NoRow, Server!Columns
<1>1. calls = {}
  BY DEF Makes
<1>2. calls' = {c} /\ c.ask = ask /\ c.shown = shown
  BY <1>1 DEF Makes
<1> QED
  BY <1>2

\* Steps that leave the calls alone, and the client's copy or the obligation.
LEMMA KeptShown ==
  ASSUME OneShown, calls' = calls, calm' => calm,
         calm' /\ client' # Absent /\ calls # {} => client # Absent /\ client' = client,
         pending' = pending
  PROVE  OneShown'
  BY DEF OneShown, Absent, Ui, NoRow, Server!NoRow, Server!Columns

LEMMA UserShown ==
  ASSUME TypeOK, OneShown, User
  PROVE  OneShown'
<1>0. client \in ClientType /\ row \in RowType
  BY DEF TypeOK
<1>1. ASSUME NEW cmd \in Commands, NEW r \in ClientType, NEW prev \in ClientType,
             Patches(cmd, r, prev)
      PROVE  OneShown'
  <2>1. [kind |-> "patch", arg |-> cmd] \in Asks /\ Optimistic(cmd, r) \in ClientType
    BY OptimisticType DEF Asks
  <2> QED
    BY <1>1, <2>1, MakesShown DEF Patches
<1>2. ASSUME NEW cmd \in Commands, Command(cmd) PROVE OneShown'
  BY <1>0, <1>1, <1>2 DEF Command
<1>3. CASE OpenMessage
  <2> DEFINE r == IF client = Absent THEN Ui(row) ELSE client
  <2>1. r \in ClientType
    BY <1>0, UiType
  <2>2. CASE r.isRead
    <3>1. /\ client' = r /\ calm' = (calm /\ client # Absent)
          /\ pending' = pending /\ calls' = calls
      BY <1>3, <2>2 DEF OpenMessage
    <3> QED
      BY <3>1, KeptShown
  <2>3. CASE ~r.isRead
    <3>1. Patches("read", r, client) /\ "read" \in Commands
      BY <1>3, <2>3 DEF OpenMessage, Commands
    <3> QED
      BY <1>0, <1>1, <2>1, <3>1
  <2> QED
    BY <2>2, <2>3
<1>4. CASE Close
  BY <1>4, KeptShown DEF Close
<1>5. ASSUME NEW op \in {"add", "remove"}, NEW l \in UserLabels, Chip(op, l) PROVE OneShown'
  <2>1. client' \in ClientType
    BY <1>0, <1>5 DEF Chip, ClientType
  <2>2. [kind |-> op, arg |-> l] \in Asks
    BY DEF Asks
  <2> QED
    BY <1>0, <1>5, <2>1, <2>2, MakesShown DEF Chip
<1>6. CASE BulkDeleteForever
  <2>1. [kind |-> "delete", arg |-> "forever"] \in Asks
    BY DEF Asks
  <2> QED
    BY <1>0, <1>6, <2>1, EmptyTypes, MakesShown DEF BulkDeleteForever
<1>7. CASE DeleteForeverSelected
  BY <1>7, KeptShown DEF DeleteForeverSelected
<1>8. ASSUME NEW f \in Visited, Load(f) PROVE OneShown'
  BY <1>8, KeptShown DEF Load
<1> QED
  BY <1>2, <1>3, <1>4, <1>5, <1>6, <1>7, <1>8 DEF User

\* An answer on its way changes neither what was asked nor what was shown.
LEMMA ReplacedShown ==
  ASSUME TypeOK, OneShown, NEW c \in calls, NEW answer \in {"ok", "already", "error"},
         NEW r \in RowType, calls' = (calls \ {c}) \cup {Answered(c, answer, r)},
         calm' => calm, client' = client, pending' = pending
  PROVE  OneShown'
<1>1. Answered(c, answer, r).ask = c.ask /\ Answered(c, answer, r).shown = c.shown
  BY AnsweredType
<1> SUFFICES ASSUME calm', NEW d \in calls'
             PROVE  /\ calls' = {d}
                    /\ d.ask.kind = "patch" /\ client # Absent => pending /\ client = d.shown
  BY DEF OneShown, Absent, Ui, NoRow, Server!NoRow, Server!Columns
<1>2. calls = {c} /\ (c.ask.kind = "patch" /\ client # Absent => pending /\ client = c.shown)
  BY DEF OneShown
<1>3. d = Answered(c, answer, r) /\ calls' = {d}
  BY <1>2
<1> QED
  BY <1>1, <1>2, <1>3

LEMMA ApiShown ==
  ASSUME TypeOK, OneShown, NEW c \in calls, Serve(c) \/ Fails(c) \/ Answer(c)
  PROVE  OneShown'
<1>0. c \in CallType /\ c.ask \in Asks
  BY DEF TypeOK, CallType
<1>1. CASE Serve(c)
  <2>1. row' \in RowType /\ Result(c.ask)[1] \in {"ok", "already", "error"}
    BY <1>0, <1>1, ResultType DEF Serve
  <2> QED
    BY <1>1, <2>1, ReplacedShown DEF Serve
<1>2. CASE Fails(c)
  <2>1. row' \in RowType
    BY <1>0, <1>2, ResultType DEF Fails, TypeOK
  <2> QED
    BY <1>2, <2>1, ReplacedShown DEF Fails
<1>3. CASE Answer(c)
  BY <1>3 DEF Answer, OneShown
<1> QED
  BY <1>1, <1>2, <1>3

LEMMA PagesShown ==
  ASSUME TypeOK, OneShown, PollRead \/ PollArrives \/ PollLost \/ LoadRead \/ LoadArrives
  PROVE  OneShown'
<1>1. CASE PollRead \/ PollLost \/ LoadRead
  BY <1>1, KeptShown DEF PollRead, PollLost, LoadRead
<1>2. CASE PollArrives
  <2> SUFFICES ASSUME calm', NEW c \in calls'
               PROVE  /\ calls' = {c}
                      /\ c.ask.kind = "patch" /\ client' # Absent => pending' /\ client' = c.shown
    BY DEF OneShown, Absent, Ui, NoRow, Server!NoRow, Server!Columns
  <2>1. calls' = calls /\ pending' = pending /\ calm /\ client # Absent
    BY <1>2 DEF PollArrives
  <2>2. calls = {c} /\ (c.ask.kind = "patch" => pending /\ client = c.shown)
    BY <2>1 DEF OneShown
  <2>3. c.ask.kind = "patch" => client' = client
    BY <1>2, <2>1, <2>2 DEF PollArrives, Merged
  <2> QED
    BY <2>1, <2>2, <2>3
<1>3. CASE LoadArrives
  BY <1>3 DEF LoadArrives, OneShown, Absent, Ui, NoRow, Server!NoRow, Server!Columns
<1> QED
  BY <1>1, <1>2, <1>3

LEMMA AlwaysShown == Spec => []OneShown
<1>1. Init => OneShown
  BY DEF Init, OneShown
<1>2. TypeOK /\ OneShown /\ [Next]_vars => OneShown'
  <2> SUFFICES ASSUME TypeOK, OneShown, [Next]_vars PROVE OneShown'
    OBVIOUS
  <2>1. CASE UNCHANGED vars
    BY <2>1, KeptShown DEF vars
  <2>2. ASSUME NEW l \in Toggled, ChangedElsewhere(l) PROVE OneShown'
    BY <2>2 DEF ChangedElsewhere, OneShown
  <2> QED
    BY <2>1, <2>2, UserShown, ApiShown, PagesShown DEF Next
<1> QED
  BY <1>1, <1>2, TypeCorrect, PTL DEF Spec

\* A change shown before the API has answered stays on the screen until it has
\* answered, whatever polls arrive meanwhile. calm excepts what the pending mark does
\* not stop: another call for the message, a first page that arrives during the call,
\* a page read before an earlier answer, changes made elsewhere, and a failed call that
\* was carried out.
THEOREM OptimisticSafe == Spec => []OptimisticHolds
<1>1. OneShown => OptimisticHolds
  BY DEF OneShown, OptimisticHolds
<1> QED
  BY <1>1, AlwaysShown, PTL

(***************************************************************************)
(* 3. Once every call is answered, the client shows the server's row       *)
(***************************************************************************)
LEMMA MadeColumns ==
  ASSUME NEW labels
  PROVE  /\ Made(labels).labels = labels /\ Made(labels) # NoRow
         /\ Made(labels).isRead = ("UNREAD" \notin labels)
         /\ Made(labels).isStarred = ("STARRED" \in labels)
         /\ Made(labels).status = IF api = "demo" THEN DemoStatus(labels)
                                                  ELSE Server!DeriveStatus(labels)
  BY DEF Made, Server!RowOf, Server!Columns, Server!DeriveStatus, Reflag, DemoStatus,
         NoRow, Server!NoRow

LEMMA CommandAsks ==
  ASSUME NEW ask \in Asks
  PROVE  /\ ask.kind \in {"patch", "add", "remove", "delete"}
         /\ ask.kind = "patch" => ask.arg \in Commands
         /\ ask.kind \in Chips => ask.arg \in UserLabels
  BY DEF Asks, Chips

\* The labels a call leaves on the row when it is carried out.
NewLabels(ask, a) ==
  CASE ask.kind = "patch" ->
         IF api = "demo" THEN (a \ DemoRemoves(Body(ask.arg))) \cup DemoAdds(Body(ask.arg))
         ELSE (a \cup Server!AddLabels(Body(ask.arg))) \ Server!RemoveLabels(Body(ask.arg), a)
    [] ask.kind = "add"    -> a \cup {ask.arg}
    [] ask.kind = "remove" -> a \ {ask.arg}

\* What a call makes of a row that is there.
LEMMA ResultOf ==
  ASSUME row # NoRow, NEW ask \in Asks, ask.kind # "delete"
  PROVE  \/ Result(ask) = <<"ok", Made(NewLabels(ask, row.labels))>>
         \/ /\ Result(ask) = <<"already", row>> /\ api # "demo"
            /\ ask.kind = "patch" => Server!AlreadyInState(Body(ask.arg))
            /\ ask.kind = "add" => ask.arg \in row.labels
            /\ ask.kind = "remove" => ask.arg \notin row.labels
<1>1. ask.kind \in {"patch", "add", "remove"}
  BY CommandAsks
<1>2. CASE api = "demo"
  BY <1>1, <1>2 DEF Result, DemoResult, DemoPatch, DemoLabel, Made, NewLabels
<1>3. CASE api # "demo"
  BY <1>1, <1>3 DEF Result, ServerResult, Made, NewLabels
<1> QED
  BY <1>2, <1>3

LEMMA ResultKinds ==
  ASSUME NEW ask \in Asks
  PROVE  /\ Result(ask)[1] \in {"already", "error"} => Result(ask)[2] = row
         /\ row = NoRow => Result(ask)[2] = NoRow
         /\ ask.kind = "delete" => Result(ask)[2] \in {row, NoRow}
<1>1. ask.kind \in {"patch", "add", "remove", "delete"}
  BY CommandAsks
<1>2. CASE api = "demo"
  BY <1>1, <1>2 DEF Result, DemoResult
<1>3. CASE api # "demo"
  BY <1>1, <1>3 DEF Result, ServerResult
<1> QED
  BY <1>2, <1>3

LEMMA ResultCoherent ==
  ASSUME RowCoherent, NEW ask \in Asks
  PROVE  Result(ask)[2] # NoRow => Result(ask)[2] = Made(Result(ask)[2].labels)
<1>1. CASE row = NoRow \/ ask.kind = "delete"
  BY <1>1, ResultKinds DEF RowCoherent
<1>2. CASE row # NoRow /\ ask.kind # "delete"
  <2>1. CASE Result(ask) = <<"ok", Made(NewLabels(ask, row.labels))>>
    BY <2>1, MadeColumns
  <2>2. CASE Result(ask) = <<"already", row>>
    BY <2>2 DEF RowCoherent
  <2> QED
    BY <1>2, <2>1, <2>2, ResultOf
<1> QED
  BY <1>1, <1>2

\* Steps that leave the server's row alone.
LEMMA RowKept ==
  ASSUME \/ User \/ UNCHANGED vars \/ PollRead \/ PollArrives \/ PollLost \/ LoadRead
         \/ LoadArrives \/ \E c \in calls : Answer(c)
  PROVE  row' = row /\ api' = api
  BY DEF User, Command, OpenMessage, Close, Chip, BulkDeleteForever, DeleteForeverSelected,
     Load, vars, PollRead, PollArrives, PollLost, LoadRead, LoadArrives, Answer

LEMMA RowsCoherent == Spec => []RowCoherent
<1>1. Init => RowCoherent
  BY MadeColumns DEF Init, RowCoherent
<1>2. TypeOK /\ RowCoherent /\ [Next]_vars => RowCoherent'
  <2> SUFFICES ASSUME TypeOK, RowCoherent, [Next]_vars,
                      row' # NoRow
               PROVE  row' = Made(row'.labels) /\ api' = api
    BY DEF RowCoherent, Made, NoRow, Server!NoRow, Server!Columns
  <2>1. ASSUME NEW c \in calls, Serve(c) \/ Fails(c)
        PROVE  row' = Made(row'.labels) /\ api' = api
    <3>1. c.ask \in Asks
      BY DEF TypeOK, CallType
    <3>2. row' \in {row, Result(c.ask)[2]} /\ api' = api
      BY <2>1 DEF Serve, Fails
    <3> QED
      BY <3>1, <3>2, ResultCoherent DEF RowCoherent
  <2>2. ASSUME NEW l \in Toggled, ChangedElsewhere(l)
        PROVE  row' = Made(row'.labels) /\ api' = api
    BY <2>2 DEF ChangedElsewhere, Made, Server!RowOf, Server!Columns
  <2>3. CASE \/ User \/ UNCHANGED vars \/ PollRead \/ PollArrives \/ PollLost \/ LoadRead
             \/ LoadArrives \/ \E c \in calls : Answer(c)
    BY <2>3, RowKept DEF RowCoherent
  <2> QED
    BY <2>1, <2>2, <2>3 DEF Next
<1> QED
  BY <1>1, <1>2, TypeCorrect, PTL DEF Spec

\* A chip leaves everything but the chips of a row as it was.
LEMMA ChipKeeps ==
  ASSUME RowCoherent, row # NoRow, NEW ask \in Asks, ask.kind \in Chips
  PROVE  /\ Result(ask)[2] # NoRow
         /\ Flags(Result(ask)[2]) = Flags(row)
         /\ InInbox(Result(ask)[2]) <=> InInbox(row)
<1> DEFINE a == row.labels
           b == NewLabels(ask, a)
<1>1. ask.arg \notin {"UNREAD", "STARRED", "INBOX", "SENT", "DRAFT", "TRASH"}
  BY CommandAsks DEF Server!ProtectedLabels
<1>2. \A l \in {"UNREAD", "STARRED", "INBOX", "SENT", "DRAFT", "TRASH"} : l \in a <=> l \in b
  BY <1>1 DEF NewLabels, Chips
<1>3. /\ Made(a).isRead = Made(b).isRead /\ Made(a).isStarred = Made(b).isStarred
      /\ Made(a).status = Made(b).status
  <2> HIDE DEF a, b
  <2> QED
    BY <1>2, MadeColumns DEF DemoStatus, Server!DeriveStatus
<1>4. Flags(Made(b)) = Flags(Made(a)) /\ (InInbox(Made(b)) <=> InInbox(Made(a)))
  <2> HIDE DEF a, b
  <2> QED
    BY <1>2, <1>3, MadeColumns DEF Flags, InInbox
<1>5. Result(ask)[2] \in {row, Made(b)}
  BY ResultOf DEF Chips
<1>6. row = Made(a)
  BY DEF RowCoherent
<1> QED
  BY <1>4, <1>5, <1>6, MadeColumns

\* The commands: what an answer makes of the optimistic copy agrees with what the
\* call has made of the row, whichever store answers.
LEMMA CommandAgrees ==
  ASSUME NEW cmd \in Commands, NEW a \in SUBSET Server!Labels, NEW u \in ClientType,
         Offered(cmd, u), Agrees(u, Made(a)), NEW b,
         b = NewLabels([kind |-> "patch", arg |-> cmd], a)
  PROVE  Agrees([Optimistic(cmd, u) EXCEPT !.isRead = Made(b).isRead,
                   !.isStarred = Made(b).isStarred, !.status = Made(b).status], Made(b))
<1> DEFINE o == Optimistic(cmd, u)
           w == [o EXCEPT !.isRead = Made(b).isRead, !.isStarred = Made(b).isStarred,
                          !.status = Made(b).status]
<1>0. UserLabels \cap {"UNREAD", "STARRED", "INBOX", "SENT", "DRAFT", "TRASH"} = {}
  BY DEF Server!ProtectedLabels
<1>1. o \in ClientType
  BY OptimisticType
<1>2. /\ w.isRead = Made(b).isRead /\ w.isStarred = Made(b).isStarred
      /\ w.status = Made(b).status /\ w.labels = o.labels /\ w.chips = o.chips
  BY <1>1 DEF ClientType
<1>3. u.chips = a \cap UserLabels /\ u.status = Made(a).status
      /\ ("INBOX" \in u.labels /\ u.status # "trash" <=> "INBOX" \in a /\ Made(a).status # "trash")
  BY MadeColumns DEF Agrees, Flags, InInbox
<1>4. o.chips = b \cap UserLabels
  <2>1. o.chips = u.chips
    BY DEF Optimistic, Commands, ClientType
  <2>2. a \cap UserLabels = b \cap UserLabels
    BY <1>0 DEF NewLabels, DemoRemoves, DemoAdds, Server!AddLabels, Server!RemoveLabels
  <2> QED
    BY <1>3, <2>1, <2>2
<1>5. "INBOX" \in o.labels /\ Made(b).status # "trash" <=>
      "INBOX" \in b /\ Made(b).status # "trash"
  <2>1. /\ Made(b).status = IF api = "demo" THEN DemoStatus(b) ELSE Server!DeriveStatus(b)
        /\ Made(a).status = IF api = "demo" THEN DemoStatus(a) ELSE Server!DeriveStatus(a)
    BY MadeColumns
  <2> USE DEF Optimistic, ClientType, Body, On, Off, NewLabels, DemoRemoves, DemoAdds,
              Server!AddLabels, Server!RemoveLabels
  <2>2. CASE cmd \in {"archive", "trash"}
    <3>1. "INBOX" \notin o.labels
      BY <2>2
    <3>2. "INBOX" \notin b
      BY <2>2
    <3> QED
      BY <3>1, <3>2
  <2>3. CASE cmd \in {"restore", "inbox"}
    <3>1. "INBOX" \in o.labels
      BY <2>3
    <3>2. "INBOX" \in b
      BY <2>3
    <3> QED
      BY <3>1, <3>2
  <2>4. CASE cmd \in {"read", "unread", "star", "unstar"}
    <3>1. "INBOX" \in o.labels <=> "INBOX" \in u.labels
      BY <2>4
    <3>2. \A l \in {"INBOX", "SENT", "DRAFT", "TRASH"} : l \in a <=> l \in b
      BY <2>4
    <3>3. Made(b).status = Made(a).status
      BY <2>1, <3>2 DEF DemoStatus, Server!DeriveStatus
    <3> QED
      BY <1>3, <3>1, <3>2, <3>3
  <2> QED
    BY <2>2, <2>3, <2>4 DEF Commands
<1> QED
  BY <1>2, <1>4, <1>5, MadeColumns DEF Agrees, Flags, InInbox

\* A refusal because the row is in that state already: so is the optimistic copy.
LEMMA AlreadyAgrees ==
  ASSUME NEW cmd \in Commands, NEW u \in ClientType, Offered(cmd, u), TypeOK, RowCoherent,
         api # "demo", Agrees(u, row), Server!AlreadyInState(Body(cmd))
  PROVE  Agrees(Optimistic(cmd, u), row)
<1> DEFINE o == Optimistic(cmd, u)
<1>1. /\ row # NoRow /\ u.chips = row.labels \cap UserLabels
      /\ u.isRead = row.isRead /\ u.isStarred = row.isStarred /\ u.status = row.status
      /\ InInbox(u) <=> InInbox(row)
  BY DEF Agrees, Flags
<1>2. row.status = Server!DeriveStatus(row.labels)
  BY <1>1, MadeColumns DEF RowCoherent
<1>3. \A f \in {"read", "starred", "archived", "trashed"} :
        /\ f \in Body(cmd).on => f \in Server!Holds(row)
        /\ f \in Body(cmd).off => f \notin Server!Holds(row)
  BY DEF Server!AlreadyInState
<1>4. /\ "read" \in Server!Holds(row) <=> row.isRead
      /\ "starred" \in Server!Holds(row) <=> row.isStarred
      /\ "archived" \in Server!Holds(row) <=> row.status = "archived"
      /\ "trashed" \in Server!Holds(row) <=> row.status = "trash"
  BY DEF Server!Holds, Server!Fields
<1> HIDE DEF Server!Holds
<1>5. /\ o.isRead = row.isRead /\ o.isStarred = row.isStarred /\ o.status = row.status
      /\ o.chips = u.chips
  <2> USE DEF Optimistic, ClientType, Body, On, Off, TypeOK, RowType
  <2>1. CASE cmd \in {"archive", "trash"}
    BY <1>1, <1>3, <1>4, <2>1
  <2>2. CASE cmd \in {"restore", "inbox"}
    BY <1>1, <1>3, <1>4, <2>2 DEF Offered
  <2>3. CASE cmd \in {"read", "unread", "star", "unstar"}
    BY <1>1, <1>3, <1>4, <2>3
  <2> QED
    BY <2>1, <2>2, <2>3 DEF Commands
<1>6. InInbox(o) <=> InInbox(row)
  <2>1. CASE cmd \in {"archive", "trash"}
    <3>1. "INBOX" \notin o.labels
      BY <2>1 DEF Optimistic, ClientType
    <3>2. row.status \in {"archived", "trash"}
      BY <1>3, <1>4, <2>1 DEF Body, On
    <3>3. ~InInbox(row)
      BY <1>2, <3>2 DEF InInbox, Server!DeriveStatus
    <3> QED
      BY <3>1, <3>3 DEF InInbox
  <2>2. CASE cmd \in {"restore", "inbox"}
    BY <1>1, <1>3, <1>4, <2>2 DEF Offered, Body, Off
  <2>3. CASE cmd \in {"read", "unread", "star", "unstar"}
    <3>1. "INBOX" \in o.labels <=> "INBOX" \in u.labels
      BY <2>3 DEF Optimistic, ClientType
    <3> QED
      BY <1>1, <1>5, <3>1 DEF InInbox
  <2> QED
    BY <2>1, <2>2, <2>3 DEF Commands
<1> QED
  BY <1>1, <1>5, <1>6 DEF Agrees, Flags


\* Pages that are read now, forgotten or too old to matter, while the row stays.
LEMMA FreshSame ==
  ASSUME PagesFresh, row' = row, calls' = calls, calm' => calm \/ calls = {},
         poll' \in {poll, NoPage, PageNow, Aged(poll)},
         load' \in {load, NoPage, PageNow, Aged(load)}
  PROVE  PagesFresh'
<1>1. ASSUME NEW p, NEW q, Fresh(p), q \in {p, NoPage, PageNow, Aged(p)},
             q.read, ~q.old, q.row # NoRow
      PROVE  /\ (\A c \in calls : c.answer = "none") => q.row = row
             /\ calm' => \A c \in calls :
                  /\ c.answer \in {"already", "error"} => q.row = row
                  /\ c.ask.kind \in Chips =>
                       Flags(q.row) = Flags(row) /\ (InInbox(q.row) <=> InInbox(row))
  <2>1. CASE q = p
    BY <1>1, <2>1 DEF Fresh
  <2>2. CASE q = NoPage
    BY <1>1, <2>2 DEF NoPage
  <2>3. CASE q = PageNow
    <3>1. q.row = row
      BY <1>1, <2>3 DEF PageNow
    <3> QED
      BY <3>1
  <2>4. CASE q = Aged(p)
    <3>1. ~q.read \/ q.old \/ q = p
      BY <2>4 DEF Aged
    <3> QED
      BY <1>1, <2>1, <3>1
  <2> QED
    BY <1>1, <2>1, <2>2, <2>3, <2>4
<1>2. Fresh(poll)'
  BY <1>1 DEF PagesFresh, Fresh, InInbox, Flags, NoRow, Server!NoRow, Server!Columns
<1>3. Fresh(load)'
  BY <1>1 DEF PagesFresh, Fresh, InInbox, Flags, NoRow, Server!NoRow, Server!Columns
<1> QED
  BY <1>2, <1>3 DEF PagesFresh

\* A call that is made now has seen the row every page that is not old holds.
LEMMA FreshMakes ==
  ASSUME PagesFresh, NEW ask, NEW shown, NEW prev, Makes(ask, shown, prev),
         row' = row, poll' = poll, load' = load
  PROVE  PagesFresh'
<1> DEFINE new == [n |-> made + 1, ask |-> ask, shown |-> shown, prev |-> prev,
                   answer |-> "none", row |-> NoRow]
<1>1. calls' = calls \cup {new} /\ new.answer = "none" /\ (calm' => calls = {})
  BY DEF Makes
<1> HIDE DEF new
<1>2. ASSUME NEW p, Fresh(p), p.read, ~p.old, p.row # NoRow
      PROVE  /\ (\A c \in calls' : c.answer = "none") => p.row = row
             /\ calm' => \A c \in calls' :
                  /\ c.answer \in {"already", "error"} => p.row = row
                  /\ c.ask.kind \in Chips =>
                       Flags(p.row) = Flags(row) /\ (InInbox(p.row) <=> InInbox(row))
  <2>1. (\A c \in calls : c.answer = "none") => p.row = row
    BY <1>2 DEF Fresh
  <2>2. CASE calls = {}
    <3>1. p.row = row
      BY <2>1, <2>2
    <3> QED
      BY <1>1, <3>1
  <2>3. CASE calls # {}
    BY <1>1, <2>1, <2>3
  <2> QED
    BY <2>2, <2>3
<1>3. Fresh(poll)'
  BY <1>2 DEF PagesFresh, Fresh, InInbox, Flags, NoRow, Server!NoRow, Server!Columns
<1>4. Fresh(load)'
  BY <1>2 DEF PagesFresh, Fresh, InInbox, Flags, NoRow, Server!NoRow, Server!Columns
<1> QED
  BY <1>3, <1>4 DEF PagesFresh

\* A call that is carried out, or fails, while calm holds.
LEMMA FreshReplaced ==
  ASSUME TypeOK, OneShown, RowCoherent, PagesFresh, NEW c \in calls, c.answer = "none",
         NEW answer \in {"ok", "already", "error"},
         calls' = (calls \ {c}) \cup {Answered(c, answer, row')},
         calm' => calm /\ (answer \in {"already", "error"} => row' = row),
         row' \in {row, Result(c.ask)[2]}, poll' = poll, load' = load
  PROVE  PagesFresh'
<1> DEFINE new == Answered(c, answer, row')
<1>1. calls' = (calls \ {c}) \cup {new} /\ new.answer = answer /\ new.ask = c.ask
  BY DEF Answered, TypeOK, CallType
<1>2. c.ask \in Asks
  BY DEF TypeOK, CallType
<1> HIDE DEF new
<1>3. ASSUME NEW p, Fresh(p), p.read, ~p.old, p.row # NoRow
      PROVE  /\ (\A d \in calls' : d.answer = "none") => p.row = row'
             /\ calm' => \A d \in calls' :
                  /\ d.answer \in {"already", "error"} => p.row = row'
                  /\ d.ask.kind \in Chips =>
                       Flags(p.row) = Flags(row') /\ (InInbox(p.row) <=> InInbox(row'))
  <2>1. (\A d \in calls' : d.answer = "none") => p.row = row'
    BY <1>1
  <2>2. ASSUME calm', NEW d \in calls'
        PROVE  /\ d.answer \in {"already", "error"} => p.row = row'
               /\ d.ask.kind \in Chips =>
                    Flags(p.row) = Flags(row') /\ (InInbox(p.row) <=> InInbox(row'))
    <3>1. calls = {c}
      BY <2>2 DEF OneShown
    <3>2. p.row = row /\ d = new
      BY <1>1, <1>3, <3>1 DEF Fresh
    <3>3. c.ask.kind \in Chips =>
            Flags(row') = Flags(row) /\ (InInbox(row') <=> InInbox(row))
      BY <1>2, <1>3, <3>2, ChipKeeps
    <3> QED
      BY <1>1, <2>2, <3>2, <3>3
  <2> QED
    BY <2>1, <2>2
<1>4. Fresh(poll)'
  BY <1>3 DEF PagesFresh, Fresh, InInbox, Flags, NoRow, Server!NoRow, Server!Columns
<1>5. Fresh(load)'
  BY <1>3 DEF PagesFresh, Fresh, InInbox, Flags, NoRow, Server!NoRow, Server!Columns
<1> QED
  BY <1>4, <1>5 DEF PagesFresh

\* Pages read before the last change of the row do not matter.
LEMMA FreshAged ==
  ASSUME poll' = Aged(poll), load' = Aged(load), TypeOK
  PROVE  PagesFresh'
<1>1. \A p \in PageType : ~Aged(p).read \/ Aged(p).old
  BY DEF Aged, PageType
<1> QED
  BY <1>1 DEF PagesFresh, Fresh, TypeOK

LEMMA FreshStep ==
  ASSUME TypeOK, OneShown, RowCoherent, PagesFresh, [Next]_vars
  PROVE  PagesFresh'
<1>1. CASE User
  <2>1. ASSUME NEW cmd \in Commands, Command(cmd) PROVE PagesFresh'
    BY <2>1, FreshMakes DEF Command, Patches
  <2>2. CASE OpenMessage
    <3>1. ASSUME NEW r, NEW prev, Patches("read", r, prev) PROVE PagesFresh'
      BY <2>2, <3>1, FreshMakes DEF OpenMessage, Patches
    <3>2. CASE UNCHANGED <<pending, calls, made>> /\ calm' = (calm /\ client # Absent)
      BY <2>2, <3>2, FreshSame DEF OpenMessage
    <3> QED
      BY <2>2, <3>1, <3>2 DEF OpenMessage
  <2>3. ASSUME NEW op \in {"add", "remove"}, NEW l \in UserLabels, Chip(op, l)
        PROVE  PagesFresh'
    BY <2>3, FreshMakes DEF Chip
  <2>4. CASE BulkDeleteForever
    BY <2>4, FreshMakes DEF BulkDeleteForever
  <2>5. CASE Close \/ DeleteForeverSelected \/ \E f \in Visited : Load(f)
    BY <2>5, FreshSame DEF Close, DeleteForeverSelected, Load
  <2> QED
    BY <1>1, <2>1, <2>2, <2>3, <2>4, <2>5 DEF User
<1>2. ASSUME NEW c \in calls, Serve(c) PROVE PagesFresh'
  <2>1. c.ask \in Asks /\ c.answer = "none"
    BY <1>2 DEF Serve, Waiting, TypeOK, CallType
  <2>2. Result(c.ask)[1] \in {"ok", "already", "error"}
    BY <2>1, ResultType
  <2>3. Result(c.ask)[1] \in {"already", "error"} => row' = row
    BY <1>2, <2>1, ResultKinds DEF Serve
  <2> QED
    BY <1>2, <2>1, <2>2, <2>3, FreshReplaced DEF Serve
<1>3. ASSUME NEW c \in calls, Fails(c) PROVE PagesFresh'
  BY <1>3, FreshReplaced DEF Fails, Waiting
<1>4. ASSUME NEW c \in calls, Answer(c) PROVE PagesFresh'
  BY <1>4, FreshAged DEF Answer
<1>5. ASSUME NEW l \in Toggled, ChangedElsewhere(l) PROVE PagesFresh'
  BY <1>5, FreshAged DEF ChangedElsewhere
<1>6. CASE PollRead \/ PollLost
  BY <1>6, FreshSame DEF PollRead, PollLost
<1>7. CASE PollArrives
  <2>1. calm' => calm
    BY <1>7 DEF PollArrives
  <2> QED
    BY <1>7, <2>1, FreshSame DEF PollArrives
<1>8. CASE LoadRead \/ UNCHANGED vars
  BY <1>8, FreshSame DEF LoadRead, vars
<1>9. CASE LoadArrives
  <2>1. calm' => calls = {}
    BY <1>9 DEF LoadArrives
  <2> QED
    BY <1>9, <2>1, FreshSame DEF LoadArrives
<1> QED
  BY <1>1, <1>2, <1>3, <1>4, <1>5, <1>6, <1>7, <1>8, <1>9 DEF Next

LEMMA Constants == NoRow' = NoRow /\ Absent' = Absent
  BY DEF Absent, Ui, NoRow, Server!NoRow, Server!Columns

LEMMA AgreePrimed == CallsAgree' <=> (calm' => AllAgree(calls', client', row'))
  BY DEF CallsAgree, AllAgree, PatchInFlight, ChipInFlight, AfterPatch, Agrees, InInbox,
     Flags, Optimistic, Offered, Absent, Ui, NoRow, Server!NoRow, Server!Columns, Chips

\* A call that is made while calm holds finds client and row in agreement.
LEMMA MakesAgree ==
  ASSUME CallsAgree, calm', NEW ask, NEW shown, NEW prev, Makes(ask, shown, prev)
  PROVE  /\ calm /\ calls = {} /\ client # Absent /\ Agrees(client, row)
         /\ calls' = {[n |-> made + 1, ask |-> ask, shown |-> shown, prev |-> prev,
                       answer |-> "none", row |-> NoRow]}
  BY DEF Makes, CallsAgree, AllAgree

LEMMA PatchesAgree ==
  ASSUME TypeOK, CallsAgree, calm', NEW cmd \in Commands, Offered(cmd, client),
         Patches(cmd, client, client), row' = row
  PROVE  AllAgree(calls', client', row')
<1> DEFINE new == [n |-> made + 1, ask |-> [kind |-> "patch", arg |-> cmd],
                   shown |-> Optimistic(cmd, client), prev |-> client,
                   answer |-> "none", row |-> NoRow]
<1>1. client # Absent /\ Agrees(client, row) /\ calls' = {new}
  BY MakesAgree DEF Patches
<1>2. /\ new.prev = client /\ new.ask.kind = "patch" /\ new.ask.arg = cmd
      /\ new.shown = Optimistic(cmd, client) /\ new.answer = "none"
  OBVIOUS
<1> HIDE DEF new
<1>3. AfterPatch(new) = client
  BY <1>2 DEF AfterPatch
<1>4. PatchInFlight(new, row')
  BY <1>1, <1>2, <1>3 DEF PatchInFlight
<1> QED
  BY <1>1, <1>2, <1>4 DEF AllAgree, Chips

LEMMA ChipAgrees ==
  ASSUME TypeOK, CallsAgree, calm', NEW op \in {"add", "remove"}, NEW l \in UserLabels,
         Chip(op, l)
  PROVE  AllAgree(calls', client', row')
<1> DEFINE chips == IF op = "add" THEN client.chips \cup {l} ELSE client.chips \ {l}
           new == [n |-> made + 1, ask |-> [kind |-> op, arg |-> l], shown |-> client',
                   prev |-> client, answer |-> "none", row |-> NoRow]
<1>1. client # Absent /\ Agrees(client, row) /\ calls' = {new} /\ row' = row
  BY MakesAgree DEF Chip
<1>2. /\ new.prev = client /\ new.ask.kind = op /\ new.ask.arg = l
      /\ new.shown = client' /\ new.answer = "none"
  OBVIOUS
<1>3. /\ client'.labels = client.labels /\ client'.isRead = client.isRead
      /\ client'.isStarred = client.isStarred /\ client'.status = client.status
      /\ client'.chips = chips
  BY DEF Chip, TypeOK, ClientType
<1> HIDE DEF new
<1>4. Flags(client') = Flags(row) /\ (InInbox(client') <=> InInbox(row))
  BY <1>1, <1>3 DEF Agrees, Flags, InInbox
<1>5. row # NoRow /\ client.chips = row.labels \cap UserLabels
  BY <1>1 DEF Agrees
<1>6. (op = "add" <=> l \in row.labels) => client'.chips = row.labels \cap UserLabels
  BY <1>3, <1>5
<1>7. ChipInFlight(new, client', row')
  BY <1>1, <1>2, <1>4, <1>5, <1>6 DEF ChipInFlight
<1> QED
  BY <1>1, <1>2, <1>7 DEF AllAgree

\* Steps that leave calls and row alone, and the client's copy or the list without it.
LEMMA SameAgree ==
  ASSUME CallsAgree, calm, calls' = calls, row' = row, client' \in {client, Absent}
  PROVE  AllAgree(calls', client', row')
  BY DEF CallsAgree, AllAgree, ChipInFlight

LEMMA UserAgree ==
  ASSUME TypeOK, CallsAgree, calm', User
  PROVE  AllAgree(calls', client', row')
<1>1. ASSUME NEW cmd \in Commands, Command(cmd) PROVE AllAgree(calls', client', row')
  BY <1>1, PatchesAgree DEF Command
<1>2. CASE OpenMessage
  <2> DEFINE r == IF client = Absent THEN Ui(row) ELSE client
  <2>1. CASE r.isRead
    <3>1. calm /\ client' = client /\ calls' = calls /\ row' = row
      BY <1>2, <2>1 DEF OpenMessage
    <3> QED
      BY <3>1, SameAgree
  <2>2. CASE ~r.isRead
    <3>1. Patches("read", r, client) /\ row' = row
      BY <1>2, <2>2 DEF OpenMessage
    <3>2. client # Absent
      BY <3>1, MakesAgree DEF Patches
    <3>3. Patches("read", client, client) /\ "read" \in Commands /\ Offered("read", client)
      BY <3>1, <3>2 DEF Commands, Offered
    <3> QED
      BY <3>1, <3>3, PatchesAgree
  <2> QED
    BY <2>1, <2>2
<1>3. ASSUME NEW op \in {"add", "remove"}, NEW l \in UserLabels, Chip(op, l)
      PROVE  AllAgree(calls', client', row')
  BY <1>3, ChipAgrees
<1>4. CASE BulkDeleteForever
  <2>1. calls' = {[n |-> made + 1, ask |-> [kind |-> "delete", arg |-> "forever"],
                   shown |-> Absent, prev |-> client, answer |-> "none", row |-> NoRow]}
        /\ client # Absent /\ client' = Absent
    BY <1>4, MakesAgree DEF BulkDeleteForever
  <2> QED
    BY <2>1 DEF AllAgree, Chips
<1>5. CASE Close \/ DeleteForeverSelected \/ \E f \in Visited : Load(f)
  BY <1>5, SameAgree DEF Close, DeleteForeverSelected, Load
<1> QED
  BY <1>1, <1>2, <1>3, <1>4, <1>5 DEF User

\* A PATCH is carried out, or refused because there is nothing to do.
LEMMA ServedPatch ==
  ASSUME TypeOK, RowCoherent, NEW c \in CallType, c.ask.kind = "patch", c.answer = "none",
         PatchInFlight(c, row), NEW d,
         d = Answered(c, Result(c.ask)[1], Result(c.ask)[2])
  PROVE  PatchInFlight(d, Result(c.ask)[2])
<1> DEFINE cmd == c.ask.arg
           a   == row.labels
           b   == NewLabels(c.ask, a)
<1>1. /\ c.ask \in Asks /\ cmd \in Commands /\ c.prev \in ClientType
      /\ c.ask = [kind |-> "patch", arg |-> cmd]
  BY CommandAsks DEF CallType, Asks
<1>2. /\ d.ask = c.ask /\ d.shown = c.shown /\ d.prev = c.prev
      /\ d.answer = Result(c.ask)[1] /\ d.row = Result(c.ask)[2]
  BY DEF Answered, CallType
<1>3. c.shown = Optimistic(cmd, c.prev) /\ Offered(cmd, c.prev) /\ Agrees(c.prev, row)
  BY DEF PatchInFlight, AfterPatch
<1>4. row # NoRow /\ row = Made(a) /\ a \in SUBSET Server!Labels
  BY <1>3 DEF Agrees, RowCoherent, TypeOK, RowType
<1> HIDE DEF cmd, a
<1>5. CASE Result(c.ask) = <<"ok", Made(b)>>
  <2>1. Agrees([Optimistic(cmd, c.prev) EXCEPT !.isRead = Made(b).isRead,
                   !.isStarred = Made(b).isStarred, !.status = Made(b).status], Made(b))
    BY <1>1, <1>3, <1>4, CommandAgrees
  <2>2. d.answer = "ok" /\ d.row = Made(b) /\ Result(c.ask)[2] = Made(b)
    BY <1>2, <1>5
  <2> HIDE DEF b
  <2> QED
    BY <1>2, <1>3, <2>1, <2>2 DEF PatchInFlight, AfterPatch, cmd
<1>6. CASE /\ Result(c.ask) = <<"already", row>> /\ api # "demo"
           /\ Server!AlreadyInState(Body(cmd))
  <2>1. Agrees(Optimistic(cmd, c.prev), row)
    BY <1>1, <1>3, <1>6, AlreadyAgrees
  <2>2. d.answer = "already" /\ Result(c.ask)[2] = row
    BY <1>2, <1>6
  <2> QED
    BY <1>2, <1>3, <2>1, <2>2 DEF PatchInFlight, AfterPatch, cmd
<1> QED
  BY <1>1, <1>4, <1>5, <1>6, ResultOf DEF cmd, a

LEMMA ServedChip ==
  ASSUME TypeOK, RowCoherent, NEW c \in CallType, c.ask.kind \in Chips, c.answer = "none",
         NEW u, ChipInFlight(c, u, row), NEW d,
         d = Answered(c, Result(c.ask)[1], Result(c.ask)[2])
  PROVE  ChipInFlight(d, u, Result(c.ask)[2])
<1> DEFINE r == Result(c.ask)[2]
<1>1. c.ask \in Asks
  BY DEF CallType
<1>2. /\ d.ask = c.ask /\ d.shown = c.shown /\ d.prev = c.prev
      /\ d.answer = Result(c.ask)[1] /\ d.row = r
  BY DEF Answered, CallType
<1>3. row # NoRow /\ r # NoRow /\ Flags(r) = Flags(row) /\ (InInbox(r) <=> InInbox(row))
  BY <1>1, ChipKeeps DEF ChipInFlight
<1>4. \/ d.answer = "ok"
      \/ /\ d.answer = "already" /\ r = row
         /\ c.ask.kind = "add" => c.ask.arg \in row.labels
         /\ c.ask.kind = "remove" => c.ask.arg \notin row.labels
  BY <1>1, <1>2, <1>3, ResultOf DEF Chips
<1> HIDE DEF r
<1>5. CASE d.answer = "ok"
  BY <1>2, <1>3, <1>5 DEF ChipInFlight, r
<1>6. CASE d.answer # "ok"
  <2>1. d.answer = "already" /\ r = row /\ (c.ask.kind = "add" <=> c.ask.arg \in row.labels)
    BY <1>4, <1>6 DEF Chips
  <2>2. c.shown.chips = row.labels \cap UserLabels
    BY <2>1 DEF ChipInFlight
  <2> QED
    BY <1>2, <1>3, <2>1, <2>2 DEF ChipInFlight, r
<1> QED
  BY <1>5, <1>6

LEMMA FailedInFlight ==
  ASSUME NEW c \in CallType, c.answer = "none", NEW u, NEW r, NEW d,
         d = Answered(c, "error", r)
  PROVE  /\ PatchInFlight(c, r) => PatchInFlight(d, r)
         /\ ChipInFlight(c, u, r) => ChipInFlight(d, u, r)
<1>1. /\ d.ask = c.ask /\ d.shown = c.shown /\ d.prev = c.prev /\ d.answer = "error"
  BY DEF Answered, CallType
<1>2. AfterPatch(d) = c.prev /\ AfterPatch(c) = c.prev
  BY <1>1 DEF AfterPatch
<1> QED
  BY <1>1, <1>2 DEF PatchInFlight, ChipInFlight

LEMMA ServeAgree ==
  ASSUME TypeOK, OneShown, RowCoherent, CallsAgree, calm', NEW c \in calls,
         Serve(c) \/ Fails(c)
  PROVE  AllAgree(calls', client', row')
<1> DEFINE d == IF Serve(c) THEN Answered(c, Result(c.ask)[1], Result(c.ask)[2])
                ELSE Answered(c, "error", row)
<1>1. c \in CallType /\ c.ask \in Asks /\ c.answer = "none" /\ calm /\ client' = client
  BY DEF TypeOK, CallType, Serve, Fails, Waiting
<1>2. calls = {c}
  BY <1>1 DEF OneShown
<1>3. calls' = {d} /\ row' = IF Serve(c) THEN Result(c.ask)[2] ELSE row
  BY <1>2 DEF Serve, Fails
<1>4. /\ c.prev # Absent
      /\ c.ask.kind = "patch"  => PatchInFlight(c, row)
      /\ c.ask.kind \in Chips  => ChipInFlight(c, client, row)
      /\ c.ask.kind = "delete" => client = Absent
  BY <1>1 DEF CallsAgree, AllAgree
<1>5. d.prev = c.prev /\ d.ask = c.ask
  BY <1>1 DEF Answered, CallType
<1>6. /\ c.ask.kind = "patch"  => PatchInFlight(d, row')
      /\ c.ask.kind \in Chips  => ChipInFlight(d, client, row')
  <2>1. CASE Serve(c)
    BY <1>1, <1>3, <1>4, <2>1, ServedPatch, ServedChip
  <2>2. CASE ~Serve(c)
    BY <1>1, <1>3, <1>4, <2>2, FailedInFlight
  <2> QED
    BY <2>1, <2>2
<1> HIDE DEF d
<1> QED
  BY <1>1, <1>3, <1>4, <1>5, <1>6 DEF AllAgree

LEMMA AnswerAgree ==
  ASSUME TypeOK, OneShown, CallsAgree, calm', NEW c \in calls, Answer(c)
  PROVE  AllAgree(calls', client', row')
<1>0. /\ c \in CallType /\ c.ask \in Asks /\ c.answer \in {"ok", "already", "error"}
      /\ c.prev \in ClientType /\ c.shown \in ClientType /\ c.row \in RowType
      /\ client \in ClientType /\ calm /\ row' = row
  BY DEF TypeOK, CallType, Answer
<1>1. calls = {c} /\ calls' = {}
  BY <1>0 DEF OneShown, Answer
<1> SUFFICES ASSUME client' # Absent PROVE Agrees(client', row)
  BY <1>0, <1>1 DEF AllAgree
<1>2. /\ c.prev # Absent
      /\ c.ask.kind = "patch"  => PatchInFlight(c, row)
      /\ c.ask.kind \in Chips  => ChipInFlight(c, client, row)
      /\ c.ask.kind = "delete" => client = Absent
  BY <1>0 DEF CallsAgree, AllAgree
<1>3. CASE c.ask.kind = "patch"
  <2>0. PatchAnswered(c) /\ PatchInFlight(c, row)
    BY <1>2, <1>3 DEF Answer
  <2>1. client # Absent
    BY <1>0, <1>2, <2>0 DEF PatchAnswered, Update
  <2>2. client = c.shown
    BY <1>0, <1>3, <2>1 DEF OneShown
  <2>3. client' = AfterPatch(c)
    <3>1. CASE c.answer = "ok"
      BY <2>0, <2>1, <2>2, <3>1 DEF PatchAnswered, Update, AfterPatch
    <3>2. CASE c.answer = "already"
      BY <2>0, <2>2, <3>2 DEF PatchAnswered, AfterPatch
    <3>3. CASE c.answer = "error"
      <4>1. c.shown.chips = c.prev.chips
        <5>1. c.ask.arg \in Commands
          BY <1>0, <1>3, CommandAsks
        <5> QED
          BY <1>0, <2>0, <5>1 DEF PatchInFlight, Optimistic, Commands, ClientType
      <4>2. client' = [client EXCEPT !.isRead = c.prev.isRead,
                        !.isStarred = c.prev.isStarred, !.status = c.prev.status,
                        !.labels = c.prev.labels]
        BY <1>2, <2>0, <2>1, <3>3 DEF PatchAnswered, Update
      <4>3. client' = c.prev
        BY <1>0, <2>2, <4>1, <4>2 DEF ClientType
      <4> QED
        BY <3>3, <4>3 DEF AfterPatch
    <3> QED
      BY <1>0, <3>1, <3>2, <3>3
  <2> QED
    BY <2>0, <2>3 DEF PatchInFlight
<1>4. CASE c.ask.kind \in Chips
  <2>0. ChipAnswered(c) /\ ChipInFlight(c, client, row)
    BY <1>2, <1>4 DEF Answer, Chips
  <2>1. client # Absent
    BY <1>0, <2>0 DEF ChipAnswered, Update
  <2>2. row # NoRow /\ Flags(client) = Flags(row) /\ (InInbox(client) <=> InInbox(row))
    BY <2>0, <2>1 DEF ChipInFlight
  <2>3. CASE c.answer = "ok"
    <3>1. c.row = row /\ client' = [client EXCEPT !.labels = row.labels,
                                                  !.chips = row.labels \cap UserLabels]
      BY <2>0, <2>1, <2>3 DEF ChipAnswered, ChipInFlight, Update
    <3>2. /\ client'.labels = row.labels /\ client'.chips = row.labels \cap UserLabels
          /\ Flags(client') = Flags(client) /\ client'.status = client.status
      BY <1>0, <3>1 DEF ClientType, Flags
    <3>3. client.status = row.status
      BY <2>2 DEF Flags
    <3> QED
      BY <2>2, <3>2, <3>3 DEF Agrees, InInbox
  <2>4. CASE c.answer = "already"
    BY <2>0, <2>1, <2>2, <2>4 DEF ChipAnswered, ChipInFlight, Agrees
  <2>5. CASE c.answer = "error"
    <3>1. client' = [client EXCEPT !.chips = row.labels \cap UserLabels]
      BY <2>0, <2>1, <2>5 DEF ChipAnswered, ChipInFlight, Update
    <3>2. /\ client'.labels = client.labels /\ client'.chips = row.labels \cap UserLabels
          /\ Flags(client') = Flags(client) /\ client'.status = client.status
      BY <1>0, <3>1 DEF ClientType, Flags
    <3> QED
      BY <2>2, <3>2 DEF Agrees, InInbox
  <2> QED
    BY <1>0, <2>3, <2>4, <2>5
<1>5. CASE c.ask.kind = "delete"
  BY <1>2, <1>5 DEF Answer
<1> QED
  BY <1>0, <1>3, <1>4, <1>5, CommandAsks DEF Chips

LEMMA UiAgrees ==
  ASSUME row # NoRow
  PROVE  Agrees(Ui(row), row)
  BY DEF Agrees, Ui, Flags, InInbox

LEMMA PollAgree ==
  ASSUME TypeOK, OneShown, CallsAgree, PagesFresh, calm', PollArrives
  PROVE  AllAgree(calls', client', row')
<1>1. /\ calm /\ ~poll.old /\ poll.read /\ (client = Absent => calls = {})
      /\ calls' = calls /\ row' = row /\ client' = Merged(poll.row)
  BY DEF PollArrives
<1>2. CASE client' = client
  BY <1>1, <1>2, SameAgree
<1>3. CASE client' # client
  <2>1. client' = Ui(poll.row) /\ poll.row # NoRow /\ (pending => client = Absent)
    BY <1>1, <1>3 DEF Merged
  <2>2. CASE calls = {}
    <3>1. poll.row = row
      BY <1>1, <2>1, <2>2 DEF PagesFresh, Fresh
    <3> QED
      BY <1>1, <2>1, <2>2, <3>1, UiAgrees DEF AllAgree
  <2>3. ASSUME NEW c \in calls PROVE AllAgree(calls', client', row')
    <3>1. calls = {c} /\ client # Absent /\ c.ask.kind # "patch"
      BY <1>1, <2>1, <2>3 DEF OneShown
    <3>2. /\ c.prev # Absent
          /\ c.ask.kind \in Chips  => ChipInFlight(c, client, row)
          /\ c.ask.kind # "delete"
      BY <1>1, <2>3, <3>1 DEF CallsAgree, AllAgree
    <3>3. /\ c.answer \in {"none", "already", "error"} => poll.row = row
          /\ c.ask.kind \in Chips =>
               Flags(poll.row) = Flags(row) /\ (InInbox(poll.row) <=> InInbox(row))
      <4>1. /\ (\A d \in calls : d.answer = "none") => poll.row = row
            /\ c.answer \in {"already", "error"} => poll.row = row
            /\ c.ask.kind \in Chips =>
                 Flags(poll.row) = Flags(row) /\ (InInbox(poll.row) <=> InInbox(row))
        BY <1>1, <2>1, <2>3 DEF PagesFresh, Fresh
      <4> QED
        BY <3>1, <4>1
    <3>4. c.answer \in {"none", "ok", "already", "error"} /\ c.ask.kind \in Chips
      BY <3>1, <3>2, CommandAsks DEF TypeOK, CallType, Chips
    <3>5. /\ client'.labels = poll.row.labels /\ client'.status = poll.row.status
          /\ client'.chips = poll.row.labels \cap UserLabels
          /\ Flags(client') = Flags(poll.row)
      BY <2>1 DEF Ui, Flags
    <3>6. ChipInFlight(c, client', row)
      BY <3>2, <3>3, <3>4, <3>5 DEF ChipInFlight, InInbox
    <3> QED
      BY <1>1, <3>1, <3>2, <3>6 DEF AllAgree
  <2> QED
    BY <2>2, <2>3
<1> QED
  BY <1>2, <1>3

LEMMA LoadAgree ==
  ASSUME TypeOK, PagesFresh, calm', LoadArrives
  PROVE  AllAgree(calls', client', row')
<1>1. calls' = {} /\ row' = row
  BY DEF LoadArrives
<1>2. CASE client' = Absent
  BY <1>1, <1>2 DEF AllAgree
<1>3. CASE client' # Absent
  <2>1. /\ load.read /\ ~load.old /\ client' = Ui(load.row) /\ calls = {}
    BY <1>3 DEF LoadArrives
  <2>2. load.row # NoRow
    BY <1>3, <2>1 DEF Absent
  <2>3. load.row = row
    BY <2>1, <2>2 DEF PagesFresh, Fresh
  <2> QED
    BY <1>1, <2>1, <2>2, <2>3, UiAgrees DEF AllAgree
<1> QED
  BY <1>2, <1>3

LEMMA AgreeStep ==
  ASSUME TypeOK, OneShown, RowCoherent, CallsAgree, PagesFresh, [Next]_vars
  PROVE  CallsAgree'
<1> SUFFICES ASSUME calm' PROVE AllAgree(calls', client', row')
  BY AgreePrimed
<1>1. CASE User
  BY <1>1, UserAgree
<1>2. ASSUME NEW c \in calls, Serve(c) \/ Fails(c) PROVE AllAgree(calls', client', row')
  BY <1>2, ServeAgree
<1>3. ASSUME NEW c \in calls, Answer(c) PROVE AllAgree(calls', client', row')
  BY <1>3, AnswerAgree
<1>4. ASSUME NEW l \in Toggled, ChangedElsewhere(l) PROVE AllAgree(calls', client', row')
  BY <1>4 DEF ChangedElsewhere
<1>5. CASE PollRead \/ PollLost \/ LoadRead \/ UNCHANGED vars
  BY <1>5, SameAgree DEF PollRead, PollLost, LoadRead, vars
<1>6. CASE PollArrives
  BY <1>6, PollAgree
<1>7. CASE LoadArrives
  BY <1>7, LoadAgree
<1> QED
  BY <1>1, <1>2, <1>3, <1>4, <1>5, <1>6, <1>7 DEF Next

\* Agreement is what the property looks at: flags and folders.
LEMMA AgreesShows ==
  ASSUME NEW u, NEW r, Agrees(u, r), NEW f \in Folders
  PROVE  Shows(f, u) = Shows(f, Ui(r))
<1>1. /\ u.isStarred = Ui(r).isStarred /\ u.status = Ui(r).status /\ u.chips = Ui(r).chips
      /\ "INBOX" \in u.labels /\ u.status # "trash"
           <=> "INBOX" \in Ui(r).labels /\ Ui(r).status # "trash"
  BY DEF Agrees, Flags, InInbox, Ui
<1> DEFINE v == Ui(r)
<1> HIDE DEF v
<1>2. f \in Views => Shows(f, u) = Shows(f, v)
  BY <1>1 DEF Shows, Views, v
<1> QED
  BY <1>1, <1>2 DEF Shows, Folders, v

\* The client has the flags and the folders of the server's row as soon as its calls are
\* answered, whatever was refused and rolled back and whatever polls and first pages came
\* in between. calm excepts calls that overlap, first pages that arrive during a call,
\* pages read before an answer and shown after it, changes made elsewhere, and failed
\* calls that were carried out.
THEOREM SettledSafe == Spec => []SettledAgrees
<1>1. Init => CallsAgree /\ PagesFresh
  BY DEF Init, CallsAgree, AllAgree, PagesFresh, Fresh, NoPage
<1>2. TypeOK /\ OneShown /\ RowCoherent /\ CallsAgree /\ PagesFresh /\ [Next]_vars
        => CallsAgree' /\ PagesFresh'
  BY AgreeStep, FreshStep
<1>3. CallsAgree => SettledAgrees
  BY AgreesShows DEF CallsAgree, AllAgree, SettledAgrees, Agrees
<1> QED
  BY <1>1, <1>2, <1>3, TypeCorrect, AlwaysShown, RowsCoherent, PTL DEF Spec

(***************************************************************************)
(* 4. The demo store does what the server does                             *)
(***************************************************************************)
Filed(labels) == labels \cap {"SENT", "DRAFT"} # {}

\* The two derivations of the status differ for sent messages only.
LEMMA ReflagRow ==
  ASSUME NEW labels \in SUBSET Server!Labels, ~Filed(labels)
  PROVE  Reflag(labels) = Server!RowOf(labels)
  BY DEF Filed, Reflag, DemoStatus, Server!RowOf, Server!Columns, Server!DeriveStatus

\* What flags and folders tell apart of a row that is neither sent nor a draft.
Alike(a, b) ==
  /\ a \cap {"UNREAD", "STARRED", "TRASH"} = b \cap {"UNREAD", "STARRED", "TRASH"}
  /\ "TRASH" \notin a => ("INBOX" \in a <=> "INBOX" \in b)
  /\ a \cap UserLabels = b \cap UserLabels

LEMMA AlikeShows ==
  ASSUME NEW a \in SUBSET Server!Labels, NEW b \in SUBSET Server!Labels,
         ~Filed(a), ~Filed(b), Alike(a, b)
  PROVE  /\ Flags(Server!RowOf(a)) = Flags(Server!RowOf(b))
         /\ \A f \in Folders :
              Shows(f, Ui(Server!RowOf(a))) = Shows(f, Ui(Server!RowOf(b)))
<1> DEFINE ra == Ui(Server!RowOf(a))
           rb == Ui(Server!RowOf(b))
<1>1. /\ ra.labels = a /\ rb.labels = b
      /\ ra.chips = a \cap UserLabels /\ rb.chips = b \cap UserLabels
      /\ ra.isRead = ("UNREAD" \notin a) /\ rb.isRead = ("UNREAD" \notin b)
      /\ ra.isStarred = ("STARRED" \in a) /\ rb.isStarred = ("STARRED" \in b)
      /\ ra.status = Server!DeriveStatus(a) /\ rb.status = Server!DeriveStatus(b)
  BY DEF Ui, Server!RowOf, Server!Columns
<1>2. Server!DeriveStatus(a) = Server!DeriveStatus(b)
  BY DEF Server!DeriveStatus, Alike, Filed
<1>3. ra.isRead = rb.isRead /\ ra.isStarred = rb.isStarred /\ ra.status = rb.status
      /\ ra.chips = rb.chips
  BY <1>1, <1>2 DEF Alike
<1>4. "INBOX" \in ra.labels /\ ra.status # "trash" <=> "INBOX" \in rb.labels /\ rb.status # "trash"
  BY <1>1, <1>3 DEF Alike, Server!DeriveStatus, Filed
<1>5. Flags(Server!RowOf(a)) = Flags(Server!RowOf(b))
  BY <1>1, <1>3 DEF Flags, Server!RowOf, Server!Columns
<1>6. ASSUME NEW f \in Folders PROVE Shows(f, ra) = Shows(f, rb)
  <2> HIDE DEF ra, rb
  <2> QED
    BY <1>3, <1>4 DEF Shows, Folders
<1> QED
  BY <1>5, <1>6

\* Command by command: the label arithmetic of the two stores.
LEMMA AlikeResults ==
  ASSUME NEW a \in SUBSET Server!Labels, ~Filed(a), NEW cmd \in Commands,
         Offered(cmd, Ui(Server!RowOf(a)))
  PROVE  /\ Alike((a \ DemoRemoves(Body(cmd))) \cup DemoAdds(Body(cmd)),
                  (a \cup Server!AddLabels(Body(cmd))) \ Server!RemoveLabels(Body(cmd), a))
         /\ /\ Body(cmd).on \subseteq Server!Holds(Server!RowOf(a))
            /\ Body(cmd).off \cap Server!Holds(Server!RowOf(a)) = {}
            => Alike((a \ DemoRemoves(Body(cmd))) \cup DemoAdds(Body(cmd)), a)
<1> DEFINE r == Server!RowOf(a)
<1>1. /\ r.isRead = ("UNREAD" \notin a) /\ r.isStarred = ("STARRED" \in a)
      /\ r.status = (IF "TRASH" \in a THEN "trash"
                     ELSE IF "INBOX" \notin a THEN "archived" ELSE "inbox")
      /\ Ui(r).status = r.status
  BY DEF Server!RowOf, Server!Columns, Server!DeriveStatus, Ui, Filed
<1>2. "SENT" \notin a /\ UserLabels \cap {"UNREAD", "STARRED", "INBOX", "TRASH"} = {}
  BY DEF Filed, Server!ProtectedLabels
<1> USE DEF Body, On, Off, DemoRemoves, DemoAdds, Server!AddLabels, Server!RemoveLabels,
            Server!Holds, Server!Fields, Alike
<1>3. CASE cmd = "archive"
  BY <1>1, <1>2, <1>3
<1>4. CASE cmd = "trash"
  BY <1>1, <1>2, <1>4
<1>5. CASE cmd = "restore"
  BY <1>1, <1>2, <1>5 DEF Offered
<1>6. CASE cmd = "inbox"
  BY <1>1, <1>2, <1>6 DEF Offered
<1>7. CASE cmd = "read"
  BY <1>1, <1>2, <1>7
<1>8. CASE cmd = "unread"
  BY <1>1, <1>2, <1>8
<1>9. CASE cmd = "star"
  BY <1>1, <1>2, <1>9
<1>10. CASE cmd = "unstar"
  BY <1>1, <1>2, <1>10
<1> QED
  BY <1>3, <1>4, <1>5, <1>6, <1>7, <1>8, <1>9, <1>10 DEF Commands

\* Every command leaves a message that is neither sent nor a draft with the flags
\* and in the folders the server would give it.
THEOREM DemoSafe == Spec => []DemoAgrees
<1>1. TypeOK /\ RowCoherent => DemoAgrees
  <2> SUFFICES ASSUME TypeOK, RowCoherent, row # NoRow, ~Filed(row.labels),
                      NEW cmd \in Commands, Offered(cmd, Ui(row))
               PROVE  LET demo   == DemoPatch(row, Body(cmd))
                          server == ServerResult([kind |-> "patch", arg |-> cmd])[2]
                      IN  /\ Flags(demo) = Flags(server)
                          /\ \A f \in Folders : Shows(f, Ui(demo)) = Shows(f, Ui(server))
    BY DEF DemoAgrees, Filed
  <2> DEFINE a == row.labels
             b == (a \ DemoRemoves(Body(cmd))) \cup DemoAdds(Body(cmd))
             c == (a \cup Server!AddLabels(Body(cmd))) \ Server!RemoveLabels(Body(cmd), a)
  <2>1. row = Server!RowOf(a) /\ a \in SUBSET Server!Labels
    <3>1. row = Made(a) /\ a \in SUBSET Server!Labels
      BY DEF RowCoherent, TypeOK, RowType
    <3> QED
      BY <3>1, ReflagRow DEF Made
  <2>2. /\ b \in SUBSET Server!Labels /\ ~Filed(b)
        /\ c \in SUBSET Server!Labels /\ ~Filed(c)
    BY <2>1 DEF Filed, DemoAdds, Server!AddLabels, Server!Labels, Server!ProtectedLabels
  <2>3. /\ Alike(b, c)
        /\ Server!AlreadyInState(Body(cmd)) => Alike(b, a)
    BY <2>1, AlikeResults DEF Server!AlreadyInState
  <2>4. DemoPatch(row, Body(cmd)) = Server!RowOf(b)
    BY <2>2, ReflagRow DEF DemoPatch
  <2>5. ServerResult([kind |-> "patch", arg |-> cmd])[2] =
          IF Server!AlreadyInState(Body(cmd)) THEN Server!RowOf(a) ELSE Server!RowOf(c)
    BY <2>1 DEF ServerResult
  <2> DEFINE d == IF Server!AlreadyInState(Body(cmd)) THEN a ELSE c
  <2>6. d \in SUBSET Server!Labels /\ ~Filed(d) /\ Alike(b, d)
    BY <2>1, <2>2, <2>3
  <2>7. ServerResult([kind |-> "patch", arg |-> cmd])[2] = Server!RowOf(d)
    BY <2>5
  <2> HIDE DEF a, b, c, d
  <2>8. /\ Flags(Server!RowOf(b)) = Flags(Server!RowOf(d))
        /\ \A f \in Folders : Shows(f, Ui(Server!RowOf(b))) = Shows(f, Ui(Server!RowOf(d)))
    BY <2>2, <2>6, AlikeShows
  <2> QED
    BY <2>4, <2>7, <2>8
<1> QED
  BY <1>1, TypeCorrect, RowsCoherent, PTL
=============================================================================
