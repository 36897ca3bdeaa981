------------------------ MODULE DraftLifecycleProofs ------------------------
(***************************************************************************)
(* Proofs about DraftLifecycle: types, and that neither a draft nor a sent *)
(* message is ever lost from the rows and the deliveries together, for any *)
(* number of requests and deliveries.                                      *)
(***************************************************************************)
EXTENDS DraftLifecycle, TLAPS

LEMMA TypeInit == Init => TypeOK
  BY DraftAssumption
  DEF Init, TypeOK, Ids, Row, NoRow, HookIdle, ReqIdle, Statuses, RowState,
      HookState, RequestState

\* The idle states and the rows written are well typed.
LEMMA RecordTypes ==
  ASSUME TypeOK
  PROVE  /\ HookIdle \in HookState /\ ReqIdle \in RequestState
         /\ NoRow \in RowState
         /\ \A status \in Statuses, draftId \in BOOLEAN : Row(status, draftId) \in RowState
         /\ lastId \in Nat
  BY DraftAssumption
  DEF TypeOK, HookIdle, ReqIdle, NoRow, Row, Statuses, RowState, HookState, RequestState

\* A fresh id keeps every id in use in its range.
LEMMA HandOutType ==
  ASSUME TypeOK, HandOutId
  PROVE  /\ lastId' \in 0..MaxId /\ lastId' = lastId + 1 /\ lastId' \in Ids
         /\ lastId' \in 0..lastId' /\ 0 \in 0..lastId'
         /\ \A n \in 0..lastId : n \in 0..lastId'
         /\ undelivered' \subseteq 1..lastId'
         /\ hook \in [Hooks -> HookState'] /\ req \in [Requests -> RequestState']
<1>0. lastId \in Nat BY RecordTypes
<1>1. lastId' \in 0..MaxId /\ lastId' = lastId + 1 /\ lastId' \in Ids
  BY <1>0, DraftAssumption DEF HandOutId, Ids
<1>2. \A n \in 0..lastId : n \in 0..lastId' BY <1>0, <1>1
<1>3. undelivered' \subseteq 1..lastId' BY <1>0, <1>1 DEF TypeOK, HandOutId
<1>4. hook \in [Hooks -> HookState']
  <2>1. \A s \in HookState : s \in HookState' BY <1>2 DEF HookState
  <2> QED BY <2>1 DEF TypeOK
<1>5. req \in [Requests -> RequestState']
  <2>1. \A s \in RequestState : s \in RequestState' BY <1>2 DEF RequestState
  <2> QED BY <2>1 DEF TypeOK
<1> QED BY <1>0, <1>1, <1>2, <1>3, <1>4, <1>5

\* Without a fresh id, it is enough that the changed parts keep their types.
LEMMA SameIdsType ==
  ASSUME TypeOK, lastId' = lastId, draftMsg' \in {0, draftMsg}, sentMsg' = sentMsg,
         undelivered' \subseteq undelivered, rows' \in [Ids -> RowState],
         \A g \in Ids : rows'[g] # NoRow => g <= lastId,
         hook' \in [Hooks -> HookState], req' \in [Requests -> RequestState],
         clean' \in BOOLEAN
  PROVE  TypeOK'
<1>1. HookState' = HookState /\ RequestState' = RequestState BY DEF HookState, RequestState
<1>2. 0 \in 0..lastId BY RecordTypes
<1> QED BY <1>1, <1>2 DEF TypeOK

LEMMA GoesType ==
  ASSUME TypeOK, NEW r \in Requests,
         NEW pc \in {"idle", "get", "resolve", "call", "store", "drop"}, Goes(r, pc)
  PROVE  req' \in [Requests -> RequestState]
  BY DEF TypeOK, Goes, RequestState

LEMMA EndsType ==
  ASSUME TypeOK, NEW r \in Requests, Ends(r)
  PROVE  req' \in [Requests -> RequestState]
  BY RecordTypes DEF TypeOK, Ends

LEMMA DeliveryType ==
  ASSUME TypeOK, NEW h \in Hooks, Delivery(h)
  PROVE  TypeOK'
<1>1. ASSUME NEW id \in undelivered, Deliver(h, id) PROVE TypeOK'
  <2>1. id \in 0..lastId BY RecordTypes DEF TypeOK
  <2>2. hook' \in [Hooks -> HookState]
    BY <1>1, <2>1 DEF Deliver, TypeOK, HookState, Statuses
  <2>3. clean' \in BOOLEAN BY <1>1 DEF Deliver, Starts, TypeOK
  <2> QED BY <1>1, <2>2, <2>3, SameIdsType DEF Deliver, TypeOK
<1>2. CASE GetMessage(h)
  <2> DEFINE got == IF hook[h].id = sentMsg THEN "sent" ELSE "draft"
  <2>1. got \in Statuses BY DEF Statuses
  <2>2. hook' = [hook EXCEPT ![h] = [pc |-> "store", id |-> hook[h].id, got |-> got]]
    BY <1>2 DEF GetMessage
  <2> HIDE DEF got
  <2>3. hook' \in [Hooks -> HookState] BY <2>1, <2>2 DEF TypeOK, HookState
  <2> QED BY <1>2, <2>3, SameIdsType DEF GetMessage, TypeOK
<1>3. CASE SkipMissing(h)
  <2>1. hook' \in [Hooks -> HookState] BY <1>3, RecordTypes DEF SkipMissing, TypeOK
  <2> QED BY <1>3, <2>1, SameIdsType DEF SkipMissing, TypeOK
<1>4. CASE StoreMessage(h)
  <2>1. hook' \in [Hooks -> HookState] BY <1>4, RecordTypes DEF StoreMessage, TypeOK
  <2>2. rows' \in [Ids -> RowState]
    BY <1>4 DEF StoreMessage, TypeOK, RowState, HookState
  <2>3. \A g \in Ids : rows'[g] # NoRow => g <= lastId
    BY <1>4, RecordTypes DEF StoreMessage, TypeOK, HookState
  <2> QED BY <1>4, <2>1, <2>2, <2>3, SameIdsType DEF StoreMessage, TypeOK
<1> QED BY <1>1, <1>2, <1>3, <1>4 DEF Delivery

\* An update or a send renames a row to an id that has been handed out.
LEMMA RenameType ==
  ASSUME TypeOK, NEW old \in 0..lastId, NEW new \in 0..lastId, NEW row \in RowState,
         Rename(old, new, row)
  PROVE  /\ rows' \in [Ids -> RowState]
         /\ \A g \in Ids : rows'[g] # NoRow => g <= lastId
<1>1. new <= lastId BY RecordTypes
<1>2. CASE rows' = rows BY <1>2 DEF TypeOK
<1>3. CASE rows' = [rows EXCEPT ![old] = NoRow, ![new] = row]
  BY <1>1, <1>3, RecordTypes DEF TypeOK
<1> QED BY <1>2, <1>3 DEF Rename

LEMMA HandleType ==
  ASSUME TypeOK, DInv, NEW r \in Requests, Handle(r)
  PROVE  TypeOK'
<1>1. ASSUME NEW op \in {"update", "delete", "send"}, NEW g \in Ids, ReadDraft(r, op, g)
      PROVE  TypeOK'
  <2> DEFINE pc == IF rows[g].draftId THEN "call" ELSE "resolve"
  <2>1. pc \in {"call", "resolve"} OBVIOUS
  <2>2. req' = [req EXCEPT ![r] = [op |-> op, pc |-> pc, gid |-> g, new |-> 0]]
    BY <1>1 DEF ReadDraft
  <2> HIDE DEF pc
  <2>3. g <= lastId BY <1>1 DEF ReadDraft, TypeOK, NoRow, Row
  <2>4. g \in 0..lastId /\ 0 \in 0..lastId BY <2>3, RecordTypes, DraftAssumption DEF Ids
  <2>5. req' \in [Requests -> RequestState] BY <2>1, <2>2, <2>4 DEF TypeOK, RequestState
  <2>6. clean' \in BOOLEAN BY <1>1 DEF ReadDraft, Starts, TypeOK
  <2> QED BY <1>1, <2>5, <2>6, SameIdsType DEF ReadDraft, TypeOK
<1>2. CASE ResolveDraftId(r)
  BY <1>2, GoesType, SameIdsType DEF ResolveDraftId, TypeOK
<1>3. CASE ResolveNothing(r)
  <2>1. req' \in [Requests -> RequestState]
    BY <1>3, GoesType, EndsType DEF ResolveNothing
  <2> QED BY <1>3, <2>1, SameIdsType DEF ResolveNothing, TypeOK
<1>4. CASE UpdateInGmail(r)
  <2>1. HandOutId BY <1>4 DEF UpdateInGmail
  <2>2. req' \in [Requests -> RequestState']
    BY <1>4, <2>1, HandOutType DEF UpdateInGmail, RequestState
  <2>3. \A g \in Ids : rows[g] # NoRow => g <= lastId'
    BY <2>1, HandOutType, RecordTypes, DraftAssumption DEF TypeOK, Ids
  <2> QED BY <1>4, <2>1, <2>2, <2>3, HandOutType DEF UpdateInGmail, TypeOK
<1>5. CASE SendInGmail(r)
  <2>1. HandOutId BY <1>5 DEF SendInGmail
  <2>2. req' \in [Requests -> RequestState']
    BY <1>5, <2>1, HandOutType DEF SendInGmail, RequestState
  <2>3. \A g \in Ids : rows[g] # NoRow => g <= lastId'
    BY <2>1, HandOutType, RecordTypes, DraftAssumption DEF TypeOK, Ids
  <2> QED BY <1>5, <2>1, <2>2, <2>3, HandOutType DEF SendInGmail, TypeOK
<1>6. CASE DraftIsGone(r) BY <1>6, EndsType, SameIdsType DEF DraftIsGone, TypeOK
<1>7. CASE DeleteInGmail(r) BY <1>7, GoesType, SameIdsType DEF DeleteInGmail, TypeOK
<1>8. ASSUME NEW row \in RowState, Rename(req[r].gid, req[r].new, row), Ends(r),
             UNCHANGED <<lastId, draftMsg, sentMsg, undelivered, hook, clean>>
      PROVE  TypeOK'
  <2>1. req[r].gid \in 0..lastId /\ req[r].new \in 0..lastId BY DEF TypeOK, RequestState
  <2>2. /\ rows' \in [Ids -> RowState]
        /\ \A g \in Ids : rows'[g] # NoRow => g <= lastId
    BY <1>8, <2>1, RenameType
  <2> QED BY <1>8, <2>2, EndsType, SameIdsType DEF TypeOK
<1>9. CASE StoreUpdated(r)
  <2>1. req[r].gid \in Ids BY <1>9 DEF StoreUpdated, DInv, RequestKnows
  <2>2. Row(rows[req[r].gid].status, TRUE) \in RowState
    BY <2>1, RecordTypes DEF TypeOK, RowState
  <2> QED BY <1>8, <1>9, <2>2 DEF StoreUpdated
<1>10. CASE StoreSent(r)
  <2>1. Row("sent", FALSE) \in RowState BY RecordTypes DEF Statuses
  <2> QED BY <1>8, <1>10, <2>1 DEF StoreSent
<1>11. CASE DropRow(r)
  <2>1. rows' \in [Ids -> RowState] BY <1>11, RecordTypes DEF DropRow, TypeOK
  <2>2. \A g \in Ids : rows'[g] # NoRow => g <= lastId BY <1>11 DEF DropRow, TypeOK
  <2> QED BY <1>11, <2>1, <2>2, EndsType, SameIdsType DEF DropRow, TypeOK
<1>12. CASE IdTaken(r) BY <1>12, EndsType, SameIdsType DEF IdTaken, TypeOK
<1> QED BY <1>1, <1>2, <1>3, <1>4, <1>5, <1>6, <1>7, <1>9, <1>10, <1>11, <1>12 DEF Handle

LEMMA CreateType ==
  ASSUME TypeOK, NEW r \in Requests, Create(r)
  PROVE  TypeOK'
<1>1. CASE CreateDraft(r)
  <2>1. HandOutId BY <1>1 DEF CreateDraft
  <2>2. req' \in [Requests -> RequestState']
    BY <1>1, <2>1, HandOutType DEF CreateDraft, RequestState
  <2>3. \A g \in Ids : rows[g] # NoRow => g <= lastId'
    BY <2>1, HandOutType, RecordTypes, DraftAssumption DEF TypeOK, Ids
  <2>4. clean' \in BOOLEAN BY <1>1 DEF CreateDraft, Starts, TypeOK
  <2> QED BY <1>1, <2>1, <2>2, <2>3, <2>4, HandOutType DEF CreateDraft, TypeOK
<1>2. CASE GetCreated(r) BY <1>2, GoesType, SameIdsType DEF GetCreated, TypeOK
<1>3. CASE StoreCreated(r)
  <2>1. Row("draft", TRUE) \in RowState BY RecordTypes DEF Statuses
  <2>2. rows' \in [Ids -> RowState] BY <1>3, <2>1 DEF StoreCreated, TypeOK
  <2>3. \A g \in Ids : rows'[g] # NoRow => g <= lastId
    <3>1. req[r].new \in 0..lastId BY DEF TypeOK, RequestState
    <3>2. req[r].new <= lastId BY <3>1, RecordTypes
    <3> QED BY <1>3, <3>2 DEF StoreCreated, TypeOK
  <2> QED BY <1>3, <2>2, <2>3, EndsType, SameIdsType DEF StoreCreated, TypeOK
<1> QED BY <1>1, <1>2, <1>3 DEF Create

LEMMA TypeStep == TypeOK /\ DInv /\ [Next]_vars => TypeOK'
<1> SUFFICES ASSUME TypeOK, DInv, [Next]_vars PROVE TypeOK'
  OBVIOUS
<1>1. ASSUME HandOutId, draftMsg' \in {0, lastId'}, sentMsg' \in {sentMsg, lastId'},
             clean' = FALSE, UNCHANGED <<rows, hook, req>>
      PROVE  TypeOK'
  <2>1. \A g \in Ids : rows[g] # NoRow => g <= lastId'
    BY <1>1, HandOutType, RecordTypes, DraftAssumption DEF TypeOK, Ids
  <2>2. draftMsg' \in 0..lastId' /\ sentMsg' \in 0..lastId'
    BY <1>1, HandOutType DEF TypeOK
  <2>3. hook' \in [Hooks -> HookState'] /\ req' \in [Requests -> RequestState']
    BY <1>1, HandOutType
  <2> QED BY <1>1, <2>1, <2>2, <2>3, HandOutType DEF TypeOK
<1>2. CASE GmailEdits BY <1>1, <1>2 DEF GmailEdits
<1>3. CASE GmailSends BY <1>1, <1>3 DEF GmailSends
<1>4. CASE GmailDiscards BY <1>4, SameIdsType DEF GmailDiscards, TypeOK
<1>5. ASSUME NEW h \in Hooks, HookFails(h) PROVE TypeOK'
  <2>1. hook' \in [Hooks -> HookState] BY <1>5, RecordTypes DEF HookFails, TypeOK
  <2> QED BY <1>5, <2>1, SameIdsType DEF HookFails, TypeOK
<1>6. ASSUME NEW r \in Requests, RequestFails(r) PROVE TypeOK'
  BY <1>6, EndsType, SameIdsType DEF RequestFails, TypeOK
<1>7. CASE UNCHANGED vars BY <1>7, SameIdsType DEF vars, TypeOK
<1> QED BY <1>2, <1>3, <1>4, <1>5, <1>6, <1>7, DeliveryType, CreateType, HandleType
        DEF Next, Undisturbed

(***************************************************************************)
(* The inductive invariant. A step leaves the message ids of the draft and *)
(* of what it was sent as alone, ends the draft, or hands out a fresh one. *)
(***************************************************************************)
IdsMove ==
  \/ draftMsg' \in {draftMsg, 0} /\ sentMsg' = sentMsg
  \/ draftMsg' = lastId + 1 /\ sentMsg' = sentMsg
  \/ draftMsg # 0 /\ draftMsg' = 0 /\ sentMsg' = lastId + 1

\* What a request knows stays true while others move.
LEMMA RequestStillKnows ==
  ASSUME TypeOK, DInv, IdsMove, NEW r \in Requests, req'[r] = req[r]
  PROVE  RequestKnows(r)'
<1>1. req[r].gid \in 0..lastId /\ req[r].new \in 0..lastId /\ lastId \in Nat
  BY RecordTypes DEF TypeOK, RequestState
<1>2. req[r].gid < lastId + 1 /\ req[r].new < lastId + 1 BY <1>1
<1>3. RequestKnows(r) /\ (draftMsg # 0 => sentMsg = 0) /\ 0 \notin Ids
  BY DraftAssumption DEF DInv, IdsKnown, Ids
<1> QED BY <1>1, <1>2, <1>3 DEF IdsMove, RequestKnows

LEMMA HookStillKnows ==
  ASSUME TypeOK, DInv, IdsMove, NEW h \in Hooks, hook'[h] = hook[h]
  PROVE  HookKnows(h)'
<1>1. hook[h].id \in 0..lastId /\ lastId \in Nat
  BY RecordTypes DEF TypeOK, HookState
<1>2. hook[h].id < lastId + 1 BY <1>1
<1>3. HookKnows(h) /\ (draftMsg # 0 => sentMsg = 0) /\ 0 \notin Ids
  BY DraftAssumption DEF DInv, IdsKnown, Ids
<1> QED BY <1>1, <1>2, <1>3 DEF IdsMove, HookKnows

\* One request moves and the others stand still.
LEMMA OneRequest ==
  ASSUME TypeOK, DInv, IdsMove, NEW r \in Requests, NEW s,
         req' = [req EXCEPT ![r] = s], RequestKnows(r)'
  PROVE  \A q \in Requests : RequestKnows(q)'
<1> SUFFICES ASSUME NEW q \in Requests, q # r PROVE RequestKnows(q)'
  OBVIOUS
<1>1. req'[q] = req[q] BY DEF TypeOK
<1> QED BY <1>1, RequestStillKnows

LEMMA OneHook ==
  ASSUME TypeOK, DInv, IdsMove, NEW h \in Hooks, NEW s,
         hook' = [hook EXCEPT ![h] = s], HookKnows(h)'
  PROVE  \A k \in Hooks : HookKnows(k)'
<1> SUFFICES ASSUME NEW k \in Hooks, k # h PROVE HookKnows(k)'
  OBVIOUS
<1>1. hook'[k] = hook[k] BY DEF TypeOK
<1> QED BY <1>1, HookStillKnows

\* A request that has ended knows nothing.
LEMMA EndsKnows ==
  ASSUME TypeOK, DInv, IdsMove, NEW r \in Requests, Ends(r)
  PROVE  \A q \in Requests : RequestKnows(q)'
<1>1. req'[r] = ReqIdle BY DEF TypeOK, Ends
<1>2. RequestKnows(r)' BY <1>1 DEF RequestKnows, ReqIdle
<1> QED BY <1>2, OneRequest DEF Ends

\* A step of a request that leaves the mirror and the deliveries alone.
LEMMA OnlyRequest ==
  ASSUME TypeOK, DInv, UNCHANGED <<lastId, draftMsg, sentMsg, undelivered, rows, hook>>,
         \A r \in Requests : RequestKnows(r)'
  PROVE  DInv'
<1>1. \A h \in Hooks : HookKnows(h)' BY DEF DInv, HookKnows
<1> QED BY <1>1 DEF DInv, IdsKnown, DraftReachable, SentRecorded

\* A step of a delivery that leaves the rows alone and takes off the delta at
\* most a message that Gmail does not have.
LEMMA OnlyHook ==
  ASSUME TypeOK, DInv, UNCHANGED <<lastId, draftMsg, sentMsg, rows, req>>,
         {draftMsg, sentMsg} \cap undelivered \subseteq undelivered',
         \A h \in Hooks : HookKnows(h)'
  PROVE  DInv'
<1>1. \A r \in Requests : RequestKnows(r)' BY DEF DInv, RequestKnows
<1> QED BY <1>1 DEF DInv, IdsKnown, DraftReachable, SentRecorded

\* A fresh message id, for the draft or for what it is sent as.
LEMMA FreshId ==
  ASSUME TypeOK, DInv, HandOutId, UNCHANGED <<rows, hook>>,
         \/ draftMsg' = lastId' /\ sentMsg' = sentMsg /\ sentMsg = 0
         \/ draftMsg # 0 /\ draftMsg' = 0 /\ sentMsg' = lastId',
         \A r \in Requests : RequestKnows(r)'
  PROVE  DInv'
<1>1. IdsMove /\ lastId' = lastId + 1 /\ lastId \in Nat
  BY HandOutType, RecordTypes DEF IdsMove
<1>2. \A h \in Hooks : HookKnows(h)' BY <1>1, HookStillKnows
<1>3. \A g \in Ids : rows[g] # NoRow => g < lastId'
  BY <1>1, DraftAssumption DEF TypeOK, Ids
<1>4. \A g \in Ids : rows[g].status \in {"draft", "sent"} => g # lastId'
  BY <1>1, <1>3, DraftAssumption DEF NoRow, Row, Ids
<1>5. sentMsg' = 0 \/ draftMsg' = 0 BY DEF DInv, IdsKnown
<1>6. IdsKnown' BY <1>4, <1>5 DEF DInv, IdsKnown
<1>7. lastId' \in undelivered' BY DEF HandOutId
<1>8. DraftReachable' BY <1>7 DEF DraftReachable
<1>9. draftMsg # 0 => \A g \in Ids : rows[g].status # "sent"
  BY DraftAssumption DEF DInv, IdsKnown, SentRecorded, Ids
<1>10. SentRecorded' BY <1>7, <1>9 DEF DInv, SentRecorded, IdsKnown
<1> QED BY <1>2, <1>6, <1>8, <1>10 DEF DInv

LEMMA InvInit == Init => DInv
  BY DraftAssumption
  DEF Init, DInv, IdsKnown, HookKnows, RequestKnows, DraftReachable, SentRecorded,
      HookIdle, ReqIdle, Row, NoRow, Ids

\* The two message ids are ids of rows.
LEMMA CurrentIds ==
  ASSUME TypeOK
  PROVE  (draftMsg # 0 => draftMsg \in Ids) /\ (sentMsg # 0 => sentMsg \in Ids)
  BY DraftAssumption DEF TypeOK, Ids

LEMMA DeliveryInv ==
  ASSUME TypeOK, DInv, NEW h \in Hooks, Delivery(h)
  PROVE  DInv'
<1>0. IdsMove BY DEF Delivery, Deliver, GetMessage, SkipMissing, StoreMessage, IdsMove
<1>1. ASSUME NEW id \in undelivered, Deliver(h, id) PROVE DInv'
  <2>1. id \in Ids BY DraftAssumption DEF TypeOK, Ids
  <2>2. HookKnows(h)' BY <1>1, <2>1 DEF Deliver, HookKnows, TypeOK
  <2> QED BY <1>0, <1>1, <2>2, OneHook, OnlyHook DEF Deliver
<1>2. CASE GetMessage(h)
  <2>1. HookKnows(h)' BY <1>2 DEF GetMessage, HookKnows, TypeOK, DInv
  <2> QED BY <1>0, <1>2, <2>1, OneHook, OnlyHook DEF GetMessage
<1>3. CASE SkipMissing(h)
  <2>1. HookKnows(h)' BY <1>3 DEF SkipMissing, HookKnows, HookIdle, TypeOK
  <2> QED BY <1>0, <1>3, <2>1, OneHook, OnlyHook DEF SkipMissing
<1>4. CASE StoreMessage(h)
  <2> DEFINE id == hook[h].id
  <2>1. /\ id \in Ids /\ hook[h].got \in {"draft", "sent"}
        /\ hook[h].got = "sent" <=> id = sentMsg
    BY <1>4 DEF StoreMessage, DInv, HookKnows, TypeOK, HookState, Statuses
  <2>2. /\ \A g \in Ids : g # id => rows'[g] = rows[g]
        /\ rows'[id] = [rows[id] EXCEPT !.status = hook[h].got]
    BY <1>4, <2>1 DEF StoreMessage, TypeOK
  <2>3. rows[id] \in RowState BY <2>1 DEF TypeOK
  <2>4. rows'[id].status = hook[h].got /\ rows'[id].draftId = rows[id].draftId
    BY <2>2, <2>3 DEF RowState
  <2> HIDE DEF id
  <2>5. \A q \in Requests : RequestKnows(q)'
    BY <1>0, <1>4, RequestStillKnows DEF StoreMessage
  <2>6. HookKnows(h)' BY <1>4 DEF StoreMessage, HookKnows, HookIdle, TypeOK
  <2>7. \A k \in Hooks : HookKnows(k)'
    BY <1>0, <1>4, <2>6, OneHook DEF StoreMessage
  <2>8. IdsKnown' BY <1>4, <2>1, <2>2, <2>4 DEF StoreMessage, DInv, IdsKnown
  <2>9. rows'[id] # NoRow BY <2>1, <2>4 DEF NoRow, Row
  <2>10. DraftReachable'
    BY <1>4, <2>1, <2>2, <2>9, DraftAssumption DEF StoreMessage, DInv, DraftReachable, TypeOK, Ids, id
  <2>11. id = sentMsg => ~rows[id].draftId
    BY <2>1, <2>3 DEF DInv, IdsKnown, SentRecorded, NoRow, Row, RowState, Statuses
  <2>12. id = sentMsg => rows'[id] = Row("sent", FALSE)
    <3>1. rows'[id] \in RowState BY <2>1, <2>2, <2>3 DEF RowState, Statuses
    <3> QED BY <2>1, <2>4, <2>11, <3>1 DEF Row, RowState
  <2>13. sentMsg # 0 /\ sentMsg # id => sentMsg \in undelivered' \/ rows'[sentMsg] = Row("sent", FALSE)
    <3>1. ASSUME sentMsg # 0, sentMsg # id PROVE rows'[sentMsg] = rows[sentMsg]
      BY <2>2, <3>1, CurrentIds
    <3>2. id # sentMsg => (sentMsg \in undelivered => sentMsg \in undelivered')
      BY <1>4 DEF StoreMessage, id
    <3> QED BY <3>1, <3>2 DEF DInv, SentRecorded
  <2>14. SentRecorded'
    BY <1>4, <2>1, <2>2, <2>4, <2>11, <2>12, <2>13 DEF StoreMessage, DInv, SentRecorded
  <2> QED BY <2>5, <2>7, <2>8, <2>10, <2>14 DEF DInv
<1> QED BY <1>1, <1>2, <1>3, <1>4 DEF Delivery

\* A rename of a row that is not the draft's current one, by a request that ends.
LEMMA RenameInv ==
  ASSUME TypeOK, DInv, NEW r \in Requests, NEW old \in Ids, NEW new \in Ids,
         NEW row \in RowState, Rename(old, new, row), Ends(r), old # new,
         old # draftMsg, old # sentMsg, row # NoRow,
         \/ row.status = "draft" /\ new # sentMsg
         \/ row = Row("sent", FALSE) /\ new = sentMsg,
         UNCHANGED <<lastId, draftMsg, sentMsg, undelivered, hook, clean>>
  PROVE  DInv'
<1>0. IdsMove BY DEF IdsMove
<1>1. \A q \in Requests : RequestKnows(q)' BY <1>0, EndsKnows
<1>2. CASE rows' = rows BY <1>1, <1>2, OnlyRequest
<1>3. CASE rows' = [rows EXCEPT ![old] = NoRow, ![new] = row]
  <2>1. /\ \A g \in Ids : g \notin {old, new} => rows'[g] = rows[g]
        /\ rows'[old] = NoRow /\ rows'[new] = row
    BY <1>3 DEF TypeOK
  <2>2. NoRow.status = "none" /\ Row("sent", FALSE).status = "sent" /\ ~Row("sent", FALSE).draftId
    BY DEF NoRow, Row
  <2>3. \A h \in Hooks : HookKnows(h)' BY DEF DInv, HookKnows
  <2>4. IdsKnown' BY <2>1, <2>2 DEF DInv, IdsKnown
  <2>5. DraftReachable'
    BY <2>1, DraftAssumption DEF DInv, DraftReachable, TypeOK, Ids
  <2>6. sentMsg # 0 => sentMsg \in undelivered \/ rows'[sentMsg] = Row("sent", FALSE)
    BY <2>1, CurrentIds DEF DInv, SentRecorded
  <2>7. \A g \in Ids : rows'[g].status = "sent" => g = sentMsg /\ ~rows'[g].draftId
    BY <2>1, <2>2 DEF DInv, SentRecorded
  <2>8. SentRecorded' BY <2>6, <2>7 DEF SentRecorded
  <2> QED BY <1>1, <2>3, <2>4, <2>5, <2>8 DEF DInv
<1> QED BY <1>2, <1>3 DEF Rename

LEMMA HandleInv ==
  ASSUME TypeOK, DInv, NEW r \in Requests, Handle(r)
  PROVE  DInv'
<1> USE DEF TypeOK
<1>0. 0 \notin Ids /\ lastId \in Nat BY DraftAssumption, RecordTypes DEF Ids
<1>1. ASSUME NEW op \in {"update", "delete", "send"}, NEW g \in Ids, ReadDraft(r, op, g)
      PROVE  DInv'
  <2>1. IdsMove BY <1>1 DEF ReadDraft, IdsMove
  <2>2. g # sentMsg BY <1>1 DEF ReadDraft, DInv, IdsKnown
  <2>3. RequestKnows(r)' BY <1>1, <2>2 DEF ReadDraft, RequestKnows
  <2> QED BY <1>1, <2>1, <2>3, OneRequest, OnlyRequest DEF ReadDraft
<1>2. CASE ResolveDraftId(r)
  <2>1. IdsMove BY <1>2 DEF ResolveDraftId, IdsMove
  <2>2. RequestKnows(r)' BY <1>2 DEF ResolveDraftId, Goes, DInv, RequestKnows
  <2>3. req' = [req EXCEPT ![r] = [req[r] EXCEPT !.pc = "call"]]
    BY <1>2 DEF ResolveDraftId, Goes
  <2> QED BY <1>2, <2>1, <2>2, <2>3, OneRequest, OnlyRequest DEF ResolveDraftId
<1>3. CASE ResolveNothing(r)
  <2>1. IdsMove BY <1>3 DEF ResolveNothing, IdsMove
  <2>2. CASE Ends(r) BY <1>3, <2>1, <2>2, EndsKnows, OnlyRequest DEF ResolveNothing
  <2>3. CASE Goes(r, "drop") /\ req[r].op = "delete"
    <3>1. RequestKnows(r)' BY <1>3, <2>3 DEF ResolveNothing, Goes, DInv, RequestKnows
    <3>2. req' = [req EXCEPT ![r] = [req[r] EXCEPT !.pc = "drop"]] BY <2>3 DEF Goes
    <3> QED BY <1>3, <2>1, <3>1, <3>2, OneRequest, OnlyRequest DEF ResolveNothing
  <2> QED BY <1>3, <2>2, <2>3 DEF ResolveNothing
<1>4. CASE UpdateInGmail(r)
  <2>1. HandOutId /\ lastId' = lastId + 1 /\ lastId' \in Ids
    BY <1>4, HandOutType DEF UpdateInGmail
  <2>2. IdsMove /\ sentMsg = 0 BY <1>4, <2>1 DEF UpdateInGmail, IdsMove, DInv, IdsKnown
  <2>3. req' = [req EXCEPT ![r] = [req[r] EXCEPT !.pc = "store", !.new = lastId']]
    BY <1>4 DEF UpdateInGmail
  <2>4. req[r].gid < lastId'
    <3>1. req[r].gid \in 0..lastId BY DEF RequestState
    <3> QED BY <1>0, <2>1, <3>1
  <2>5. RequestKnows(r)'
    BY <1>0, <1>4, <2>1, <2>2, <2>3, <2>4 DEF UpdateInGmail, DInv, RequestKnows, RequestState
  <2>6. \A q \in Requests : RequestKnows(q)' BY <2>2, <2>3, <2>5, OneRequest
  <2> QED BY <1>4, <2>1, <2>2, <2>6, FreshId DEF UpdateInGmail
<1>5. CASE SendInGmail(r)
  <2>1. HandOutId /\ lastId' = lastId + 1 /\ lastId' \in Ids
    BY <1>5, HandOutType DEF SendInGmail
  <2>2. IdsMove BY <1>5, <2>1 DEF SendInGmail, IdsMove
  <2>3. req' = [req EXCEPT ![r] = [req[r] EXCEPT !.pc = "store", !.new = lastId']]
    BY <1>5 DEF SendInGmail
  <2>4. req[r].gid < lastId'
    <3>1. req[r].gid \in 0..lastId BY DEF RequestState
    <3> QED BY <1>0, <2>1, <3>1
  <2>5. RequestKnows(r)'
    BY <1>0, <1>5, <2>1, <2>2, <2>3, <2>4 DEF SendInGmail, DInv, RequestKnows, RequestState
  <2>6. \A q \in Requests : RequestKnows(q)' BY <2>2, <2>3, <2>5, OneRequest
  <2> QED BY <1>5, <2>1, <2>6, FreshId DEF SendInGmail
<1>6. CASE DraftIsGone(r)
  <2>1. IdsMove BY <1>6 DEF DraftIsGone, IdsMove
  <2> QED BY <1>6, <2>1, EndsKnows, OnlyRequest DEF DraftIsGone
<1>7. CASE DeleteInGmail(r)
  <2>1. IdsMove BY <1>7 DEF DeleteInGmail, IdsMove
  <2>2. req' = [req EXCEPT ![r] = [req[r] EXCEPT !.pc = "drop"]]
    BY <1>7 DEF DeleteInGmail, Goes
  <2>3. RequestKnows(r)' BY <1>0, <1>7, <2>2 DEF DeleteInGmail, DInv, RequestKnows
  <2>4. \A q \in Requests : RequestKnows(q)' BY <2>1, <2>2, <2>3, OneRequest
  <2>5. \A h \in Hooks : HookKnows(h)' BY <1>7 DEF DeleteInGmail, DInv, HookKnows
  <2> QED BY <1>7, <2>4, <2>5
          DEF DeleteInGmail, DInv, IdsKnown, DraftReachable, SentRecorded
<1>8. CASE StoreUpdated(r)
  <2> DEFINE old == req[r].gid
             row == Row(rows[old].status, TRUE)
  <2>1. /\ old \in Ids /\ req[r].new \in Ids /\ old # req[r].new
        /\ old # draftMsg /\ old # sentMsg /\ req[r].new # sentMsg
    BY <1>8 DEF StoreUpdated, DInv, RequestKnows, Ids
  <2>2. CASE rows[old] = NoRow
    <3>1. IdsMove /\ rows' = rows BY <1>8, <2>2 DEF StoreUpdated, IdsMove, Rename
    <3> QED BY <1>8, <3>1, EndsKnows, OnlyRequest DEF StoreUpdated
  <2>3. CASE rows[old] # NoRow
    <3>1. rows[old].status = "draft"
      BY <2>1, <2>3 DEF DInv, IdsKnown, SentRecorded, RowState, Statuses
    <3>2. row \in RowState /\ row # NoRow /\ row.status = "draft"
      BY <3>1 DEF Row, NoRow, RowState, Statuses
    <3>3. Rename(old, req[r].new, row) BY <1>8 DEF StoreUpdated
    <3> HIDE DEF old, row
    <3> QED BY <1>8, <2>1, <3>2, <3>3, RenameInv DEF StoreUpdated
  <2> QED BY <2>2, <2>3
<1>9. CASE StoreSent(r)
  <2>1. /\ req[r].gid \in Ids /\ req[r].new \in Ids /\ req[r].gid # req[r].new
        /\ req[r].gid # draftMsg /\ req[r].gid # sentMsg /\ req[r].new = sentMsg
    BY <1>9 DEF StoreSent, DInv, RequestKnows, Ids
  <2>2. Row("sent", FALSE) \in RowState /\ Row("sent", FALSE) # NoRow
    BY DEF Row, NoRow, RowState, Statuses
  <2> QED BY <1>9, <2>1, <2>2, RenameInv DEF StoreSent
<1>10. CASE DropRow(r)
  <2>1. req[r].gid \in Ids /\ req[r].gid # draftMsg /\ req[r].gid # sentMsg
    BY <1>10 DEF DropRow, DInv, RequestKnows
  <2>2. /\ \A g \in Ids : g # req[r].gid => rows'[g] = rows[g]
        /\ rows'[req[r].gid] = NoRow /\ NoRow.status = "none"
    BY <1>10, <2>1 DEF DropRow, NoRow, Row
  <2>3. IdsMove BY <1>10 DEF DropRow, IdsMove
  <2>4. \A q \in Requests : RequestKnows(q)' BY <1>10, <2>3, EndsKnows DEF DropRow
  <2>5. \A h \in Hooks : HookKnows(h)' BY <1>10 DEF DropRow, DInv, HookKnows
  <2>6. IdsKnown' BY <1>10, <2>2 DEF DropRow, DInv, IdsKnown
  <2>7. DraftReachable'
    BY <1>10, <2>1, <2>2, DraftAssumption DEF DropRow, DInv, DraftReachable, Ids
  <2>8. sentMsg # 0 => sentMsg \in undelivered \/ rows'[sentMsg] = Row("sent", FALSE)
    BY <2>1, <2>2, CurrentIds DEF DInv, SentRecorded
  <2>9. \A g \in Ids : rows'[g].status = "sent" => g = sentMsg /\ ~rows'[g].draftId
    BY <2>2 DEF DInv, SentRecorded
  <2>10. SentRecorded' BY <1>10, <2>8, <2>9 DEF DropRow, SentRecorded
  <2> QED BY <2>4, <2>5, <2>6, <2>7, <2>10 DEF DInv
<1>11. CASE IdTaken(r)
  <2>1. IdsMove BY <1>11 DEF IdTaken, IdsMove
  <2> QED BY <1>11, <2>1, EndsKnows, OnlyRequest DEF IdTaken
<1> QED BY <1>1, <1>2, <1>3, <1>4, <1>5, <1>6, <1>7, <1>8, <1>9, <1>10, <1>11 DEF Handle

LEMMA CreateInv ==
  ASSUME TypeOK, DInv, NEW r \in Requests, Create(r)
  PROVE  DInv'
<1>1. CASE CreateDraft(r)
  <2>1. HandOutId /\ lastId' = lastId + 1 /\ lastId' \in Ids
    BY <1>1, HandOutType DEF CreateDraft
  <2>2. sentMsg = 0 BY <1>1 DEF CreateDraft, TypeOK
  <2>3. IdsMove BY <1>1, <2>1 DEF CreateDraft, IdsMove
  <2>4. lastId' # 0 BY <2>1, DraftAssumption DEF Ids
  <2>5. req' = [req EXCEPT ![r] =
                  [op |-> "create", pc |-> "get", gid |-> 0, new |-> lastId']]
    BY <1>1 DEF CreateDraft
  <2>6. sentMsg' = sentMsg BY <1>1 DEF CreateDraft
  <2>7. RequestKnows(r)' BY <2>1, <2>2, <2>4, <2>5, <2>6 DEF RequestKnows, TypeOK
  <2>8. \A q \in Requests : RequestKnows(q)' BY <2>3, <2>5, <2>7, OneRequest
  <2> QED BY <1>1, <2>1, <2>2, <2>8, FreshId DEF CreateDraft
<1>2. CASE GetCreated(r)
  <2>1. IdsMove BY <1>2 DEF GetCreated, IdsMove
  <2>2. req' = [req EXCEPT ![r] = [req[r] EXCEPT !.pc = "store"]]
    BY <1>2 DEF GetCreated, Goes
  <2>3. RequestKnows(r)' BY <1>2, <2>2 DEF GetCreated, DInv, RequestKnows, TypeOK
  <2> QED BY <1>2, <2>1, <2>2, <2>3, OneRequest, OnlyRequest DEF GetCreated
<1>3. CASE StoreCreated(r)
  <2> DEFINE new == req[r].new
  <2>1. new \in Ids /\ new # sentMsg BY <1>3 DEF StoreCreated, DInv, RequestKnows
  <2>2. /\ \A g \in Ids : g # new => rows'[g] = rows[g]
        /\ rows'[new] = Row("draft", TRUE)
    BY <1>3, <2>1 DEF StoreCreated, TypeOK
  <2>3. /\ Row("draft", TRUE).status = "draft" /\ NoRow.status = "none"
    BY DEF Row, NoRow
  <2> HIDE DEF new
  <2>4. IdsMove BY <1>3 DEF StoreCreated, IdsMove
  <2>5. \A q \in Requests : RequestKnows(q)' BY <1>3, <2>4, EndsKnows DEF StoreCreated
  <2>6. \A h \in Hooks : HookKnows(h)' BY <1>3 DEF StoreCreated, DInv, HookKnows
  <2>7. IdsKnown' BY <1>3, <2>1, <2>2, <2>3 DEF StoreCreated, DInv, IdsKnown
  <2>8. DraftReachable'
    BY <1>3, <2>2, <2>3, CurrentIds DEF StoreCreated, DInv, DraftReachable
  <2>9. sentMsg # 0 => sentMsg \in undelivered \/ rows'[sentMsg] = Row("sent", FALSE)
    BY <2>1, <2>2, CurrentIds DEF DInv, SentRecorded
  <2>10. \A g \in Ids : rows'[g].status = "sent" => g = sentMsg /\ ~rows'[g].draftId
    BY <2>2, <2>3 DEF DInv, SentRecorded
  <2>11. SentRecorded' BY <1>3, <2>9, <2>10 DEF StoreCreated, SentRecorded
  <2> QED BY <2>5, <2>6, <2>7, <2>8, <2>11 DEF DInv
<1> QED BY <1>1, <1>2, <1>3 DEF Create

LEMMA InvStep == TypeOK /\ DInv /\ [Next]_vars => DInv'
<1> SUFFICES ASSUME TypeOK, DInv, [Next]_vars PROVE DInv'
  OBVIOUS
<1>1. ASSUME IdsMove, UNCHANGED req PROVE \A r \in Requests : RequestKnows(r)'
  BY <1>1, RequestStillKnows
<1>2. ASSUME IdsMove, UNCHANGED hook PROVE \A h \in Hooks : HookKnows(h)'
  BY <1>2, HookStillKnows
<1>3. CASE GmailEdits
  <2>1. HandOutId /\ lastId' = lastId + 1 BY <1>3, HandOutType DEF GmailEdits
  <2>2. IdsMove /\ sentMsg = 0 BY <1>3, <2>1 DEF GmailEdits, IdsMove, DInv, IdsKnown
  <2> QED BY <1>1, <1>3, <2>1, <2>2, FreshId DEF GmailEdits
<1>4. CASE GmailSends
  <2>1. HandOutId /\ lastId' = lastId + 1 BY <1>4, HandOutType DEF GmailSends
  <2>2. IdsMove BY <1>4, <2>1 DEF GmailSends, IdsMove
  <2> QED BY <1>1, <1>4, <2>1, <2>2, FreshId DEF GmailSends
<1>5. CASE GmailDiscards
  <2>1. IdsMove BY <1>5 DEF GmailDiscards, IdsMove
  <2> QED BY <1>1, <1>2, <1>5, <2>1
          DEF GmailDiscards, DInv, IdsKnown, DraftReachable, SentRecorded
<1>6. ASSUME NEW h \in Hooks, HookFails(h) PROVE DInv'
  <2>1. IdsMove BY <1>6 DEF HookFails, IdsMove
  <2>2. HookKnows(h)' BY <1>6 DEF HookFails, HookKnows, HookIdle, TypeOK
  <2> QED BY <1>6, <2>1, <2>2, OneHook, OnlyHook DEF HookFails
<1>7. ASSUME NEW r \in Requests, RequestFails(r) PROVE DInv'
  <2>1. IdsMove BY <1>7 DEF RequestFails, IdsMove
  <2> QED BY <1>7, <2>1, EndsKnows, OnlyRequest DEF RequestFails
<1>8. CASE UNCHANGED vars
  <2>1. IdsMove BY <1>8 DEF vars, IdsMove
  <2> QED BY <1>1, <1>8, <2>1, OnlyRequest DEF vars
<1> QED BY <1>3, <1>4, <1>5, <1>6, <1>7, <1>8, DeliveryInv, CreateInv, HandleInv
        DEF Next, Undisturbed

\* Types and the inductive invariant hold together in every reachable state.
THEOREM Correct == Spec => [](TypeOK /\ DInv)
<1>1. Init => TypeOK /\ DInv BY TypeInit, InvInit
<1>2. TypeOK /\ DInv /\ [Next]_vars => (TypeOK /\ DInv)' BY TypeStep, InvStep
<1> QED BY <1>1, <1>2, PTL DEF Spec

\* Every reachable state is well typed, whatever the numbers of ids, requests
\* and deliveries.
THEOREM TypeCorrect == Spec => []TypeOK
<1> QED BY Correct, PTL

\* What requests and deliveries know of the ids they hold is inductive.
THEOREM DraftsInductive == Spec => []DInv
<1> QED BY Correct, PTL

\* The draft is never lost: its row is there or will be delivered.
THEOREM DraftSafe == Spec => []DraftReachable
<1>1. DInv => DraftReachable BY DEF DInv
<1> QED BY <1>1, Correct, PTL

\* A sent draft is recorded as sent, and nothing else is.
THEOREM SentSafe == Spec => []SentRecorded
<1>1. DInv => SentRecorded BY DEF DInv
<1> QED BY <1>1, Correct, PTL

(***************************************************************************)
(* While nothing overlaps or fails, the running process is alone, and what *)
(* it has done so far decides which ids have a row.                        *)
(***************************************************************************)
Recorded(S) == \A g \in Ids : rows[g] # NoRow <=> g \in S

Alone ==
  /\ \A h, k \in Hooks : hook[h].pc # "idle" /\ hook[k].pc # "idle" => h = k
  /\ \A r, q \in Requests : req[r].pc # "idle" /\ req[q].pc # "idle" => r = q
  /\ \A h \in Hooks, r \in Requests : hook[h].pc = "idle" \/ req[r].pc = "idle"

InStep(r) ==
  /\ req[r].pc \in {"get", "store"} /\ req[r].op = "create" =>
       draftMsg = req[r].new /\ sentMsg = 0 /\ Recorded({})
  /\ req[r].pc \in {"resolve", "call"} =>
       draftMsg = req[r].gid /\ sentMsg = 0 /\ Recorded({req[r].gid})
  /\ req[r].pc = "store" /\ req[r].op = "update" =>
       draftMsg = req[r].new /\ sentMsg = 0 /\ Recorded({req[r].gid})
  /\ req[r].pc = "store" /\ req[r].op = "send" =>
       draftMsg = 0 /\ sentMsg = req[r].new /\ Recorded({req[r].gid})
  /\ req[r].pc = "drop" => draftMsg = 0 /\ sentMsg = 0 /\ Recorded({req[r].gid})

Exact ==
  /\ Alone
  /\ (\A r \in Requests : req[r].pc = "idle") => Recorded({draftMsg, sentMsg} \ {0})
  /\ \A r \in Requests : InStep(r)
  /\ \A h \in Hooks : hook[h].pc = "store" => hook[h].id \in {draftMsg, sentMsg}

SerialInv == clean => Exact

\* A request moves, alone.
LEMMA RequestExact ==
  ASSUME TypeOK, Exact, NEW r \in Requests, NEW s, req' = [req EXCEPT ![r] = s],
         UNCHANGED hook, req[r].pc # "idle" \/ ~Busy, InStep(r)',
         s.pc = "idle" => Recorded({draftMsg, sentMsg} \ {0})'
  PROVE  Exact'
<1>1. \A q \in Requests : q # r => req[q].pc = "idle" /\ req'[q] = req[q]
  BY DEF Exact, Alone, Busy, TypeOK
<1>2. \A h \in Hooks : hook[h].pc = "idle" BY DEF Exact, Alone, Busy
<1>3. req'[r] = s BY DEF TypeOK
<1>4. Alone' BY <1>1, <1>2 DEF Alone
<1>5. \A q \in Requests : InStep(q)' BY <1>1 DEF InStep
<1>6. (\A q \in Requests : req'[q].pc = "idle") => Recorded({draftMsg, sentMsg} \ {0})'
  BY <1>3
<1> QED BY <1>2, <1>4, <1>5, <1>6 DEF Exact

\* A delivery moves, alone.
LEMMA HookExact ==
  ASSUME TypeOK, Exact, NEW h \in Hooks, NEW s, hook' = [hook EXCEPT ![h] = s],
         UNCHANGED <<req, draftMsg, sentMsg>>, hook[h].pc # "idle" \/ ~Busy,
         s.pc = "store" => s.id \in {draftMsg, sentMsg},
         Recorded({draftMsg, sentMsg} \ {0})'
  PROVE  Exact'
<1>1. \A k \in Hooks : k # h => hook[k].pc = "idle" /\ hook'[k] = hook[k]
  BY DEF Exact, Alone, Busy, TypeOK
<1>2. \A r \in Requests : req[r].pc = "idle" BY DEF Exact, Alone, Busy
<1>3. hook'[h] = s BY DEF TypeOK
<1>4. Alone' BY <1>1, <1>2 DEF Alone
<1>5. \A r \in Requests : InStep(r)' BY <1>2 DEF InStep
<1> QED BY <1>1, <1>3, <1>4, <1>5 DEF Exact

LEMMA DeliveryExact ==
  ASSUME TypeOK, DInv, Exact, NEW h \in Hooks, Delivery(h), clean'
  PROVE  Exact'
<1>1. hook[h].pc # "idle" \/ ~Busy => Recorded({draftMsg, sentMsg} \ {0})
  BY DEF Exact, Alone, Busy
<1>2. ASSUME NEW id \in undelivered, Deliver(h, id) PROVE Exact'
  <2>1. ~Busy BY <1>2 DEF Deliver, Starts
  <2>2. Recorded({draftMsg, sentMsg} \ {0})' BY <1>1, <1>2, <2>1 DEF Deliver, Recorded
  <2> QED BY <1>2, <2>1, <2>2, HookExact DEF Deliver
<1>3. CASE GetMessage(h)
  <2>1. Recorded({draftMsg, sentMsg} \ {0})' BY <1>1, <1>3 DEF GetMessage, Recorded
  <2> QED BY <1>3, <2>1, HookExact DEF GetMessage
<1>4. CASE SkipMissing(h)
  <2>1. Recorded({draftMsg, sentMsg} \ {0})' BY <1>1, <1>4 DEF SkipMissing, Recorded
  <2> QED BY <1>4, <2>1, HookExact DEF SkipMissing, HookIdle
<1>5. CASE StoreMessage(h)
  <2>1. hook[h].id \in {draftMsg, sentMsg} \ {0} /\ hook[h].id \in Ids
    BY <1>5, DraftAssumption DEF StoreMessage, Exact, DInv, HookKnows, Ids
  <2>2. hook[h].got # "none" BY <1>5 DEF StoreMessage, DInv, HookKnows
  <2>3. rows[hook[h].id] \in RowState BY <2>1 DEF TypeOK
  <2>4. rows'[hook[h].id] # NoRow
    BY <1>5, <2>1, <2>2, <2>3 DEF StoreMessage, TypeOK, RowState, NoRow, Row
  <2>5. \A g \in Ids : g # hook[h].id => rows'[g] = rows[g]
    BY <1>5 DEF StoreMessage, TypeOK
  <2>6. Recorded({draftMsg, sentMsg} \ {0})
    BY <1>1, <1>5 DEF StoreMessage
  <2>7. Recorded({draftMsg, sentMsg} \ {0})'
    BY <1>5, <2>1, <2>4, <2>5, <2>6 DEF StoreMessage, Recorded
  <2> QED BY <1>5, <2>7, HookExact DEF StoreMessage, HookIdle
<1> QED BY <1>2, <1>3, <1>4, <1>5 DEF Delivery

LEMMA CreateExact ==
  ASSUME TypeOK, DInv, Exact, NEW r \in Requests, Create(r), clean'
  PROVE  Exact'
<1>1. CASE CreateDraft(r)
  <2>1. ~Busy BY <1>1 DEF CreateDraft, Starts
  <2>2. draftMsg = 0 /\ sentMsg = 0 BY <1>1 DEF CreateDraft, TypeOK
  <2>3. Recorded({}) BY <2>1, <2>2 DEF Exact, Busy, Recorded
  <2> DEFINE s == [op |-> "create", pc |-> "get", gid |-> 0, new |-> lastId']
  <2>4. req' = [req EXCEPT ![r] = s] BY <1>1 DEF CreateDraft
  <2>5. req'[r] = s BY <2>4 DEF TypeOK
  <2>6. InStep(r)' BY <1>1, <2>2, <2>3, <2>5 DEF CreateDraft, InStep, Recorded
  <2> QED BY <1>1, <2>1, <2>4, <2>6, RequestExact DEF CreateDraft
<1>2. CASE GetCreated(r)
  <2>1. req[r].op = "create" BY <1>2 DEF GetCreated, DInv, RequestKnows
  <2>2. draftMsg = req[r].new /\ sentMsg = 0 /\ Recorded({})
    BY <1>2, <2>1 DEF GetCreated, Exact, InStep
  <2>3. req' = [req EXCEPT ![r] = [req[r] EXCEPT !.pc = "store"]]
    BY <1>2 DEF GetCreated, Goes
  <2>4. req'[r] = [req[r] EXCEPT !.pc = "store"] /\ req[r] \in RequestState
    BY <2>3 DEF TypeOK
  <2>5. req'[r].pc = "store" /\ req'[r].op = "create" /\ req'[r].new = req[r].new
    BY <2>1, <2>4 DEF RequestState
  <2>6. InStep(r)' BY <1>2, <2>2, <2>5 DEF GetCreated, InStep, Recorded
  <2> QED BY <1>2, <2>3, <2>4, <2>5, <2>6, RequestExact DEF GetCreated
<1>3. CASE StoreCreated(r)
  <2>1. draftMsg = req[r].new /\ sentMsg = 0 /\ Recorded({}) /\ req[r].new \in Ids
    BY <1>3 DEF StoreCreated, Exact, InStep, DInv, RequestKnows
  <2>2. /\ \A g \in Ids : g # req[r].new => rows'[g] = rows[g]
        /\ rows'[req[r].new] = Row("draft", TRUE) /\ Row("draft", TRUE) # NoRow
    BY <1>3, <2>1 DEF StoreCreated, TypeOK, Row, NoRow
  <2>3. Recorded({draftMsg, sentMsg} \ {0})'
    <3>1. draftMsg' = req[r].new /\ sentMsg' = 0 BY <1>3, <2>1 DEF StoreCreated
    <3>2. req[r].new # 0 BY <2>1, DraftAssumption DEF Ids
    <3>3. \A g \in Ids : rows'[g] # NoRow <=> g = req[r].new
      BY <2>1, <2>2 DEF Recorded
    <3> QED BY <3>1, <3>2, <3>3 DEF Recorded
  <2>4. InStep(r)' BY <1>3 DEF StoreCreated, Ends, InStep, ReqIdle, TypeOK
  <2> QED BY <1>3, <2>3, <2>4, RequestExact DEF StoreCreated, Ends
<1> QED BY <1>1, <1>2, <1>3 DEF Create

LEMMA HandleExact ==
  ASSUME TypeOK, DInv, Exact, NEW r \in Requests, Handle(r), clean'
  PROVE  Exact'
<1>0. 0 \notin Ids /\ req[r] \in RequestState BY DraftAssumption DEF Ids, TypeOK
\* A request that ends: the rows are exact.
<1>1. ASSUME Ends(r), UNCHANGED hook, req[r].pc # "idle",
             Recorded({draftMsg, sentMsg} \ {0})'
      PROVE  Exact'
  <2>1. InStep(r)' BY <1>1 DEF Ends, InStep, ReqIdle, TypeOK
  <2> QED BY <1>1, <2>1, RequestExact DEF Ends
<1>2. ASSUME NEW op \in {"update", "delete", "send"}, NEW g \in Ids, ReadDraft(r, op, g)
      PROVE  Exact'
  <2>1. ~Busy BY <1>2 DEF ReadDraft, Starts
  <2>2. Recorded({draftMsg, sentMsg} \ {0}) BY <2>1 DEF Exact, Busy
  <2>3. rows[g] # NoRow /\ g # sentMsg
    BY <1>2 DEF ReadDraft, NoRow, Row, DInv, IdsKnown
  <2>4. draftMsg = g /\ sentMsg = 0
    BY <1>0, <2>2, <2>3 DEF Recorded, DInv, IdsKnown
  <2>5. Recorded({g}) BY <1>0, <2>2, <2>4 DEF Recorded
  <2> DEFINE pc == IF rows[g].draftId THEN "call" ELSE "resolve"
             s == [op |-> op, pc |-> pc, gid |-> g, new |-> 0]
  <2>6. pc \in {"call", "resolve"} OBVIOUS
  <2>7. req' = [req EXCEPT ![r] = s] BY <1>2 DEF ReadDraft
  <2> HIDE DEF pc
  <2>8. req'[r] = s BY <2>7 DEF TypeOK
  <2>9. InStep(r)' BY <1>2, <2>4, <2>5, <2>6, <2>8 DEF ReadDraft, InStep, Recorded
  <2> QED BY <1>2, <2>1, <2>6, <2>7, <2>9, RequestExact DEF ReadDraft
<1>3. CASE ResolveDraftId(r)
  <2>1. draftMsg = req[r].gid /\ sentMsg = 0 /\ Recorded({req[r].gid})
    BY <1>3 DEF ResolveDraftId, Exact, InStep
  <2>2. req' = [req EXCEPT ![r] = [req[r] EXCEPT !.pc = "call"]]
    BY <1>3 DEF ResolveDraftId, Goes
  <2>3. req'[r].pc = "call" /\ req'[r].gid = req[r].gid
    BY <1>0, <2>2 DEF TypeOK, RequestState
  <2>4. InStep(r)' BY <1>3, <2>1, <2>3 DEF ResolveDraftId, InStep, Recorded
  <2> QED BY <1>0, <1>3, <2>2, <2>4, RequestExact DEF ResolveDraftId, RequestState
<1>4. CASE ResolveNothing(r)
  BY <1>4 DEF ResolveNothing, Exact, InStep
<1>5. CASE UpdateInGmail(r)
  <2>1. sentMsg = 0 /\ Recorded({req[r].gid})
    BY <1>5 DEF UpdateInGmail, Exact, InStep
  <2>2. req' = [req EXCEPT ![r] = [req[r] EXCEPT !.pc = "store", !.new = lastId']]
    BY <1>5 DEF UpdateInGmail
  <2>3. /\ req'[r].pc = "store" /\ req'[r].gid = req[r].gid /\ req'[r].new = lastId'
        /\ req'[r].op = "update"
    BY <1>0, <1>5, <2>2 DEF UpdateInGmail, TypeOK, RequestState
  <2>4. InStep(r)' BY <1>5, <2>1, <2>3 DEF UpdateInGmail, InStep, Recorded
  <2> QED BY <1>0, <1>5, <2>2, <2>4, RequestExact DEF UpdateInGmail, RequestState
<1>6. CASE SendInGmail(r)
  <2>1. Recorded({req[r].gid}) BY <1>6 DEF SendInGmail, Exact, InStep
  <2>2. req' = [req EXCEPT ![r] = [req[r] EXCEPT !.pc = "store", !.new = lastId']]
    BY <1>6 DEF SendInGmail
  <2>3. /\ req'[r].pc = "store" /\ req'[r].gid = req[r].gid /\ req'[r].new = lastId'
        /\ req'[r].op = "send"
    BY <1>0, <1>6, <2>2 DEF SendInGmail, TypeOK, RequestState
  <2>4. InStep(r)' BY <1>6, <2>1, <2>3 DEF SendInGmail, InStep, Recorded
  <2> QED BY <1>0, <1>6, <2>2, <2>4, RequestExact DEF SendInGmail, RequestState
<1>7. CASE DraftIsGone(r)
  BY <1>0, <1>7 DEF DraftIsGone, Exact, InStep, DInv, RequestKnows
<1>8. CASE DeleteInGmail(r)
  <2>1. sentMsg = 0 /\ Recorded({req[r].gid})
    BY <1>8 DEF DeleteInGmail, Exact, InStep
  <2>2. req' = [req EXCEPT ![r] = [req[r] EXCEPT !.pc = "drop"]]
    BY <1>8 DEF DeleteInGmail, Goes
  <2>3. req'[r].pc = "drop" /\ req'[r].gid = req[r].gid
    BY <1>0, <2>2 DEF TypeOK, RequestState
  <2>4. InStep(r)' BY <1>8, <2>1, <2>3 DEF DeleteInGmail, InStep, Recorded
  <2> QED BY <1>0, <1>8, <2>2, <2>4, RequestExact DEF DeleteInGmail, RequestState
\* The row takes the id of the message that replaced the draft's.
<1>9. ASSUME NEW row, row # NoRow, Rename(req[r].gid, req[r].new, row), Ends(r),
             req[r].pc = "store", req[r].op \in {"update", "send"},
             UNCHANGED <<draftMsg, sentMsg, hook>>
      PROVE  Exact'
  <2>1. /\ {draftMsg, sentMsg} \ {0} = {req[r].new} /\ Recorded({req[r].gid})
    BY <1>0, <1>9 DEF Exact, InStep, DInv, RequestKnows
  <2>2. req[r].gid \in Ids /\ req[r].new \in Ids /\ req[r].gid # req[r].new
    BY <1>9, DraftAssumption DEF DInv, RequestKnows, Ids
  <2>3. rows' = [rows EXCEPT ![req[r].gid] = NoRow, ![req[r].new] = row]
    BY <1>9, <2>1, <2>2 DEF Rename, Recorded
  <2>4. \A g \in Ids : rows'[g] # NoRow <=> g = req[r].new
    BY <1>9, <2>1, <2>2, <2>3 DEF Recorded, TypeOK
  <2>5. Recorded({draftMsg, sentMsg} \ {0})' BY <1>9, <2>1, <2>4 DEF Recorded
  <2> QED BY <1>1, <1>9, <2>5
<1>10. CASE StoreUpdated(r)
  BY <1>9, <1>10 DEF StoreUpdated, Row, NoRow
<1>11. CASE StoreSent(r)
  BY <1>9, <1>11 DEF StoreSent, Row, NoRow
<1>12. CASE DropRow(r)
  <2>1. draftMsg = 0 /\ sentMsg = 0 /\ Recorded({req[r].gid}) /\ req[r].gid \in Ids
    BY <1>12 DEF DropRow, Exact, InStep, DInv, RequestKnows
  <2>2. \A g \in Ids : rows'[g] = NoRow
    BY <1>12, <2>1 DEF DropRow, Recorded, TypeOK
  <2>3. Recorded({draftMsg, sentMsg} \ {0})' BY <1>12, <2>1, <2>2 DEF DropRow, Recorded
  <2> QED BY <1>1, <1>12, <2>3 DEF DropRow
<1>13. CASE IdTaken(r)
  <2>1. Recorded({req[r].gid}) BY <1>13 DEF IdTaken, Exact, InStep
  <2>2. req[r].new \in Ids /\ req[r].gid # req[r].new
    BY <1>13, DraftAssumption DEF IdTaken, DInv, RequestKnows, Ids
  <2> QED BY <1>13, <2>1, <2>2 DEF IdTaken, Recorded
<1> QED BY <1>2, <1>3, <1>4, <1>5, <1>6, <1>7, <1>8, <1>10, <1>11, <1>12, <1>13 DEF Handle

LEMMA SerialStep ==
  ASSUME TypeOK, DInv, SerialInv, [Next]_vars
  PROVE  SerialInv'
<1> SUFFICES ASSUME clean' PROVE Exact'
  BY DEF SerialInv
<1>1. ASSUME NEW h \in Hooks, Delivery(h) PROVE Exact'
  <2>1. clean BY <1>1 DEF Delivery, Deliver, Starts, GetMessage, SkipMissing, StoreMessage
  <2> QED BY <1>1, <2>1, DeliveryExact DEF SerialInv
<1>2. ASSUME NEW r \in Requests, Create(r) PROVE Exact'
  <2>1. clean BY <1>2 DEF Create, CreateDraft, Starts, GetCreated, StoreCreated
  <2> QED BY <1>2, <2>1, CreateExact DEF SerialInv
<1>3. ASSUME NEW r \in Requests, Handle(r) PROVE Exact'
  <2>1. clean
    BY <1>3 DEF Handle, ReadDraft, Starts, ResolveDraftId, ResolveNothing, UpdateInGmail,
         SendInGmail, DraftIsGone, DeleteInGmail, StoreUpdated, StoreSent, DropRow, IdTaken
  <2> QED BY <1>3, <2>1, HandleExact DEF SerialInv
<1>4. CASE UNCHANGED vars
  BY <1>4 DEF vars, SerialInv, Exact, Alone, InStep, Recorded
<1>5. CASE \/ GmailEdits \/ GmailSends \/ GmailDiscards
           \/ \E h \in Hooks : HookFails(h)
           \/ \E r \in Requests : RequestFails(r)
  BY <1>5 DEF GmailEdits, GmailSends, GmailDiscards, HookFails, RequestFails
<1> QED BY <1>1, <1>2, <1>3, <1>4, <1>5 DEF Next, Undisturbed

\* While nothing overlaps or fails and nobody uses Gmail itself, the rows are exact
\* whenever no process runs: one for the draft or what it was sent as, no other.
THEOREM SerialSafe == Spec => []SerialDrafts
<1>1. Init => SerialInv
  <2> SUFFICES ASSUME Init PROVE Exact
    BY DEF SerialInv
  <2>1. Alone /\ \A r \in Requests : InStep(r)
    BY DEF Init, Alone, InStep, HookIdle, ReqIdle
  <2>2. PICK draftId \in BOOLEAN :
          rows = [g \in Ids |-> IF g = draftMsg THEN Row("draft", draftId) ELSE NoRow]
    BY DEF Init
  <2>3. Recorded({draftMsg, sentMsg} \ {0})
    <3>1. Row("draft", draftId) # NoRow BY DEF Row, NoRow
    <3>2. sentMsg = 0 /\ 0 \notin Ids BY DraftAssumption DEF Init, Ids
    <3> HIDE DEF Row, NoRow
    <3> QED BY <2>2, <3>1, <3>2 DEF Recorded
  <2> QED BY <2>1, <2>3 DEF Exact, Init, HookIdle
<1>2. TypeOK /\ SerialInv => SerialDrafts
  <2> SUFFICES ASSUME TypeOK, Exact, Quiet
               PROVE  {g \in Ids : rows[g] # NoRow} = {draftMsg, sentMsg} \ {0}
    BY DEF SerialInv, SerialDrafts
  <2>1. Recorded({draftMsg, sentMsg} \ {0}) BY DEF Exact, Quiet, Busy
  <2> QED BY <2>1, CurrentIds DEF Recorded
<1> QED BY <1>1, <1>2, SerialStep, Correct, PTL DEF Spec

=============================================================================
