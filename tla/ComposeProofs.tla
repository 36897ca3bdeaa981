----------------------------- MODULE ComposeProofs -----------------------------
(***************************************************************************)
(* The types of Compose, that a draft and a form are sent once, and that   *)
(* what is sent is what was written, for any files and any bounds.         *)
(***************************************************************************)
EXTENDS Compose, TLAPS

---------------------------------------------------------------------------
(* Types.                                                                  *)

Writing == {"post", "create", "update", "senddraft"}

Submitted == {"send", "save"}

DrawerType ==
  [form : 0..forms, kind : {"none", "new", "reply", "draft"}, id : 0..lastId,
   origin : 0..lastId, to : BOOLEAN, text : 0..MaxText, items : SUBSET ItemType,
   sending : BOOLEAN, banner : {"none", "recipient", "send", "save"}]

DraftType == [id : 1..lastId, origin : 1..lastId]

GmailType == [origin : 1..lastId, text : 0..MaxText]

\* A call that will store or send something was made by a form.
CallsMade ==
  /\ \A c \in calls : c.op \in Submitted => c.form # 0
  /\ \A c \in calls : c.pc \in Writing => c.op \in Submitted
  /\ \A c \in calls : c.op = "discard" => c.pc \in {"delete", "answered"}

\* Where a request can be, and that it has no answer before it is answered.
Staged ==
  \A c \in calls :
    /\ c.at = "demo" => api = "demo" /\ c.op # "send"
    /\ api = "demo" => c.at \in {"demo", "none"}
    /\ c.pc = "answered" => c.at = "none"
    /\ c.pc # "answered" => c.answer = "none"
    /\ c.at = "read" => c.pc \in {"update", "senddraft", "delete"}

\* Gmail has given the draft an id that the row has yet to take.
Coming(c) == c.pc \in {"create", "update"} /\ c.at = "row"

\* The id is one the call itself got from Gmail.
Own(c) == Coming(c) \/ c.pc = "senddraft"

IdsApart ==
  /\ \A c \in calls : Coming(c) => c.id # 0 /\ \A d \in drafts : d.id # c.id
  /\ \A c, e \in calls : Own(c) /\ Own(e) /\ c.id = e.id => c = e

\* The types that are inductive.
TInv ==
  /\ TypeOK
  /\ lastId \in Nat
  /\ drawer \in DrawerType
  /\ CallsMade
  /\ Staged
  /\ IdsApart

USE ComposeAssumption

\* The form that is closed is a form.
LEMMA ClosedTyped == lastId \in Nat /\ forms \in Nat => Closed \in DrawerType
BY DEF Closed, DrawerType

\* The row that is addressed is one of the rows.
LEMMA RowFound ==
  ASSUME NEW id, HasRow(id)
  PROVE  Row(id) \in drafts /\ Row(id).id = id
BY DEF HasRow, Row

\* One draft and no form at the start.
LEMMA InitTyped == Init => TInv
<1> SUFFICES ASSUME Init PROVE TInv
  OBVIOUS
<1>1. drawer \in DrawerType
  BY ClosedTyped DEF Init
<1>2. gmail \subseteq [origin : 1..lastId, text : 0..MaxText]
  BY DEF Init, Draft
<1> QED
  BY <1>1, <1>2 DEF Init, TInv, TypeOK, DrawerType, DraftType, Closed, CallsMade, Staged,
       IdsApart, ItemType, CallType, MailType

\* What is typed stays so when more ids, forms, files and calls are handed out.
LEMMA TypesGrow ==
  ASSUME TInv, lastId' \in Nat, lastId' >= lastId, forms' \in 0..MaxForms, forms' >= forms,
         picks' \in 0..MaxPicks, picks' >= picks, made' \in 0..MaxCalls, made' >= made
  PROVE  /\ DrawerType \subseteq DrawerType' /\ DraftType \subseteq DraftType'
         /\ GmailType \subseteq GmailType'
         /\ ItemType \subseteq ItemType' /\ CallType \subseteq CallType'
         /\ MailType \subseteq MailType'
<1> USE DEF TInv, TypeOK
<1>1. /\ lastId \in Nat /\ 0..lastId \subseteq 0..lastId' /\ 1..lastId \subseteq 1..lastId'
      /\ 0..forms \subseteq 0..forms' /\ 1..forms \subseteq 1..forms'
      /\ 1..picks \subseteq 1..picks' /\ 1..made \subseteq 1..made'
  OBVIOUS
<1>2. ItemType \subseteq ItemType'
  BY <1>1 DEF ItemType
<1>3. CallType \subseteq CallType'
  <2> SUFFICES ASSUME NEW c \in CallType PROVE c \in CallType'
    OBVIOUS
  <2>1. SUBSET (1..picks) \subseteq SUBSET (1..picks')
    BY <1>1
  <2> QED
    BY <1>1, <2>1 DEF CallType
<1>4. MailType \subseteq MailType'
  <2> SUFFICES ASSUME NEW c \in MailType PROVE c \in MailType'
    OBVIOUS
  <2>1. SUBSET (1..picks) \subseteq SUBSET (1..picks')
    BY <1>1
  <2> QED
    BY <1>1, <2>1 DEF MailType
<1>5. DraftType \subseteq DraftType' /\ GmailType \subseteq GmailType'
  BY <1>1 DEF DraftType, GmailType
<1>6. DrawerType \subseteq DrawerType'
  <2> SUFFICES ASSUME NEW d \in DrawerType PROVE d \in DrawerType'
    OBVIOUS
  <2>1. SUBSET ItemType \subseteq SUBSET ItemType'
    BY <1>2
  <2> QED
    BY <1>1, <2>1 DEF DrawerType
<1> QED
  BY <1>2, <1>3, <1>4, <1>5, <1>6

\* What is said of the calls and the rows stays so while there are no others.
LEMMA CallsKept ==
  ASSUME TInv, UNCHANGED <<api, calls, drafts>>
  PROVE  CallsMade' /\ Staged' /\ IdsApart'
BY DEF TInv, CallsMade, Staged, IdsApart, Own, Coming

\* What the drawer does to itself leaves everything else typed.
LEMMA ChangesTyped ==
  ASSUME TInv, NEW form, Changes(form), form \in DrawerType', stored' \subseteq 1..picks',
         picks' \in 0..MaxPicks, picks' >= picks
  PROVE  TInv'
<1> USE DEF TInv, TypeOK
<1>1. /\ drawer' \in DrawerType'
      /\ UNCHANGED <<api, forms, calls, made, drafts, gmail, listed, lastId, mails, events,
                     calm, serial>>
  BY DEF Changes
<1>2. /\ calls' \subseteq CallType' /\ mails' \subseteq MailType'
      /\ CallsMade' /\ Staged' /\ IdsApart'
  BY <1>1, TypesGrow, CallsKept
<1> QED
  BY <1>1, <1>2 DEF DrawerType

\* The same when no file is picked.
LEMMA EditsTyped ==
  ASSUME TInv, NEW form, Edits(form), UNCHANGED picks, form \in DrawerType
  PROVE  TInv'
<1>1. form \in DrawerType'
  BY DEF Edits, Changes, DrawerType, ItemType
<1>2. stored' \subseteq 1..picks' /\ picks' \in 0..MaxPicks /\ picks' >= picks
  BY DEF Edits, TInv, TypeOK
<1> QED
  BY <1>1, <1>2, ChangesTyped DEF Edits

\* An item with another status is still an item.
LEMMA StatusTyped ==
  ASSUME TInv, NEW i \in drawer.items,
         NEW s \in {"uploading", "signed", "done", "error"}
  PROVE  WithStatus(i, s) \in DrawerType
<1>1. i \in ItemType /\ [i EXCEPT !.status = s] \in ItemType
  BY DEF TInv, TypeOK, ItemType
<1> QED
  BY <1>1 DEF TInv, DrawerType, WithStatus

\* The steps of the drawer: opening, writing, files.
LEMMA DrawerTyped ==
  ASSUME TInv,
         \/ Compose \/ Reply \/ \E id \in listed : Edit(id)
         \/ Write \/ ChangeRecipient \/ Close
         \/ \E f \in Files : PickFile(f)
         \/ \E i \in drawer.items : \/ RetryUpload(i) \/ RemoveItem(i)
                                   \/ CreateUpload(i) \/ PutFile(i) \/ UploadFails(i)
  PROVE  TInv'
<1> USE DEF TInv, TypeOK
<1>1. ASSUME NEW kind \in {"new", "reply", "draft"}, NEW id \in 0..lastId, Open(kind, id)
      PROVE  TInv'
  <2>1. drawer' \in DrawerType'
    <3> DEFINE o == IF HasRow(id) THEN Row(id).origin ELSE 0
    <3> DEFINE b == kind # "new"
    <3>1. o \in 0..lastId
      <4>1. CASE HasRow(id)
        <5>1. Row(id) \in DraftType
          BY <4>1, RowFound DEF DraftType
        <5> QED
          BY <4>1, <5>1 DEF DraftType
      <4> QED
        BY <4>1
    <3>2. b \in BOOLEAN
      OBVIOUS
    <3>3. drawer' = [form |-> forms + 1, kind |-> kind, id |-> id, origin |-> o,
                     to |-> b, text |-> 0, items |-> {}, sending |-> FALSE,
                     banner |-> "none"]
      BY <1>1 DEF Open, Closed
    <3>4. forms' = forms + 1 /\ lastId' = lastId /\ id \in 0..lastId
      BY <1>1 DEF Open
    <3> HIDE DEF o, b
    <3> QED
      BY <3>1, <3>2, <3>3, <3>4 DEF DrawerType
  <2>2. /\ forms' \in 0..MaxForms /\ forms' >= forms
        /\ UNCHANGED <<api, picks, calls, made, drafts, gmail, listed, lastId, stored, mails,
                       events, calm, serial>>
    BY <1>1 DEF Open
  <2>3. /\ calls' \subseteq CallType' /\ mails' \subseteq MailType'
        /\ CallsMade' /\ Staged' /\ IdsApart'
    BY <2>2, TypesGrow, CallsKept
  <2> QED
    BY <2>1, <2>2, <2>3 DEF DrawerType
<1>2. CASE Compose \/ Reply \/ \E id \in listed : Edit(id)
  BY <1>1, <1>2 DEF Compose, Reply, Edit
<1>3. CASE Write
  <2>1. [drawer EXCEPT !.text = @ + 1] \in DrawerType
    BY <1>3 DEF Write, DrawerType
  <2> QED
    BY <1>3, <2>1, EditsTyped DEF Write
<1>4. CASE ChangeRecipient
  <2>1. [drawer EXCEPT !.to = ~@] \in DrawerType
    BY DEF DrawerType
  <2> QED
    BY <1>4, <2>1, EditsTyped DEF ChangeRecipient
<1>5. CASE Close
  BY <1>5, EditsTyped, ClosedTyped DEF Close
<1>6. ASSUME NEW f \in Files, PickFile(f)
      PROVE  TInv'
  <2>1. picks' = picks + 1 /\ picks' \in 0..MaxPicks
    BY <1>6 DEF PickFile
  <2>2. UNCHANGED <<forms, lastId, made, stored>>
    BY <1>6 DEF PickFile, Edits, Changes
  <2>3. Item(picks + 1, f, Uploading(f)) \in ItemType'
    BY <2>1 DEF Item, ItemType, Uploading
  <2> DEFINE form == [drawer EXCEPT !.items = @ \cup {Item(picks + 1, f, Uploading(f))}]
  <2>4. drawer \in DrawerType'
    BY <2>1, <2>2, TypesGrow
  <2>5. form \in DrawerType'
    BY <2>3, <2>4 DEF DrawerType
  <2>6. stored' \subseteq 1..picks'
    BY <2>1, <2>2
  <2>7. Changes(form)
    BY <1>6 DEF PickFile, Edits
  <2> HIDE DEF form
  <2> QED
    BY <2>1, <2>5, <2>6, <2>7, ChangesTyped
<1>7. ASSUME NEW i \in drawer.items, RetryUpload(i) \/ CreateUpload(i)
      PROVE  TInv'
  BY <1>7, StatusTyped, EditsTyped DEF RetryUpload, CreateUpload, Uploading
<1>8. ASSUME NEW i \in drawer.items, RemoveItem(i)
      PROVE  TInv'
  <2>1. [drawer EXCEPT !.items = @ \ {i}] \in DrawerType
    BY DEF DrawerType
  <2> QED
    BY <1>8, <2>1, EditsTyped DEF RemoveItem
<1>9. ASSUME NEW i \in drawer.items, PutFile(i) \/ UploadFails(i)
      PROVE  TInv'
  <2>1. PICK s \in {"done", "error"} : Changes(WithStatus(i, s))
    BY <1>9 DEF PutFile, UploadFails
  <2>2. UNCHANGED picks /\ i.n \in 1..picks
    BY <1>9 DEF PutFile, UploadFails, ItemType
  <2>3. stored' \subseteq 1..picks'
    BY <1>9, <2>2 DEF PutFile, UploadFails
  <2>4. WithStatus(i, s) \in DrawerType'
    BY <2>1, <2>2, StatusTyped DEF Changes, DrawerType, ItemType
  <2> QED
    BY <2>1, <2>2, <2>3, <2>4, ChangesTyped
<1> QED
  BY <1>2, <1>3, <1>4, <1>5, <1>6, <1>7, <1>8, <1>9

\* A call that a form makes is a call.
LEMMA MakesTyped ==
  ASSUME TInv, NEW op \in {"send", "save", "delete"}, NEW form \in 0..forms,
         op # "delete" => form # 0, op = "send" => api # "demo",
         Makes(op, drawer.id, form), UNCHANGED <<api, drafts, forms, picks, lastId>>
  PROVE  /\ made' \in 0..MaxCalls /\ made' >= made
         /\ calls' \subseteq CallType'
         /\ CallsMade' /\ Staged' /\ IdsApart'
<1> USE DEF TInv, TypeOK
<1>1. made' = made + 1 /\ made' \in 0..MaxCalls
  BY DEF Makes, CallsLeft
<1>2. CallType \subseteq CallType'
  BY <1>1, TypesGrow
<1>3. Attached \subseteq 1..picks
  BY DEF Attached, ItemType
<1> DEFINE files == IF op = "send" /\ drawer.kind # "draft" THEN Attached ELSE {}
           step == FirstStep(op, drawer.kind)
           stage == FirstStage(step)
           new == [n |-> made + 1, op |-> op, pc |-> step, at |-> stage, id |-> drawer.id,
                   draft |-> drawer.id, origin |-> drawer.origin, form |-> form,
                   text |-> drawer.text, files |-> files, shown |-> Attached,
                   answer |-> "none"]
<1>4. files \in SUBSET (1..picks) /\ Attached \in SUBSET (1..picks)
  BY <1>3
<1>5. /\ step \in {"post", "create", "update", "delete"}
      /\ op = "delete" => step = "delete"
  BY DEF FirstStep
<1>6. /\ stage \in {"demo", "gmail", "read"} /\ (stage = "demo" <=> api = "demo")
      /\ stage = "read" => step \in {"update", "delete"}
  BY <1>5 DEF FirstStage
<1>7. calls' = calls \cup {new}
  BY DEF Makes
<1> HIDE DEF files, step, stage
<1>8. new \in CallType'
  BY <1>1, <1>4, <1>5, <1>6 DEF CallType
<1>9. CallsMade'
  BY <1>5, <1>7 DEF CallsMade, Submitted, Writing
<1>10. Staged'
  BY <1>5, <1>6, <1>7 DEF Staged
<1>11. IdsApart'
  <2>1. ~Own(new) /\ ~Coming(new)
    BY <1>5, <1>6 DEF Own, Coming
  <2> HIDE DEF new
  <2> QED
    BY <1>7, <2>1 DEF IdsApart
<1> QED
  BY <1>1, <1>2, <1>7, <1>8, <1>9, <1>10, <1>11

\* Submitting a form, or deleting its draft.
LEMMA SubmitTyped ==
  ASSUME TInv, Send \/ SaveDraft \/ TryAgain \/ DeleteDraft
  PROVE  TInv'
<1> USE DEF TInv, TypeOK
<1>1. ASSUME NEW op \in {"send", "save"}, Submit(op)
      PROVE  TInv'
  <2>1. UNCHANGED <<api, forms, picks, drafts, gmail, listed, lastId, stored, mails, events,
                    calm, serial>>
    BY <1>1 DEF Submit
  <2>2. CASE Invalid(op)
    <3>1. UNCHANGED <<calls, made>> /\ drawer' \in DrawerType
      BY <2>2 DEF Invalid, DrawerType
    <3> QED
      BY <2>1, <3>1, CallsKept DEF DrawerType, ItemType, CallType, MailType
  <2>3. CASE drawer' = Closed /\ UNCHANGED <<calls, made>>
    BY <2>1, <2>3, ClosedTyped, CallsKept DEF DrawerType, ItemType, CallType, MailType
  <2>4. CASE /\ Makes(op, drawer.id, drawer.form) /\ ~(api = "demo" /\ op = "send")
             /\ drawer' = [drawer EXCEPT !.sending = TRUE, !.banner = "none"]
    <3>1. drawer.form \in 0..forms /\ drawer.form # 0
      BY <1>1 DEF Submit, IsOpen
    <3>2. /\ made' \in 0..MaxCalls /\ made' >= made
          /\ calls' \subseteq CallType'
          /\ CallsMade' /\ Staged' /\ IdsApart'
      BY <2>1, <2>4, <3>1, MakesTyped
    <3>3. drawer' \in DrawerType
      BY <2>4 DEF DrawerType
    <3> QED
      BY <2>1, <3>2, <3>3 DEF DrawerType, ItemType, MailType
  <2> QED
    BY <1>1, <2>2, <2>3, <2>4 DEF Submit
<1>2. CASE Send \/ SaveDraft \/ TryAgain
  BY <1>1, <1>2 DEF Send, SaveDraft, TryAgain
<1>3. CASE DeleteDraft
  <2>1. UNCHANGED <<api, forms, picks, drafts, gmail, listed, lastId, stored, mails, events,
                    calm, serial>>
    BY <1>3 DEF DeleteDraft
  <2>2. /\ made' \in 0..MaxCalls /\ made' >= made
        /\ calls' \subseteq CallType'
        /\ CallsMade' /\ Staged' /\ IdsApart'
    BY <1>3, <2>1, MakesTyped DEF DeleteDraft
  <2>3. drawer' \in DrawerType
    BY <1>3, ClosedTyped DEF DeleteDraft
  <2> QED
    BY <2>1, <2>2, <2>3 DEF DrawerType, ItemType, MailType
<1> QED
  BY <1>2, <1>3

\* What a request does.
LEMMA EffectTyped ==
  ASSUME TInv, NEW c \in calls, Effect(c), UNCHANGED <<forms, picks, made>>
  PROVE  /\ lastId' \in Nat /\ lastId' >= lastId
         /\ drafts' \subseteq DraftType' /\ gmail' \subseteq GmailType'
         /\ \A d, e \in drafts' : d.id = e.id => d = e
         /\ mails' \subseteq MailType'
<1>1. /\ c \in CallType /\ drafts \subseteq DraftType /\ gmail \subseteq GmailType
      /\ mails \subseteq MailType /\ lastId \in Nat
      /\ \A d, e \in drafts : d.id = e.id => d = e
  BY DEF TInv, TypeOK, DraftType, GmailType
<1>2. ASSUME lastId' \in Nat, lastId' >= lastId
      PROVE  /\ DraftType \subseteq DraftType' /\ GmailType \subseteq GmailType'
             /\ MailType \subseteq MailType'
  BY <1>2, TypesGrow DEF TInv, TypeOK
<1>3. ASSUME NEW o \in 0..lastId, NEW text \in 0..MaxText, c.pc \in Writing
      PROVE  Mail(c, o, text) \in MailType
  <2>1. Fetched(c) \in SUBSET (1..picks)
    BY <1>1 DEF Fetched, CallType
  <2>2. c.form \in 1..forms
    BY <1>1, <1>3 DEF CallType, TInv, TypeOK, CallsMade
  <2>3. /\ c.n \in 1..made /\ c.text \in 0..MaxText
        /\ c.shown \in SUBSET (1..picks)
    BY <1>1 DEF CallType
  <2> QED
    BY <1>3, <2>1, <2>2, <2>3 DEF Mail, MailType
<1>4. c.text \in 0..MaxText
  BY <1>1 DEF CallType
<1>5. ASSUME NEW o \in 1..lastId', lastId' \in Nat
      PROVE  Draft(o, c.text) \in GmailType'
  BY <1>4, <1>5 DEF Draft, GmailType
<1>6. CASE ReadRow(c)
  BY <1>1, <1>2, <1>6 DEF ReadRow
<1>7. CASE PostMessage(c)
  <2>1. UNCHANGED <<drafts, gmail, lastId>> /\ mails' = mails \cup {Mail(c, 0, c.text)}
    BY <1>7 DEF PostMessage
  <2>2. Mail(c, 0, c.text) \in MailType
    BY <1>1, <1>3, <1>4, <1>7 DEF PostMessage, Writing
  <2> QED
    BY <1>1, <1>2, <2>1, <2>2
<1>8. CASE CreateInGmail(c)
  <2>1. /\ lastId' = lastId + 1 /\ UNCHANGED <<drafts, mails>>
        /\ gmail' = gmail \cup {Draft(lastId', c.text)}
    BY <1>8 DEF CreateInGmail, NewId
  <2> QED
    BY <1>1, <1>2, <1>5, <2>1
<1>9. CASE UpdateInGmail(c)
  <2>1. /\ lastId' = lastId + 1 /\ UNCHANGED <<drafts, mails>>
        /\ gmail' \subseteq gmail \cup {Draft(c.origin, c.text)}
    BY <1>9 DEF UpdateInGmail, NewId, Rewritten
  <2>2. c.origin \in 1..lastId
    BY <1>1, <1>9 DEF UpdateInGmail, InGmail, GmailType
  <2> QED
    BY <1>1, <1>2, <1>5, <2>1, <2>2
<1>10. CASE SendInGmail(c)
  <2>1. PICK g \in gmail : /\ mails' = mails \cup {Mail(c, g.origin, g.text)}
                           /\ gmail' = gmail \ {g}
    BY <1>10 DEF SendInGmail
  <2>2. UNCHANGED <<drafts, lastId>> /\ c.pc \in Writing
    BY <1>10 DEF SendInGmail, Writing
  <2>3. g.origin \in 0..lastId /\ g.text \in 0..MaxText
    BY <1>1 DEF GmailType
  <2>4. Mail(c, g.origin, g.text) \in MailType
    BY <1>3, <2>2, <2>3
  <2> QED
    BY <1>1, <1>2, <2>1, <2>2, <2>4
<1>11. CASE DeleteInGmail(c)
  <2>1. gmail' \subseteq gmail /\ UNCHANGED <<drafts, lastId, mails>>
    BY <1>11 DEF DeleteInGmail
  <2> QED
    BY <1>1, <1>2, <2>1
<1>12. CASE StoreCreated(c)
  <2>1. /\ drafts' = drafts \cup {[id |-> c.id, origin |-> c.id]}
        /\ UNCHANGED <<gmail, lastId, mails>> /\ Coming(c)
    BY <1>12 DEF StoreCreated, Coming
  <2>2. c.id \in 1..lastId /\ \A d \in drafts : d.id # c.id
    BY <1>1, <2>1 DEF TInv, IdsApart, CallType
  <2> QED
    BY <1>1, <1>2, <2>1, <2>2 DEF DraftType
<1>13. CASE StoreUpdated(c)
  <2>1. UNCHANGED <<gmail, lastId, mails>> /\ Coming(c)
    BY <1>13 DEF StoreUpdated, Coming
  <2>2. c.id \in 1..lastId /\ \A d \in drafts : d.id # c.id
    BY <1>1, <2>1 DEF TInv, IdsApart, CallType
  <2>3. CASE HasRow(c.draft)
    <3>1. Row(c.draft) \in DraftType
      BY <1>1, <2>3, RowFound
    <3> DEFINE row == [Row(c.draft) EXCEPT !.id = c.id]
    <3>2. row \in DraftType /\ row.id = c.id
      BY <2>2, <3>1 DEF DraftType
    <3>3. drafts' = Without(c.draft) \cup {row}
      BY <1>13, <2>3 DEF StoreUpdated
    <3> HIDE DEF row
    <3> QED
      BY <1>1, <1>2, <2>1, <2>2, <3>2, <3>3 DEF Without
  <2>4. CASE ~HasRow(c.draft)
    BY <1>1, <1>2, <1>13, <2>1, <2>4 DEF StoreUpdated
  <2> QED
    BY <2>3, <2>4
<1>14. CASE StoreSent(c) \/ DropRow(c)
  <2>1. drafts' \subseteq drafts /\ UNCHANGED <<gmail, lastId, mails>>
    BY <1>14 DEF StoreSent, DropRow, Without
  <2> QED
    BY <1>1, <1>2, <2>1
<1>15. CASE DemoCreate(c) /\ UNCHANGED mails
  <2>1. /\ drafts' = drafts \cup {[id |-> lastId + 1, origin |-> lastId + 1]}
        /\ gmail' = gmail \cup {Draft(lastId + 1, c.text)} /\ lastId' = lastId + 1
    BY <1>15 DEF DemoCreate, NewId
  <2>2. Draft(lastId + 1, c.text) \in GmailType'
    BY <1>1, <1>5, <2>1
  <2> QED
    BY <1>1, <1>2, <1>15, <2>1, <2>2 DEF DraftType
<1>16. CASE DemoUpdate(c) /\ UNCHANGED mails
  <2>1. Row(c.id) \in DraftType
    BY <1>1, <1>16, RowFound DEF DemoUpdate
  <2>2. /\ UNCHANGED <<drafts, lastId, mails>>
        /\ gmail' \subseteq gmail \cup {Draft(Row(c.id).origin, c.text)}
    BY <1>16 DEF DemoUpdate, Rewritten
  <2>3. Row(c.id).origin \in 1..lastId
    BY <2>1 DEF DraftType
  <2> QED
    BY <1>1, <1>2, <1>5, <2>2, <2>3
<1>17. CASE DemoDelete(c) /\ UNCHANGED mails
  <2>1. drafts' \subseteq drafts /\ gmail' \subseteq gmail /\ UNCHANGED <<lastId, mails>>
    BY <1>17 DEF DemoDelete, Without
  <2> QED
    BY <1>1, <1>2, <2>1
<1> QED
  BY <1>6, <1>7, <1>8, <1>9, <1>10, <1>11, <1>12, <1>13, <1>14, <1>15, <1>16, <1>17
     DEF Effect, LastStep, InDemo

\* What is not changed as a request goes on.
Keeps(c, next) ==
  /\ next.n = c.n /\ next.op = c.op /\ next.form = c.form /\ next.draft = c.draft

\* Where a request is when it takes a step, and where it goes.
LEMMA Goes ==
  ASSUME TInv, NEW c \in calls, Effect(c)
  PROVE  /\ c.pc # "answered" /\ Keeps(c, After(c))
         /\ \/ /\ ReadRow(c) /\ After(c).pc = c.pc /\ After(c).at = "gmail"
               /\ After(c).id = c.id /\ After(c).origin = Row(c.id).origin
               /\ After(c).text = c.text /\ After(c).answer = c.answer
            \/ /\ CreateInGmail(c) \/ UpdateInGmail(c) \/ SendInGmail(c) \/ DeleteInGmail(c)
               /\ c.at = "gmail" /\ After(c).pc = c.pc /\ After(c).at = "row"
               /\ After(c).id = IF c.pc \in {"create", "update"} THEN lastId' ELSE c.id
               /\ After(c).origin = c.origin /\ After(c).text = c.text
               /\ After(c).answer = c.answer
            \/ /\ StoreUpdated(c) /\ c.op = "send"
               /\ After(c).pc = "senddraft" /\ After(c).at = "read"
               /\ After(c).id = c.id /\ After(c).origin = c.origin
               /\ After(c).text = c.text /\ After(c).answer = c.answer
            \/ /\ LastStep(c) /\ ~(c.pc = "update" /\ c.op = "send")
               /\ After(c) = Answered(c, "ok")
<1>1. /\ c \in CallType
      /\ c.at = "demo" => c.op # "send"
      /\ c.pc = "answered" => c.at = "none"
      /\ c.at = "read" => c.pc \in {"update", "senddraft", "delete"}
  BY DEF TInv, TypeOK, Staged
<1>2. Keeps(c, Answered(c, "ok"))
  BY <1>1 DEF Keeps, Answered, CallType
<1>3. CASE ReadRow(c)
  <2>1. After(c) = [c EXCEPT !.at = "gmail", !.origin = Row(c.id).origin]
    BY <1>3 DEF ReadRow, After
  <2> QED
    BY <1>1, <1>3, <2>1 DEF ReadRow, Keeps, CallType
<1>4. CASE CreateInGmail(c) \/ UpdateInGmail(c) \/ SendInGmail(c) \/ DeleteInGmail(c)
  <2>1. c.at = "gmail" /\ c.pc \in {"create", "update", "senddraft", "delete"}
    BY <1>4 DEF CreateInGmail, UpdateInGmail, SendInGmail, DeleteInGmail
  <2>2. After(c) = [c EXCEPT !.at = "row",
                             !.id = IF c.pc \in {"create", "update"} THEN lastId' ELSE @]
    BY <2>1 DEF After
  <2> QED
    BY <1>1, <1>4, <2>1, <2>2 DEF Keeps, CallType
<1>5. CASE StoreUpdated(c) /\ c.op = "send"
  <2>1. c.at = "row" /\ c.pc = "update"
    BY <1>5 DEF StoreUpdated
  <2>2. After(c) = [c EXCEPT !.pc = "senddraft", !.at = "read"]
    BY <1>5, <2>1 DEF After
  <2> QED
    BY <1>1, <1>5, <2>1, <2>2 DEF Keeps, CallType
<1>6. CASE LastStep(c) /\ ~(StoreUpdated(c) /\ c.op = "send")
  <2>1. /\ c.pc # "answered" /\ c.at # "read" /\ (c.at = "gmail" => c.pc = "post")
        /\ ~(c.pc = "update" /\ c.op = "send")
    BY <1>1, <1>6 DEF LastStep, PostMessage, StoreCreated, StoreUpdated, StoreSent, DropRow,
         InDemo, DemoCreate, DemoUpdate, DemoDelete
  <2>2. After(c) = Answered(c, "ok")
    BY <2>1 DEF After
  <2> QED
    BY <1>2, <1>6, <2>1, <2>2
<1> QED
  BY <1>3, <1>4, <1>5, <1>6 DEF Effect, LastStep

\* A request that goes on is still a call.
LEMMA AfterTyped ==
  ASSUME TInv, NEW c \in calls, Effect(c), UNCHANGED <<forms, picks, made>>
  PROVE  After(c) \in CallType'
<1>1. lastId' \in Nat /\ lastId' >= lastId
  BY EffectTyped
<1>2. c \in CallType /\ CallType \subseteq CallType'
  BY <1>1, TypesGrow DEF TInv, TypeOK
<1>3. /\ \A o \in 0..lastId : [c EXCEPT !.at = "gmail", !.origin = o] \in CallType
      /\ \A i \in 0..lastId' : [c EXCEPT !.at = "row", !.id = i] \in CallType'
  <2>1. \A o \in 0..lastId : [c EXCEPT !.at = "gmail", !.origin = o] \in CallType
    <3> SUFFICES c \in CallType => \A o \in 0..lastId :
                   [c EXCEPT !.at = "gmail", !.origin = o] \in CallType
      BY <1>2
    <3> QED
      BY DEF CallType
  <2>2. c \in CallType'
    BY <1>2
  <2>3. \A i \in 0..lastId' : [c EXCEPT !.at = "row", !.id = i] \in CallType'
    BY <2>2 DEF CallType
  <2> QED
    BY <2>1, <2>3
<1>4. c.id \in 0..lastId' /\ lastId' \in 0..lastId'
  BY <1>1, <1>2 DEF CallType
<1>5. CASE c.at = "read"
  <2>1. After(c) = [c EXCEPT !.at = "gmail", !.origin = Row(c.id).origin]
    BY <1>5 DEF After
  <2>2. HasRow(c.id)
    BY <1>5 DEF Effect, ReadRow, CreateInGmail, UpdateInGmail, SendInGmail, DeleteInGmail,
         LastStep, PostMessage, StoreCreated, StoreUpdated, StoreSent, DropRow, InDemo,
         DemoCreate, DemoUpdate, DemoDelete, TInv, Staged
  <2>3. Row(c.id).origin \in 0..lastId
    BY <2>2, RowFound DEF TInv, TypeOK
  <2> QED
    BY <1>2, <1>3, <1>4, <2>1, <2>3
<1>6. CASE c.at = "gmail" /\ c.pc # "post"
  <2>1. PICK i \in {lastId', c.id} : After(c) = [c EXCEPT !.at = "row", !.id = i]
    <3>1. CASE c.pc \in {"create", "update"}
      BY <1>6, <3>1 DEF After
    <3>2. CASE c.pc \notin {"create", "update"}
      <4>1. After(c) = [c EXCEPT !.at = "row", !.id = c.id]
        BY <1>2, <1>6, <3>2 DEF After, CallType
      <4> QED
        BY <4>1
    <3> QED
      BY <3>1, <3>2
  <2> QED
    BY <1>3, <1>4, <2>1
<1>7. CASE ~(c.at = "read") /\ ~(c.at = "gmail" /\ c.pc # "post")
  <2>1. \/ After(c) = [c EXCEPT !.pc = "senddraft", !.at = "read"]
        \/ After(c) = Answered(c, "ok")
    BY <1>7 DEF After
  <2>2. Answered(c, "ok") \in CallType
    <3>1. {} \in SUBSET (1..picks) /\ 0 \in 0..MaxText
      OBVIOUS
    <3> QED
      BY <1>2, <3>1 DEF Answered, CallType
  <2>3. [c EXCEPT !.pc = "senddraft", !.at = "read"] \in CallType
    BY <1>2 DEF CallType
  <2> QED
    BY <1>2, <2>1, <2>2, <2>3
<1> QED
  BY <1>5, <1>6, <1>7

\* What is left of a call that has been answered.
LEMMA AnsweredTyped ==
  ASSUME TInv, NEW c \in calls, NEW a \in {"ok", "missing", "error"}
  PROVE  /\ Answered(c, a) \in CallType /\ Keeps(c, Answered(c, a))
         /\ Answered(c, a).pc = "answered" /\ Answered(c, a).at = "none"
         /\ Answered(c, a).answer = a
<1>1. {} \in SUBSET (1..picks) /\ 0 \in 0..MaxText /\ c \in CallType
  BY DEF TInv, TypeOK
<1> QED
  BY <1>1 DEF Answered, Keeps, CallType

\* The call that waits for its answer, and the one that discards a draft, have no id of
\* their own.
LEMMA NotOwn ==
  ASSUME TInv, NEW c \in calls, NEW next, next.pc \in {"answered", "delete"},
         \/ calls' = calls \ {c}
         \/ calls' = (calls \ {c}) \cup {next},
         drafts' \subseteq drafts
  PROVE  IdsApart'
<1>1. ~Own(next) /\ ~Coming(next)
  BY DEF Own, Coming
<1> QED
  BY <1>1 DEF TInv, IdsApart

\* The ids that requests bring stay apart: Gmail gives a new one each time, and a row
\* takes the one that its own request has brought.
LEMMA IdsStayApart ==
  ASSUME TInv, NEW c \in calls, Effect(c), UNCHANGED api, NEW next,
         next = After(c) \/ (LastStep(c) /\ next = Answered(c, "error")),
         calls' = (calls \ {c}) \cup {next}
  PROVE  IdsApart'
<1>1. /\ lastId \in Nat /\ \A e \in calls : e.id \in 0..lastId
      /\ \A d \in drafts : d.id \in 1..lastId
  BY DEF TInv, TypeOK, CallType
<1>2. /\ \A e \in calls : Coming(e) => e.id # 0 /\ \A d \in drafts : d.id # e.id
      /\ \A e, f \in calls : Own(e) /\ Own(f) /\ e.id = f.id => e = f
  BY DEF TInv, IdsApart
<1>3. Answered(c, "error").pc = "answered"
  BY AnsweredTyped
<1>4. CASE ReadRow(c) \/ SendInGmail(c) \/ DeleteInGmail(c)
  <2>1. /\ UNCHANGED drafts /\ c.at \in {"read", "gmail"}
        /\ c.at = "gmail" => c.pc \in {"senddraft", "delete"}
    BY <1>4 DEF ReadRow, SendInGmail, DeleteInGmail
  <2>2. ~LastStep(c)
    <3>1. c.pc # "post"
      BY <2>1 DEF TInv, Staged
    <3> QED
      BY <2>1, <3>1 DEF LastStep, PostMessage, StoreCreated, StoreUpdated, StoreSent, DropRow,
           InDemo, DemoCreate, DemoUpdate, DemoDelete
  <2>3. /\ next.pc = c.pc /\ next.id = c.id
        /\ next.at = "gmail" \/ (next.at = "row" /\ c.pc \in {"senddraft", "delete"})
    BY <1>4, <2>1, <2>2, Goes DEF ReadRow, SendInGmail, DeleteInGmail, LastStep, StoreUpdated
  <2>4. ~Coming(next) /\ (Own(next) => Own(c))
    BY <2>3 DEF Own, Coming
  <2> QED
    BY <1>2, <2>1, <2>3, <2>4 DEF IdsApart
<1>5. CASE CreateInGmail(c) \/ UpdateInGmail(c)
  <2>1. /\ UNCHANGED drafts /\ lastId' = lastId + 1
        /\ c.pc \in {"create", "update"} /\ c.at = "gmail"
    BY <1>5 DEF CreateInGmail, UpdateInGmail, NewId
  <2>2. ~LastStep(c)
    BY <2>1 DEF LastStep, PostMessage, StoreCreated, StoreUpdated, StoreSent, DropRow,
         InDemo, DemoCreate, DemoUpdate, DemoDelete
  <2>3. next.id = lastId'
    BY <2>1, <2>2, Goes DEF ReadRow, StoreUpdated
  <2> QED
    BY <1>1, <1>2, <2>1, <2>3 DEF IdsApart
<1>6. CASE StoreCreated(c) \/ StoreUpdated(c)
  <2>1. Coming(c) /\ Own(c) /\ c.at = "row"
    BY <1>6 DEF StoreCreated, StoreUpdated, Coming, Own
  <2>2. \A d \in drafts' : d \in drafts \/ d.id = c.id
    <3>1. CASE StoreUpdated(c) /\ HasRow(c.draft)
      <4>1. Row(c.draft) \in [id : 1..lastId, origin : 1..lastId]
        BY <3>1, RowFound DEF TInv, TypeOK
      <4>2. [Row(c.draft) EXCEPT !.id = c.id].id = c.id
        BY <4>1
      <4> QED
        BY <3>1, <4>2 DEF StoreUpdated, Without
    <3>2. CASE StoreCreated(c) \/ ~HasRow(c.draft)
      BY <1>6, <3>2 DEF StoreCreated, StoreUpdated
    <3> QED
      BY <1>6, <3>1, <3>2
  <2>3. ~Coming(next) /\ (Own(next) => next.id = c.id)
    <3>1. CASE next.pc = "answered"
      BY <3>1 DEF Own, Coming
    <3>2. CASE next.pc # "answered"
      <4>1. next = After(c)
        BY <1>3, <3>2
      <4>2. After(c).pc = "senddraft" /\ After(c).id = c.id
        <5>1. ~ReadRow(c) /\ c.at # "gmail"
          BY <2>1 DEF ReadRow
        <5>2. Answered(c, "ok").pc = "answered"
          BY AnsweredTyped
        <5> QED
          BY <3>2, <4>1, <5>1, <5>2, Goes
      <4> QED
        BY <4>1, <4>2 DEF Coming
    <3> QED
      BY <3>1, <3>2
  <2> QED
    BY <1>2, <2>1, <2>2, <2>3 DEF IdsApart, Own
<1>7. CASE PostMessage(c) \/ StoreSent(c) \/ DropRow(c) \/ InDemo(c)
  <2>1. next.pc = "answered"
    <3>1. ~(c.pc = "update" /\ c.op = "send") /\ LastStep(c) /\ c.at # "read"
          /\ (c.at = "gmail" => c.pc = "post")
      BY <1>7 DEF PostMessage, StoreSent, DropRow, InDemo, DemoCreate, DemoUpdate, DemoDelete,
           LastStep, TInv, Staged
    <3>2. Answered(c, "ok").pc = "answered"
      BY AnsweredTyped
    <3> QED
      BY <1>3, <3>1, <3>2 DEF After
  <2>2. ~Own(next) /\ ~Coming(next)
    BY <2>1 DEF Own, Coming
  <2>3. CASE ~InDemo(c)
    <3>1. drafts' \subseteq drafts
      BY <1>7, <2>3 DEF PostMessage, StoreSent, DropRow, Without
    <3> QED
      BY <1>2, <2>2, <3>1 DEF IdsApart
  <2>4. CASE InDemo(c)
    <3>1. \A e \in calls : ~Coming(e)
      BY <2>4 DEF InDemo, DemoCreate, DemoUpdate, DemoDelete, Coming, TInv, Staged
    <3> QED
      BY <1>2, <2>2, <3>1 DEF IdsApart
  <2> QED
    BY <2>3, <2>4
<1> QED
  BY <1>4, <1>5, <1>6, <1>7 DEF Effect, LastStep

\* A request that takes a step, is refused or fails.
LEMMA RequestTyped ==
  ASSUME TInv, NEW c \in calls, NEW next,
         \/ /\ Effect(c)
            /\ next = After(c) \/ (LastStep(c) /\ next = Answered(c, "error"))
         \/ /\ UNCHANGED <<drafts, gmail, lastId, mails>>
            /\ \E a \in {"missing", "error"} : next = Answered(c, a),
         Becoming(c, next), events' \in 0..MaxEvents, calm' \in BOOLEAN, serial' \in BOOLEAN,
         UNCHANGED <<api, drawer, forms, picks, made, listed, stored>>
  PROVE  TInv'
<1>1. /\ lastId' \in Nat /\ lastId' >= lastId
      /\ drafts' \subseteq DraftType' /\ gmail' \subseteq GmailType'
      /\ \A d, e \in drafts' : d.id = e.id => d = e
      /\ mails' \subseteq MailType'
  <2>1. CASE Effect(c)
    BY <2>1, EffectTyped
  <2>2. CASE UNCHANGED <<drafts, gmail, lastId, mails>>
    BY <2>2 DEF TInv, TypeOK, DraftType, GmailType, MailType
  <2> QED
    BY <2>1, <2>2
<1>2. CallType \subseteq CallType' /\ DrawerType \subseteq DrawerType' /\ calls \subseteq CallType
  BY <1>1, TypesGrow DEF TInv, TypeOK
<1>3. calls' = (calls \ {c}) \cup {next}
  BY DEF Becoming
<1>4. /\ next \in CallType' /\ Keeps(c, next)
      /\ next.pc \in {c.pc, "senddraft", "answered"}
      /\ next.pc = "answered" => next.at = "none"
      /\ next.pc # "answered" => next.at # "demo" /\ next.answer = "none"
      /\ next.at = "read" => next.pc = "senddraft"
      /\ next.pc # "answered" => c.at \in {"read", "gmail", "row"}
      /\ next.pc = "senddraft" => c.op \in Submitted
  <2>1. CASE Effect(c) /\ next = After(c)
    <3>1. After(c) \in CallType'
      BY <2>1, AfterTyped
    <3>2. Answered(c, "ok").pc = "answered" /\ Answered(c, "ok").at = "none"
      BY AnsweredTyped
    <3>3. c.pc \in Writing => c.op \in Submitted
      BY DEF TInv, CallsMade
    <3>4. c.pc # "answered" /\ c.answer = "none" /\ Keeps(c, After(c))
      BY <2>1, Goes DEF TInv, Staged
    <3>5. CASE /\ ReadRow(c) /\ After(c).pc = c.pc /\ After(c).at = "gmail"
               /\ After(c).answer = c.answer
      BY <2>1, <3>1, <3>3, <3>4, <3>5 DEF ReadRow, Writing
    <3>6. CASE /\ c.at = "gmail" /\ After(c).pc = c.pc /\ After(c).at = "row"
               /\ After(c).answer = c.answer
      BY <2>1, <3>1, <3>3, <3>4, <3>6 DEF Writing
    <3>7. CASE /\ StoreUpdated(c) /\ c.op = "send" /\ After(c).answer = c.answer
               /\ After(c).pc = "senddraft" /\ After(c).at = "read"
      BY <2>1, <3>1, <3>4, <3>7 DEF StoreUpdated, Submitted
    <3>8. CASE After(c) = Answered(c, "ok")
      BY <2>1, <3>1, <3>2, <3>4, <3>8
    <3> QED
      BY <2>1, <3>5, <3>6, <3>7, <3>8, Goes
  <2>2. CASE \E a \in {"missing", "error"} : next = Answered(c, a)
    BY <1>2, <2>2, AnsweredTyped
  <2> QED
    BY <2>1, <2>2
<1>5. CallsMade'
  BY <1>3, <1>4 DEF CallsMade, TInv, Keeps, Writing, Submitted
<1>6. Staged'
  BY <1>3, <1>4 DEF Staged, TInv, Keeps
<1>7. IdsApart'
  <2>1. CASE Effect(c) /\ (next = After(c) \/ (LastStep(c) /\ next = Answered(c, "error")))
    BY <1>3, <2>1, IdsStayApart
  <2>2. CASE UNCHANGED drafts /\ \E a \in {"missing", "error"} : next = Answered(c, a)
    BY <1>3, <2>2, NotOwn, AnsweredTyped
  <2> QED
    BY <2>1, <2>2
<1> QED
  BY <1>1, <1>2, <1>3, <1>4, <1>5, <1>6, <1>7 DEF TInv, TypeOK, DrawerType, DraftType, GmailType

\* Requests.
LEMMA ServerTyped ==
  ASSUME TInv, NEW c \in calls, Serve(c) \/ NotFound(c) \/ Fails(c)
  PROVE  TInv'
<1>1. calm \in BOOLEAN /\ serial \in BOOLEAN /\ events \in 0..MaxEvents
  BY DEF TInv, TypeOK
<1>2. CASE Serve(c)
  <2>1. serial' = serial \/ serial' = FALSE
    BY <1>2 DEF Serve
  <2>2. serial' \in BOOLEAN
    BY <1>1, <2>1
  <2> QED
    BY <1>1, <1>2, <2>2, RequestTyped DEF Serve
<1>3. CASE NotFound(c)
  BY <1>1, <1>3, RequestTyped DEF NotFound
<1>4. CASE Fails(c)
  <2>1. /\ Becoming(c, Answered(c, "error"))
        /\ UNCHANGED <<api, drawer, forms, picks, made, listed, stored>>
        /\ LastStep(c) \/ UNCHANGED <<drafts, gmail, lastId, mails>>
    BY <1>4 DEF Fails
  <2>2. events' \in 0..MaxEvents
    BY <1>4 DEF Fails, TInv, TypeOK
  <2>3. /\ calm' = calm \/ calm' = FALSE
        /\ serial' = serial \/ serial' = FALSE
    BY <1>4 DEF Fails
  <2>4. calm' \in BOOLEAN /\ serial' \in BOOLEAN
    BY <1>1, <2>3
  <2> QED
    BY <2>1, <2>2, <2>4, RequestTyped DEF Effect
<1> QED
  BY <1>2, <1>3, <1>4

\* Answers.
LEMMA AnswerTyped ==
  ASSUME TInv, NEW c \in calls, Answer(c)
  PROVE  TInv'
<1> USE DEF TInv, TypeOK
<1>1. /\ UNCHANGED <<api, forms, picks, drafts, gmail, lastId, stored, mails, events, serial>>
      /\ calm' = calm \/ calm' = FALSE
      /\ UNCHANGED made
  BY DEF Answer, Succeeds, DiscardsOrphan, Refused, Deleted
<1>2. calm' \in BOOLEAN
  BY <1>1
<1>3. drawer' \in DrawerType
  <2>1. CASE Succeeds(c) \/ DiscardsOrphan(c)
    BY <2>1, ClosedTyped DEF Succeeds, DiscardsOrphan
  <2>2. CASE Refused(c)
    <3>1. c.op \in {"send", "save"}
      BY <2>2 DEF Refused
    <3>2. [drawer EXCEPT !.sending = FALSE, !.banner = c.op] \in DrawerType
      BY <3>1 DEF DrawerType
    <3> QED
      BY <2>2, <3>2 DEF Refused
  <2>3. CASE Deleted(c)
    BY <2>3 DEF Deleted
  <2> QED
    BY <2>1, <2>2, <2>3 DEF Answer
<1>4. listed' \subseteq listed
  BY DEF Answer, Succeeds, DiscardsOrphan, Refused, Deleted
<1>5. calls' \subseteq CallType /\ CallsMade' /\ Staged' /\ IdsApart'
  <2>1. CASE calls' = calls \ {c}
    BY <1>1, <2>1 DEF CallsMade, Staged, IdsApart, Own, Coming
  <2>2. CASE DiscardsOrphan(c)
    <3> DEFINE next == [c EXCEPT !.op = "discard", !.pc = "delete", !.at = FirstStage("delete"),
                                 !.id = c.draft, !.answer = "none"]
    <3>1. calls' = (calls \ {c}) \cup {next}
      BY <2>2 DEF DiscardsOrphan
    <3>2. FirstStage("delete") \in {"demo", "read"} /\ (FirstStage("delete") = "demo" <=> api = "demo")
      BY DEF FirstStage
    <3>3. /\ next \in CallType /\ next.op = "discard" /\ next.pc = "delete"
          /\ next.at = FirstStage("delete") /\ next.answer = "none"
      BY <3>2 DEF CallType
    <3> HIDE DEF next
    <3>4. CallsMade' /\ Staged'
      BY <1>1, <3>1, <3>2, <3>3 DEF CallsMade, Staged, Submitted, Writing
    <3>5. IdsApart'
      <4> HIDE DEF TInv
      <4> QED
        BY <1>1, <3>1, <3>3, NotOwn
    <3> QED
      BY <3>1, <3>3, <3>4, <3>5
  <2> QED
    BY <2>1, <2>2 DEF Answer, Succeeds, Refused, Deleted
<1> QED
  BY <1>1, <1>2, <1>3, <1>4, <1>5 DEF DrawerType, ItemType, CallType, MailType

\* Every step keeps the types.
LEMMA StepTyped ==
  ASSUME TInv, [Next]_vars
  PROVE  TInv'
<1>1. ASSUME NEW g \in gmail, DiscardedElsewhere(g)
      PROVE  TInv'
  <2>1. /\ UNCHANGED <<api, drawer, forms, picks, calls, made, drafts, listed, lastId, stored,
                       mails, calm, serial>>
        /\ gmail' \subseteq gmail /\ events' \in 0..MaxEvents
    BY <1>1 DEF DiscardedElsewhere, TInv, TypeOK
  <2> QED
    BY <2>1, CallsKept DEF TInv, TypeOK, DrawerType, ItemType, CallType, MailType
<1>2. CASE Reload \/ UNCHANGED vars
  <2>1. /\ UNCHANGED <<api, drawer, forms, picks, calls, made, drafts, gmail, lastId, stored,
                       mails, events, calm, serial>>
        /\ listed' \subseteq 1..lastId
    BY <1>2 DEF Reload, vars, TInv, TypeOK
  <2> QED
    BY <2>1, CallsKept DEF TInv, TypeOK, DrawerType, ItemType, CallType, MailType
<1> QED
  BY <1>1, <1>2, DrawerTyped, SubmitTyped, ServerTyped, AnswerTyped DEF Next, User

\* The types: a message id belongs to one row, whatever fails and however the steps of
\* requests about one draft interleave.
THEOREM TypeCorrect == Spec => []TypeOK
<1>1. TInv => TypeOK
  BY DEF TInv
<1> QED
  BY <1>1, InitTyped, StepTyped, PTL DEF Spec
---------------------------------------------------------------------------
(* A draft is sent once.                                                   *)

\* Gmail has a draft once, and none that was sent. Nothing is sent in the demo.
OInv ==
  /\ TInv
  /\ api = "demo" => mails = {}
  /\ \A g, h \in gmail : g.origin = h.origin => g = h
  /\ \A m \in mails, g \in gmail : m.origin # g.origin
  /\ DraftSentOnce

\* A mail is of the draft that was asked for.
LEMMA MailOrigin ==
  ASSUME NEW c, NEW o, NEW text
  PROVE  Mail(c, o, text).origin = o /\ Mail(c, o, text).form = c.form
BY DEF Mail

\* What a request does to Gmail's drafts and mails keeps them apart.
LEMMA EffectOwned ==
  ASSUME OInv, NEW c \in calls, Effect(c), UNCHANGED api, TInv'
  PROVE  OInv'
<1> USE DEF OInv, DraftSentOnce
<1>0. /\ lastId \in Nat /\ \A g \in gmail : g.origin \in 1..lastId
      /\ \A m \in mails : m.origin \in 0..lastId
  BY DEF TInv, TypeOK, MailType
<1>1. ASSUME NEW g, g.origin = lastId + 1, gmail' = gmail \cup {g}, UNCHANGED mails
      PROVE  OInv'
  BY <1>0, <1>1
<1>2. ASSUME NEW o, NEW g, g.origin = o, UNCHANGED mails,
             o \in {h.origin : h \in gmail},
             gmail' = {h \in gmail : h.origin # o} \cup {g}
      PROVE  OInv'
  BY <1>2
<1>3. ASSUME gmail' \subseteq gmail, UNCHANGED mails
      PROVE  OInv'
  BY <1>3
<1>4. \A o, text : Draft(o, text).origin = o
  BY DEF Draft
<1>5. CASE PostMessage(c)
  <2>1. mails' = mails \cup {Mail(c, 0, c.text)} /\ UNCHANGED gmail
    BY <1>5 DEF PostMessage
  <2>2. api # "demo"
    BY <1>5 DEF PostMessage, TInv, Staged
  <2>3. Mail(c, 0, c.text).origin = 0
    BY MailOrigin
  <2> QED
    BY <1>0, <2>1, <2>2, <2>3
<1>6. CASE CreateInGmail(c) \/ (DemoCreate(c) /\ UNCHANGED mails)
  BY <1>1, <1>4, <1>6 DEF CreateInGmail, DemoCreate, NewId
<1>7. CASE UpdateInGmail(c)
  BY <1>2, <1>4, <1>7 DEF UpdateInGmail, InGmail, Rewritten
<1>8. CASE SendInGmail(c)
  <2>1. PICK g \in gmail : /\ mails' = mails \cup {Mail(c, g.origin, g.text)}
                           /\ gmail' = gmail \ {g}
    BY <1>8 DEF SendInGmail
  <2>2. Mail(c, g.origin, g.text).origin = g.origin
    BY MailOrigin
  <2>3. api # "demo"
    BY <1>8 DEF SendInGmail, TInv, Staged
  <2> QED
    BY <2>1, <2>2, <2>3
<1>9. CASE DemoUpdate(c) /\ UNCHANGED mails
  <2> DEFINE o == Row(c.id).origin
  <2>1. gmail' = {h \in gmail : h.origin # o} \cup {Draft(o, c.text)}
    BY <1>9 DEF DemoUpdate, Rewritten
  <2>2. mails = {}
    BY <1>9 DEF DemoUpdate, TInv, Staged
  <2> QED
    BY <1>4, <1>9, <2>1, <2>2
<1>10. CASE \/ ReadRow(c) \/ DeleteInGmail(c) \/ StoreCreated(c) \/ StoreUpdated(c)
            \/ StoreSent(c) \/ DropRow(c) \/ (DemoDelete(c) /\ UNCHANGED mails)
  BY <1>3, <1>10 DEF ReadRow, DeleteInGmail, StoreCreated, StoreUpdated, StoreSent, DropRow,
     DemoDelete
<1> QED
  BY <1>5, <1>6, <1>7, <1>8, <1>9, <1>10 DEF Effect, LastStep, InDemo

\* Everything else leaves Gmail's drafts and mails alone, or takes a draft away.
LEMMA StepOwned ==
  ASSUME OInv, [Next]_vars
  PROVE  OInv'
<1>1. TInv'
  BY StepTyped DEF OInv
<1>2. CASE gmail' \subseteq gmail /\ UNCHANGED <<api, mails>>
  BY <1>1, <1>2 DEF OInv, DraftSentOnce
<1>3. ASSUME NEW c \in calls, Serve(c) \/ NotFound(c) \/ Fails(c) \/ Answer(c)
      PROVE  OInv'
  <2>1. UNCHANGED api /\ (Effect(c) \/ UNCHANGED <<gmail, mails>>)
    BY <1>3 DEF Serve, NotFound, Fails, Answer, Effect
  <2> QED
    BY <1>1, <1>2, <2>1, EffectOwned
<1>4. ASSUME NEW g \in gmail, DiscardedElsewhere(g)
      PROVE  OInv'
  BY <1>2, <1>4 DEF DiscardedElsewhere
<1>5. CASE User
  <2>1. UNCHANGED <<api, gmail, mails>>
    BY <1>5 DEF User, Compose, Reply, Edit, Open, Write, ChangeRecipient, Close, PickFile,
         RetryUpload, RemoveItem, Edits, Changes, Send, SaveDraft, TryAgain, Submit,
         DeleteDraft
  <2> QED
    BY <1>2, <2>1
<1>6. CASE \/ \E i \in drawer.items : CreateUpload(i) \/ PutFile(i) \/ UploadFails(i)
           \/ Reload \/ UNCHANGED vars
  <2>1. UNCHANGED <<api, gmail, mails>>
    BY <1>6 DEF CreateUpload, PutFile, UploadFails, Edits, Changes, Reload, vars
  <2> QED
    BY <1>2, <2>1
<1> QED
  BY <1>3, <1>4, <1>5, <1>6 DEF Next

\* A draft is sent once, whatever fails, however many forms hold one of its ids and
\* however the steps of their requests interleave.
THEOREM DraftSafe == Spec => []DraftSentOnce
<1>1. Init => OInv
  <2> SUFFICES ASSUME Init PROVE OInv
    OBVIOUS
  <2>1. gmail = {Draft(1, 0)} /\ mails = {}
    BY DEF Init
  <2> QED
    BY <2>1, InitTyped DEF OInv, DraftSentOnce
<1>2. OInv => DraftSentOnce
  BY DEF OInv
<1> QED
  BY <1>1, <1>2, StepOwned, PTL DEF Spec
---------------------------------------------------------------------------
(* A form is sent once.                                                    *)

\* Gmail has sent the draft, and the row does not show it yet.
Sent(c) == c.pc = "senddraft" /\ c.at = "row"

\* A form whose buttons are enabled has not been sent and waits for nothing; the call
\* a form waits for is the only one, and until it has sent something there is no mail
\* of the form.
FormsKnow ==
  /\ \A c, d \in calls :
       c.op \in Submitted /\ d.op \in Submitted /\ c.form = d.form => c = d
  /\ drawer.form # 0 /\ ~drawer.sending =>
       /\ \A c \in calls : c.op \in Submitted => c.form # drawer.form
       /\ \A m \in mails : m.form # drawer.form
  /\ drawer.sending => drawer.banner \notin Submitted
  /\ \A c \in calls : c.op \in Submitted /\ c.answer # "ok" /\ ~Sent(c) =>
       \A m \in mails : m.form # c.form
  /\ \A m, k \in mails : m.form = k.form => m = k

FInv ==
  /\ TInv
  /\ \A c \in calls : Sent(c) => \E m \in mails : m.n = c.n
  /\ calm => FormsKnow

\* Opening a form, and what the drawer does to itself.
LEMMA DrawerKnows ==
  ASSUME FInv, TInv',
         \/ Compose \/ Reply \/ \E id \in listed : Edit(id)
         \/ Write \/ ChangeRecipient \/ Close
         \/ \E f \in Files : PickFile(f)
         \/ \E i \in drawer.items : \/ RetryUpload(i) \/ RemoveItem(i)
                                   \/ CreateUpload(i) \/ PutFile(i) \/ UploadFails(i)
  PROVE  FInv'
<1> USE DEF FInv
<1>1. ASSUME NEW kind, NEW id, Open(kind, id)
      PROVE  FInv'
  <2>1. /\ drawer'.form = forms + 1 /\ ~drawer'.sending
        /\ UNCHANGED <<calls, mails, calm>>
    BY <1>1 DEF Open, Closed
  <2>2. \A c \in calls : c.form # forms + 1
    BY DEF TInv, TypeOK, CallType
  <2>3. \A m \in mails : m.form # forms + 1
    BY DEF TInv, TypeOK, MailType
  <2> QED
    BY <2>1, <2>2, <2>3 DEF FormsKnow
<1>2. ASSUME NEW form, Changes(form),
             \/ form = Closed
             \/ /\ form.form = drawer.form /\ form.sending = drawer.sending
                /\ form.banner = drawer.banner
      PROVE  FInv'
  BY <1>2 DEF Changes, Closed, FormsKnow
<1>3. CASE Compose \/ Reply \/ \E id \in listed : Edit(id)
  BY <1>1, <1>3 DEF Compose, Reply, Edit
<1>4. drawer \in DrawerType
  BY DEF TInv
<1>5. CASE Write
  BY <1>2, <1>4, <1>5 DEF Write, Edits, DrawerType
<1>6. CASE ChangeRecipient
  BY <1>2, <1>4, <1>6 DEF ChangeRecipient, Edits, DrawerType
<1>7. CASE Close
  BY <1>2, <1>7 DEF Close, Edits
<1>8. ASSUME NEW f \in Files, PickFile(f)
      PROVE  FInv'
  BY <1>2, <1>4, <1>8 DEF PickFile, Edits, DrawerType
<1>9. ASSUME NEW i \in drawer.items, NEW s, Changes(WithStatus(i, s))
      PROVE  FInv'
  BY <1>2, <1>4, <1>9 DEF WithStatus, DrawerType
<1>10. ASSUME NEW i \in drawer.items, RemoveItem(i)
       PROVE  FInv'
  BY <1>2, <1>4, <1>10 DEF RemoveItem, Edits, DrawerType
<1>11. ASSUME NEW i \in drawer.items,
              RetryUpload(i) \/ CreateUpload(i) \/ PutFile(i) \/ UploadFails(i)
       PROVE  FInv'
  BY <1>9, <1>11 DEF RetryUpload, CreateUpload, PutFile, UploadFails, Edits
<1> QED
  BY <1>3, <1>5, <1>6, <1>7, <1>8, <1>10, <1>11

\* A form submits only while its buttons are enabled.
LEMMA SubmitKnows ==
  ASSUME FInv, TInv', Send \/ SaveDraft \/ TryAgain \/ DeleteDraft
  PROVE  FInv'
<1> USE DEF FInv
<1>1. drawer \in DrawerType
  BY DEF TInv
<1>2. ASSUME NEW op \in {"send", "save", "delete"}, NEW form, Makes(op, drawer.id, form)
      PROVE  \E new : /\ calls' = calls \cup {new} /\ new.op = op /\ new.form = form
                      /\ new.answer = "none" /\ ~Sent(new)
  <2> DEFINE files == IF op = "send" /\ drawer.kind # "draft" THEN Attached ELSE {}
             call == [n |-> made + 1, op |-> op, pc |-> FirstStep(op, drawer.kind),
                      at |-> FirstStage(FirstStep(op, drawer.kind)), id |-> drawer.id, draft |-> drawer.id, origin |-> drawer.origin,
                      form |-> form, text |-> drawer.text, files |-> files,
                      shown |-> Attached, answer |-> "none"]
  <2>1. calls' = calls \cup {call}
    BY <1>2 DEF Makes
  <2>2. call.op = op /\ call.form = form /\ call.answer = "none"
    OBVIOUS
  <2>3. ~Sent(call)
    BY DEF Sent, FirstStage
  <2> HIDE DEF call
  <2> QED
    BY <2>1, <2>2, <2>3
<1>3. ASSUME NEW op \in Submitted, Submit(op), calm => ~drawer.sending
      PROVE  FInv'
  <2>1. UNCHANGED <<mails, calm>> /\ drawer.form # 0
    BY <1>3 DEF Submit, IsOpen
  <2>2. CASE Invalid(op)
    <3>1. /\ drawer'.form = drawer.form /\ drawer'.sending = drawer.sending
          /\ drawer'.banner = "recipient" /\ UNCHANGED calls
      BY <1>1, <2>2 DEF Invalid, DrawerType
    <3> QED
      BY <2>1, <3>1 DEF FormsKnow, Submitted
  <2>3. CASE drawer' = Closed /\ UNCHANGED <<calls, made>>
    BY <2>1, <2>3 DEF Closed, FormsKnow
  <2>4. CASE /\ Makes(op, drawer.id, drawer.form)
             /\ drawer' = [drawer EXCEPT !.sending = TRUE, !.banner = "none"]
    <3>1. PICK new : /\ calls' = calls \cup {new} /\ new.op = op
                     /\ new.form = drawer.form /\ new.answer = "none" /\ ~Sent(new)
      BY <1>2, <2>4 DEF Submitted
    <3>2. drawer'.sending /\ drawer'.banner = "none" /\ drawer'.form = drawer.form
      BY <1>1, <2>4 DEF DrawerType
    <3>3. calm => FormsKnow'
      BY <1>3, <2>1, <3>1, <3>2 DEF FormsKnow, Submitted
    <3> QED
      BY <2>1, <3>1, <3>3
  <2> QED
    BY <1>3, <2>2, <2>3, <2>4 DEF Submit
<1>4. CASE Send \/ SaveDraft \/ TryAgain
  <2>1. PICK op \in Submitted : Submit(op) /\ (~drawer.sending \/ drawer.banner \in Submitted)
    BY <1>4 DEF Send, SaveDraft, TryAgain, Submitted
  <2> QED
    BY <1>3, <2>1 DEF FormsKnow
<1>5. CASE DeleteDraft
  <2>1. PICK new : /\ calls' = calls \cup {new} /\ new.op = "delete"
                   /\ new.answer = "none" /\ ~Sent(new)
    BY <1>2, <1>5 DEF DeleteDraft
  <2>2. drawer' = Closed /\ UNCHANGED <<mails, calm>>
    BY <1>5 DEF DeleteDraft
  <2> QED
    BY <2>1, <2>2 DEF FormsKnow, Closed, Submitted
<1> QED
  BY <1>4, <1>5

\* Requests: the one mail of a form is sent by the call that waits for its answer. What
\* fails after that is no longer calm.
LEMMA RequestKnows ==
  ASSUME FInv, TInv', NEW c \in calls, Serve(c) \/ NotFound(c) \/ Fails(c)
  PROVE  FInv'
<1> USE DEF FInv
<1>1. /\ c \in CallType /\ c.pc # "answered" /\ c.answer = "none"
  BY Goes DEF TInv, TypeOK, Staged, Serve, NotFound, Fails
<1>2. ASSUME NEW next, calls' = (calls \ {c}) \cup {next}, Keeps(c, next),
             mails \subseteq mails',
             Sent(next) => \E m \in mails' : m.n = c.n,
             calm' => /\ calm
                      /\ \/ UNCHANGED mails /\ (Sent(c) => next.answer = "ok")
                         \/ /\ next.answer = "ok" \/ Sent(next)
                            /\ ~Sent(c) /\ c.op \in Submitted
                            /\ \E m : mails' = mails \cup {m} /\ m.form = c.form,
             UNCHANGED drawer
      PROVE  FInv'
  <2>2. \A e \in calls' : Sent(e) => \E m \in mails' : m.n = e.n
    BY <1>2 DEF Keeps
  <2>3. ASSUME calm' PROVE FormsKnow'
    <3>1. FormsKnow
      BY <1>2, <2>3
    <3>2. \A e \in calls' : e = next \/ e \in calls
      BY <1>2
    <3>3. next.op = c.op /\ next.form = c.form
      BY <1>2 DEF Keeps
    <3>4. CASE UNCHANGED mails /\ (Sent(c) => next.answer = "ok")
      BY <1>1, <1>2, <3>1, <3>2, <3>3, <3>4 DEF FormsKnow
    <3>5. CASE /\ next.answer = "ok" \/ Sent(next)
               /\ ~Sent(c) /\ c.op \in Submitted
               /\ \E m : mails' = mails \cup {m} /\ m.form = c.form
      BY <1>1, <1>2, <3>1, <3>2, <3>3, <3>5 DEF FormsKnow
    <3> QED
      BY <1>2, <2>3, <3>4, <3>5
  <2> QED
    BY <2>2, <2>3
<1>3. \A a \in {"ok", "missing", "error"} :
        /\ Keeps(c, Answered(c, a)) /\ Answered(c, a).pc = "answered"
        /\ Answered(c, a).answer = a /\ ~Sent(Answered(c, a))
  BY AnsweredTyped DEF Sent
<1>4. CASE Serve(c)
  <2>1. /\ Effect(c) /\ calls' = (calls \ {c}) \cup {After(c)} /\ UNCHANGED <<drawer, calm>>
    BY <1>4 DEF Serve, Becoming
  <2>2. Keeps(c, After(c))
    BY <2>1, Goes
  <2>3. CASE SendInGmail(c)
    <3>1. c.pc = "senddraft" /\ c.at = "gmail"
      BY <2>3 DEF SendInGmail
    <3>2. After(c).pc = "senddraft" /\ After(c).at = "row" /\ After(c).answer = "none"
      <4>1. ~ReadRow(c) /\ ~StoreUpdated(c) /\ ~LastStep(c)
        BY <3>1 DEF ReadRow, StoreUpdated, LastStep, PostMessage, StoreCreated, StoreSent,
             DropRow, InDemo, DemoCreate, DemoUpdate, DemoDelete
      <4> QED
        BY <1>1, <2>1, <3>1, <4>1, Goes
    <3>3. PICK o, text : mails' = mails \cup {Mail(c, o, text)}
      BY <2>3 DEF SendInGmail
    <3>4. Mail(c, o, text).form = c.form /\ Mail(c, o, text).n = c.n
      BY DEF Mail
    <3>5. c.op \in Submitted
      BY <3>1 DEF TInv, CallsMade, Writing
    <3> QED
      BY <1>2, <2>1, <2>2, <3>1, <3>2, <3>3, <3>4, <3>5 DEF Sent
  <2>4. CASE PostMessage(c)
    <3>1. c.pc = "post" /\ c.at = "gmail"
      BY <2>4 DEF PostMessage
    <3>2. After(c) = Answered(c, "ok")
      BY <3>1 DEF After
    <3>3. mails' = mails \cup {Mail(c, 0, c.text)}
      BY <2>4 DEF PostMessage
    <3>4. Mail(c, 0, c.text).form = c.form
      BY DEF Mail
    <3>5. c.op \in Submitted
      BY <3>1 DEF TInv, CallsMade, Writing
    <3> QED
      BY <1>2, <1>3, <2>1, <2>2, <3>1, <3>2, <3>3, <3>4, <3>5 DEF Sent
  <2>5. CASE ~SendInGmail(c) /\ ~PostMessage(c)
    <3>1. UNCHANGED mails
      BY <2>1, <2>5 DEF Effect, LastStep, ReadRow, CreateInGmail, UpdateInGmail, DeleteInGmail,
           StoreCreated, StoreUpdated, StoreSent, DropRow, InDemo
    <3>2. CASE After(c) = Answered(c, "ok")
      BY <1>2, <1>3, <2>1, <2>2, <3>1, <3>2
    <3>3. ASSUME After(c).answer = c.answer, ~Sent(c), ~Sent(After(c))
          PROVE  FInv'
      BY <1>1, <1>2, <2>1, <2>2, <3>1, <3>3
    <3>4. CASE ReadRow(c) /\ After(c).at = "gmail" /\ After(c).answer = c.answer
      BY <3>3, <3>4 DEF Sent, ReadRow
    <3>5. CASE /\ CreateInGmail(c) \/ UpdateInGmail(c) \/ DeleteInGmail(c)
               /\ After(c).pc = c.pc /\ After(c).answer = c.answer
      BY <3>3, <3>5 DEF Sent, CreateInGmail, UpdateInGmail, DeleteInGmail
    <3>6. CASE StoreUpdated(c) /\ After(c).at = "read" /\ After(c).answer = c.answer
      BY <3>3, <3>6 DEF Sent, StoreUpdated
    <3> QED
      BY <2>1, <2>5, <3>2, <3>4, <3>5, <3>6, Goes
  <2> QED
    BY <2>3, <2>4, <2>5
<1>5. CASE NotFound(c)
  <2>1. /\ calls' = (calls \ {c}) \cup {Answered(c, "missing")} /\ UNCHANGED <<drawer, mails, calm>>
        /\ c.at # "row"
    BY <1>5 DEF NotFound, Becoming
  <2> QED
    BY <1>2, <1>3, <2>1 DEF Sent
<1>6. CASE Fails(c)
  <2>1. /\ calls' = (calls \ {c}) \cup {Answered(c, "error")} /\ UNCHANGED drawer
        /\ calm' = (calm /\ \A m \in mails' : m.n # c.n)
        /\ LastStep(c) \/ UNCHANGED mails
    BY <1>6 DEF Fails, Becoming
  <2>2. mails \subseteq mails' /\ (calm' => UNCHANGED mails)
    <3>1. CASE PostMessage(c)
      <4>1. mails' = mails \cup {Mail(c, 0, c.text)} /\ Mail(c, 0, c.text).n = c.n
        BY <3>1 DEF PostMessage, Mail
      <4> QED
        BY <2>1, <4>1
    <3>2. CASE ~PostMessage(c)
      BY <2>1, <3>2 DEF LastStep, StoreCreated, StoreUpdated, StoreSent, DropRow, InDemo
    <3> QED
      BY <3>1, <3>2
  <2>3. Sent(c) => ~calm'
    BY <2>1, <2>2
  <2> QED
    BY <1>2, <1>3, <2>1, <2>2, <2>3
<1> QED
  BY <1>4, <1>5, <1>6

\* Answers: the form that is waiting, or no form at all, takes it.
LEMMA AnswerKnows ==
  ASSUME FInv, TInv', NEW c \in calls, Answer(c)
  PROVE  FInv'
<1> USE DEF FInv
<1>1. UNCHANGED mails /\ (calm' => calm /\ (c.op \in Submitted => ~Stray(c)))
  BY DEF Answer, Submitted
<1>2. CASE Succeeds(c)
  BY <1>1, <1>2 DEF Succeeds, Closed, FormsKnow
<1>3. CASE DiscardsOrphan(c)
  <2> DEFINE next == [c EXCEPT !.op = "discard", !.pc = "delete", !.at = FirstStage("delete"),
                               !.id = c.draft, !.answer = "none"]
  <2>1. calls' = (calls \ {c}) \cup {next} /\ drawer' = Closed
    BY <1>3 DEF DiscardsOrphan
  <2>2. next.op = "discard" /\ next.answer = "none" /\ ~Sent(next)
    BY DEF TInv, TypeOK, CallType, Sent
  <2> HIDE DEF next
  <2> QED
    BY <1>1, <2>1, <2>2 DEF Closed, FormsKnow, Submitted
<1>4. CASE Refused(c)
  <2>1. calls' = calls \ {c} /\ c.op \in Submitted /\ c.answer = "error"
    BY <1>4 DEF Refused, Submitted
  <2>2. CASE IsOpen
    <3>1. drawer' = [drawer EXCEPT !.sending = FALSE, !.banner = c.op]
      BY <1>4, <2>2 DEF Refused
    <3>2. drawer'.form = drawer.form /\ ~drawer'.sending
      BY <3>1 DEF TInv, DrawerType
    <3>3. calm' => drawer.form = c.form
      BY <1>1, <2>1, <2>2 DEF Stray
    <3>4. ~Sent(c)
      BY <2>1 DEF Sent, TInv, Staged
    <3> QED
      BY <1>1, <2>1, <3>2, <3>3, <3>4 DEF FormsKnow
  <2>3. CASE ~IsOpen
    <3>1. UNCHANGED drawer
      BY <1>4, <2>3 DEF Refused
    <3> QED
      BY <1>1, <2>1, <3>1 DEF FormsKnow
  <2> QED
    BY <2>2, <2>3
<1>5. CASE Deleted(c)
  BY <1>1, <1>5 DEF Deleted, FormsKnow
<1> QED
  BY <1>2, <1>3, <1>4, <1>5 DEF Answer

\* Every step keeps what the forms know.
LEMMA StepKnows ==
  ASSUME FInv, [Next]_vars
  PROVE  FInv'
<1>1. TInv'
  BY StepTyped DEF FInv
<1>2. CASE UNCHANGED <<calls, drawer, mails, calm>>
  BY <1>1, <1>2 DEF FInv, FormsKnow
<1>3. CASE \/ \E g \in gmail : DiscardedElsewhere(g)
           \/ Reload \/ UNCHANGED vars
  <2>1. UNCHANGED <<calls, drawer, mails, calm>>
    BY <1>3 DEF DiscardedElsewhere, Reload, vars
  <2> QED
    BY <1>2, <2>1
<1> QED
  BY <1>1, <1>3, DrawerKnows, SubmitKnows, RequestKnows, AnswerKnows DEF Next, User

\* A form is sent once, however often its buttons are pressed and whatever is closed and
\* opened meanwhile, as long as no call failed whose mail Gmail had sent and no answer
\* reached another form than its own.
THEOREM SendSafe == Spec => []SentOnce
<1>1. Init => FInv
  BY InitTyped DEF Init, FInv, FormsKnow, Closed
<1>2. FInv => SentOnce
  BY DEF FInv, FormsKnow, SentOnce
<1> QED
  BY <1>1, <1>2, StepKnows, PTL DEF Spec
---------------------------------------------------------------------------
(* What is sent is what was written.                                       *)

\* The id of the row that a request about a draft has read.
Key(c) == IF c.pc = "senddraft" THEN c.id ELSE c.draft

\* A draft has one row. A request that has read one knows whose it is: the id does not
\* come back with another draft.
RowsApart ==
  /\ \A d, e \in drafts : d.origin = e.origin => d = e
  /\ \A c \in calls : c.pc = "create" /\ c.at = "row" => \A d \in drafts : d.origin # c.id
  /\ \A c, v \in calls : Coming(c) /\ Amid(v) /\ v.pc # "senddraft" => c.id # v.draft
  /\ \A v \in calls, d \in drafts : Amid(v) /\ d.id = Key(v) => d.origin = v.origin
  /\ \A c \in calls : c.pc \in {"update", "delete"} /\ ~Coming(c) => c.id = c.draft

RInv == TInv /\ RowsApart

\* A call that is over or has not begun leaves the rows as they are.
LEMMA RowsKept ==
  ASSUME RInv, TInv', drafts' \subseteq drafts, NEW next, calls' \subseteq calls \cup {next},
         ~Amid(next), ~Coming(next),
         next.pc \in {"update", "delete"} => next.id = next.draft
  PROVE  RInv'
<1>1. \A c \in calls' : c \in calls \/ c = next
  OBVIOUS
<1>2. ~(next.pc = "create" /\ next.at = "row")
  BY DEF Coming
<1> QED
  BY <1>1, <1>2 DEF RInv, RowsApart

\* A step of a request.
LEMMA EffectRows ==
  ASSUME RInv, TInv', NEW c \in calls, Effect(c), UNCHANGED api, NEW next,
         next = After(c) \/ (LastStep(c) /\ next = Answered(c, "error")),
         calls' = (calls \ {c}) \cup {next}
  PROVE  RInv'
<1> USE DEF RInv
<1>1. /\ lastId \in Nat
      /\ \A e \in calls : e.id \in 0..lastId /\ e.draft \in 0..lastId
      /\ \A d \in drafts : d.id \in 1..lastId /\ d.origin \in 1..lastId
      /\ \A d, e \in drafts : d.id = e.id => d = e
  BY DEF TInv, TypeOK, CallType
<1>2. /\ \A e \in calls : Coming(e) => e.id # 0 /\ \A d \in drafts : d.id # e.id
      /\ \A e, f \in calls : Own(e) /\ Own(f) /\ e.id = f.id => e = f
  BY DEF TInv, IdsApart
<1>3. \A a \in {"ok", "error"} :
        /\ Answered(c, a).pc = "answered" /\ ~Amid(Answered(c, a)) /\ ~Coming(Answered(c, a))
  BY AnsweredTyped DEF Amid, Coming
<1>4. \A e \in calls' : e = next \/ (e \in calls /\ e # c)
  OBVIOUS
<1>5. CASE ReadRow(c)
  <2>1. /\ c.at = "read" /\ HasRow(c.id) /\ UNCHANGED drafts /\ ~LastStep(c)
        /\ c.pc \in {"update", "senddraft", "delete"}
    BY <1>5 DEF ReadRow, LastStep, PostMessage, StoreCreated, StoreUpdated, StoreSent, DropRow,
         InDemo, DemoCreate, DemoUpdate, DemoDelete, TInv, Staged
  <2>2. /\ next.pc = c.pc /\ next.at = "gmail" /\ next.id = c.id /\ next.draft = c.draft
        /\ next.origin = Row(c.id).origin
    BY <2>1, Goes DEF Keeps, CreateInGmail, UpdateInGmail, SendInGmail, DeleteInGmail,
         StoreUpdated, LastStep
  <2>3. ~Coming(next) /\ ~Coming(c)
    BY <2>1, <2>2 DEF Coming
  <2>4. Key(next) = c.id
    BY <2>1, <2>2, <2>3 DEF Key, RowsApart
  <2>5. \A d \in drafts : d.id = Key(next) => d.origin = next.origin
    BY <1>1, <2>1, <2>2, <2>4, RowFound
  <2>6. \A e \in calls : Coming(e) /\ next.pc # "senddraft" => e.id # next.draft
    <3>1. next.pc # "senddraft" => next.draft = c.id
      BY <2>4 DEF Key
    <3> QED
      BY <1>2, <2>1, <3>1, RowFound
  <2>7. next.pc \in {"update", "delete"} => next.id = next.draft
    BY <2>2, <2>4 DEF Key
  <2>8. ~(next.pc = "create" /\ next.at = "row")
    BY <2>2
  <2> QED
    BY <1>4, <2>1, <2>3, <2>5, <2>6, <2>7, <2>8 DEF RowsApart
<1>6. CASE CreateInGmail(c) \/ UpdateInGmail(c) \/ SendInGmail(c) \/ DeleteInGmail(c)
  <2>1. /\ c.at = "gmail" /\ UNCHANGED drafts /\ ~LastStep(c)
        /\ c.pc \in {"create", "update", "senddraft", "delete"}
        /\ lastId' \in {lastId, lastId + 1}
        /\ c.pc \in {"create", "update"} => lastId' = lastId + 1
    BY <1>6 DEF CreateInGmail, UpdateInGmail, SendInGmail, DeleteInGmail, NewId, LastStep,
         PostMessage, StoreCreated, StoreUpdated, StoreSent, DropRow, InDemo, DemoCreate,
         DemoUpdate, DemoDelete
  <2>2. /\ next.pc = c.pc /\ next.at = "row" /\ next.draft = c.draft
        /\ next.id = IF c.pc \in {"create", "update"} THEN lastId' ELSE c.id
        /\ next.origin = c.origin
    BY <2>1, Goes DEF Keeps, ReadRow, StoreUpdated
  <2>3. Coming(next) => next.id = lastId + 1
    BY <2>1, <2>2 DEF Coming
  <2>4. \A d \in drafts : Amid(next) /\ d.id = Key(next) => d.origin = next.origin
    <3>1. Amid(next) => Amid(c)
      BY <2>1, <2>2 DEF Amid
    <3>2. Key(next) = Key(c)
      BY <2>1, <2>2 DEF Key
    <3> QED
      BY <2>2, <3>1, <3>2 DEF RowsApart
  <2>5. \A e \in calls' : Coming(e) /\ Amid(next) /\ next.pc # "senddraft" => e.id # next.draft
    <3>1. Amid(next) => Amid(c)
      BY <2>1, <2>2 DEF Amid
    <3>2. next.draft <= lastId
      BY <1>1, <2>2
    <3> QED
      BY <1>1, <1>4, <2>2, <2>3, <3>1, <3>2 DEF RowsApart
  <2>6. \A v \in calls : Coming(next) => next.id # v.draft
    BY <1>1, <2>3
  <2>7. \A d \in drafts : next.pc = "create" /\ next.at = "row" => d.origin # next.id
    BY <1>1, <2>3 DEF Coming
  <2>8. next.pc \in {"update", "delete"} /\ ~Coming(next) => next.id = next.draft
    BY <2>1, <2>2 DEF Coming, RowsApart
  <2> QED
    BY <1>4, <2>1, <2>4, <2>5, <2>6, <2>7, <2>8 DEF RowsApart
<1>7. CASE StoreCreated(c) \/ StoreUpdated(c)
  <2>1. Coming(c) /\ Own(c) /\ c.at = "row"
    BY <1>7 DEF StoreCreated, StoreUpdated, Coming, Own
  <2>2. /\ ~Amid(next) /\ ~Coming(next) /\ next.pc \notin {"update", "delete"}
    <3>1. CASE next.pc = "answered"
      BY <3>1 DEF Amid, Coming
    <3>2. CASE next.pc # "answered"
      <4>1. next = After(c) /\ ~ReadRow(c)
        BY <1>3, <2>1, <3>2 DEF ReadRow
      <4>2. After(c).pc = "senddraft" /\ After(c).at = "read"
        BY <1>3, <2>1, <3>2, <4>1, Goes
      <4> QED
        BY <4>1, <4>2 DEF Amid, Coming
    <3> QED
      BY <3>1, <3>2
  <2>3. \A v \in calls : v # c /\ Amid(v) => Key(v) # c.id
    BY <1>2, <2>1 DEF Key, Own, RowsApart
  <2>4. CASE StoreCreated(c)
    <3> DEFINE row == [id |-> c.id, origin |-> c.id]
    <3>1. /\ drafts' = drafts \cup {row} /\ row.id = c.id /\ row.origin = c.id
          /\ \A d \in drafts : d.origin # c.id
      BY <2>4 DEF StoreCreated, RowsApart
    <3> HIDE DEF row
    <3>2. \A e \in calls : e # c /\ e.pc = "create" /\ e.at = "row" => e.id # c.id
      BY <1>2, <2>1 DEF Own, Coming
    <3> QED
      BY <1>4, <2>2, <2>3, <3>1, <3>2 DEF RowsApart, Coming
  <2>5. CASE StoreUpdated(c) /\ HasRow(c.draft)
    <3> DEFINE old == Row(c.draft)
               row == [old EXCEPT !.id = c.id]
    <3>1. old \in drafts /\ old.id = c.draft
      BY <2>5, RowFound
    <3>2. row.id = c.id /\ row.origin = old.origin
      BY <3>1 DEF TInv, TypeOK
    <3>3. drafts' = Without(c.draft) \cup {row}
      BY <2>5 DEF StoreUpdated
    <3> HIDE DEF old, row
    <3>4. \A d \in drafts' : (d \in drafts /\ d # old) \/ d = row
      BY <3>1, <3>3 DEF Without
    <3> QED
      BY <1>4, <2>2, <2>3, <3>1, <3>2, <3>4 DEF RowsApart, Coming
  <2>6. CASE StoreUpdated(c) /\ ~HasRow(c.draft)
    <3>1. UNCHANGED drafts
      BY <2>6 DEF StoreUpdated
    <3> QED
      BY <2>2, <3>1, RowsKept
  <2> QED
    BY <1>7, <2>4, <2>5, <2>6
<1>8. CASE PostMessage(c) \/ StoreSent(c) \/ DropRow(c) \/ InDemo(c)
  <2>1. ~Amid(next) /\ ~Coming(next) /\ next.pc = "answered"
    <3>1. ~(c.pc = "update" /\ c.op = "send") /\ LastStep(c) /\ c.at # "read"
          /\ (c.at = "gmail" => c.pc = "post")
      BY <1>8 DEF PostMessage, StoreSent, DropRow, InDemo, DemoCreate, DemoUpdate, DemoDelete,
           LastStep, TInv, Staged
    <3> QED
      BY <1>3, <3>1 DEF After
  <2>2. CASE drafts' \subseteq drafts
    BY <2>1, <2>2, RowsKept
  <2>3. CASE DemoCreate(c)
    <3> DEFINE row == [id |-> lastId + 1, origin |-> lastId + 1]
    <3>1. drafts' = drafts \cup {row} /\ row.id = lastId + 1 /\ row.origin = lastId + 1
      BY <2>3 DEF DemoCreate
    <3> HIDE DEF row
    <3>2. \A e \in calls : ~Coming(e) /\ ~Amid(e)
      BY <2>3 DEF DemoCreate, Coming, Amid, TInv, Staged
    <3> QED
      BY <1>1, <1>4, <2>1, <3>1, <3>2 DEF RowsApart, Coming
  <2> QED
    BY <1>8, <2>2, <2>3 DEF PostMessage, StoreSent, DropRow, InDemo, DemoUpdate, DemoDelete, Without
<1> QED
  BY <1>5, <1>6, <1>7, <1>8 DEF Effect, LastStep

\* What a form hands over: a call that has not begun.
LEMMA NewCall ==
  ASSUME TInv, NEW op \in {"send", "save", "delete"}, NEW form, Makes(op, drawer.id, form)
  PROVE  \E new : /\ calls' = calls \cup {new} /\ ~Amid(new) /\ ~Coming(new)
                  /\ new.pc # "senddraft" /\ new.id = new.draft
                  /\ new.pc = "post" => new.files = new.shown
<1> DEFINE c ==
      [n |-> made + 1, op |-> op, pc |-> FirstStep(op, drawer.kind),
       at |-> FirstStage(FirstStep(op, drawer.kind)), id |-> drawer.id,
       draft |-> drawer.id, origin |-> drawer.origin, form |-> form, text |-> drawer.text,
       files |-> IF op = "send" /\ drawer.kind # "draft" THEN Attached ELSE {},
       shown |-> Attached, answer |-> "none"]
<1>1. calls' = calls \cup {c}
  BY DEF Makes
<1>2. /\ c.pc = FirstStep(op, drawer.kind) /\ c.at = FirstStage(c.pc)
      /\ c.id = c.draft /\ c.shown = Attached
      /\ c.files = IF op = "send" /\ drawer.kind # "draft" THEN Attached ELSE {}
  OBVIOUS
<1> HIDE DEF c
<1>3. c.pc \in {"post", "create", "update", "delete"} /\ c.at \in {"demo", "gmail", "read"}
  BY <1>2 DEF FirstStep, FirstStage
<1>4. c.pc = "post" => c.files = c.shown
  BY <1>2 DEF FirstStep
<1>5. c.at = "gmail" => c.pc \in {"post", "create"}
  BY <1>2, <1>3 DEF FirstStage
<1>6. ~Amid(c) /\ ~Coming(c) /\ c.pc # "senddraft"
  BY <1>3, <1>5 DEF Amid, Coming
<1> QED
  BY <1>1, <1>2, <1>4, <1>6

\* What the user does: the calls are the same, or there is one more that has not begun.
LEMMA UserCalls ==
  ASSUME TInv, User
  PROVE  /\ UNCHANGED <<api, drafts, gmail, mails, serial>>
         /\ \/ UNCHANGED calls
            \/ \E new : /\ calls' = calls \cup {new} /\ ~Amid(new) /\ ~Coming(new)
                        /\ new.pc # "senddraft" /\ new.id = new.draft
                        /\ new.pc = "post" => new.files = new.shown
<1>1. CASE Send \/ SaveDraft \/ TryAgain
  <2>1. PICK op \in {"send", "save"} : Submit(op)
    BY <1>1 DEF Send, SaveDraft, TryAgain
  <2>2. UNCHANGED calls \/ Makes(op, drawer.id, drawer.form)
    BY <2>1 DEF Submit, Invalid
  <2> QED
    BY <2>1, <2>2, NewCall DEF Submit
<1>2. CASE DeleteDraft
  BY <1>2, NewCall DEF DeleteDraft
<1>3. ASSUME NEW kind, NEW id, Open(kind, id)
      PROVE  UNCHANGED <<api, calls, drafts, gmail, mails, serial>>
  BY <1>3 DEF Open
<1>4. ASSUME NEW form, Edits(form)
      PROVE  UNCHANGED <<api, calls, drafts, gmail, mails, serial>>
  BY <1>4 DEF Edits, Changes
<1>5. CASE Compose \/ Reply \/ \E id \in listed : Edit(id)
  BY <1>3, <1>5 DEF Compose, Reply, Edit
<1>6. CASE Write \/ ChangeRecipient \/ Close \/ \E f \in Files : PickFile(f)
  BY <1>4, <1>6 DEF Write, ChangeRecipient, Close, PickFile
<1>7. CASE \E i \in drawer.items : RetryUpload(i) \/ RemoveItem(i)
  BY <1>4, <1>7 DEF RetryUpload, RemoveItem
<1> QED
  BY <1>1, <1>2, <1>5, <1>6, <1>7 DEF User

\* The client takes an answer: the call is over, or one begins that discards a draft.
LEMMA AnswerCalls ==
  ASSUME TInv, NEW c \in calls, Answer(c)
  PROVE  /\ UNCHANGED <<api, drafts, gmail, mails, serial>> /\ c.pc = "answered"
         /\ \/ calls' = calls \ {c}
            \/ \E next : /\ calls' = (calls \ {c}) \cup {next} /\ ~Amid(next) /\ ~Coming(next)
                         /\ next.pc = "delete" /\ next.id = next.draft
<1>1. UNCHANGED <<api, drafts, gmail, mails, serial>>
  BY DEF Answer
<1>2. c.pc = "answered"
  BY DEF Answer, Succeeds, DiscardsOrphan, Refused, Deleted, TInv, Staged
<1>3. CASE DiscardsOrphan(c)
  <2> DEFINE e == [c EXCEPT !.op = "discard", !.pc = "delete", !.at = FirstStage("delete"),
                            !.id = c.draft, !.answer = "none"]
  <2>1. e.pc = "delete" /\ e.id = e.draft /\ e.at = FirstStage("delete")
    BY DEF TInv, TypeOK, CallType
  <2>2. calls' = (calls \ {c}) \cup {e}
    BY <1>3 DEF DiscardsOrphan
  <2> HIDE DEF e
  <2>3. e.at \in {"demo", "read"}
    BY <2>1 DEF FirstStage
  <2>4. ~Amid(e) /\ ~Coming(e)
    BY <2>1, <2>3 DEF Amid, Coming
  <2> QED
    BY <1>1, <1>2, <2>1, <2>2, <2>4
<1>4. CASE Succeeds(c) \/ Refused(c) \/ Deleted(c)
  BY <1>1, <1>2, <1>4 DEF Succeeds, Refused, Deleted
<1> QED
  BY <1>3, <1>4 DEF Answer

\* A request is served, refused or fails: it takes a step, or it is over.
LEMMA RequestCalls ==
  ASSUME TInv, NEW c \in calls, Serve(c) \/ NotFound(c) \/ Fails(c)
  PROVE  /\ UNCHANGED api /\ (serial' => serial)
         /\ \E next :
              /\ calls' = (calls \ {c}) \cup {next}
              /\ \/ /\ Effect(c) /\ (c.at = "read" /\ serial' => ~Overlaps(c))
                    /\ next = After(c) \/ (LastStep(c) /\ next = Answered(c, "error"))
                 \/ /\ UNCHANGED <<drafts, gmail, mails>> /\ next.pc = "answered"
                    /\ serial' => ~(c.pc = "update" /\ c.at = "row")
<1>1. CASE Serve(c)
  BY <1>1 DEF Serve, Becoming
<1>2. CASE NotFound(c)
  <2>1. /\ UNCHANGED <<api, drafts, gmail, mails, serial>> /\ c.at # "row"
        /\ calls' = (calls \ {c}) \cup {Answered(c, "missing")}
    BY <1>2 DEF NotFound, Becoming
  <2>2. Answered(c, "missing").pc = "answered"
    BY AnsweredTyped
  <2> QED
    BY <2>1, <2>2
<1>3. CASE Fails(c)
  <2>1. UNCHANGED api /\ calls' = (calls \ {c}) \cup {Answered(c, "error")}
    BY <1>3 DEF Fails, Becoming
  <2>2. Answered(c, "error").pc = "answered"
    BY AnsweredTyped
  <2>3. CASE LastStep(c) /\ UNCHANGED serial
    <3>1. c.at = "read" => c.pc \in {"update", "senddraft", "delete"}
      BY DEF TInv, Staged
    <3>2. c.at # "read"
      BY <2>3, <3>1 DEF LastStep, PostMessage, StoreCreated, StoreUpdated, StoreSent, DropRow,
           InDemo, DemoCreate, DemoUpdate, DemoDelete
    <3> QED
      BY <2>1, <2>3, <3>2 DEF Effect
  <2>4. CASE /\ UNCHANGED <<drafts, gmail, mails>>
             /\ serial' = (serial /\ ~(c.pc = "update" /\ c.at = "row"))
    BY <2>1, <2>2, <2>4
  <2> QED
    BY <1>3, <2>3, <2>4 DEF Fails
<1> QED
  BY <1>1, <1>2, <1>3

\* Every step keeps the rows apart.
LEMMA StepRows ==
  ASSUME RInv, [Next]_vars
  PROVE  RInv'
<1> USE DEF RInv
<1>1. TInv'
  BY StepTyped
<1>2. CASE UNCHANGED <<calls, drafts>>
  BY <1>1, <1>2 DEF RowsApart
<1>3. CASE User
  <2>1. drafts' \subseteq drafts
    BY <1>3, UserCalls
  <2> QED
    BY <1>1, <1>2, <1>3, <2>1, UserCalls, RowsKept
<1>4. ASSUME NEW c \in calls, Answer(c)
      PROVE  RInv'
  <2>1. UNCHANGED drafts
    BY <1>4, AnswerCalls
  <2>2. CASE calls' = calls \ {c}
    BY <1>1, <2>1, <2>2 DEF RowsApart
  <2>3. CASE calls' # calls \ {c}
    BY <1>1, <1>4, <2>1, <2>3, AnswerCalls, RowsKept
  <2> QED
    BY <2>2, <2>3
<1>5. ASSUME NEW c \in calls, Serve(c) \/ NotFound(c) \/ Fails(c)
      PROVE  RInv'
  <2>1. PICK next :
          /\ calls' = (calls \ {c}) \cup {next} /\ UNCHANGED api
          /\ \/ /\ Effect(c)
                /\ next = After(c) \/ (LastStep(c) /\ next = Answered(c, "error"))
             \/ UNCHANGED drafts /\ next.pc = "answered"
    BY <1>5, RequestCalls
  <2>2. CASE UNCHANGED drafts /\ next.pc = "answered"
    <3>1. ~Amid(next) /\ ~Coming(next)
      BY <2>2 DEF Amid, Coming
    <3> QED
      BY <1>1, <2>1, <2>2, <3>1, RowsKept
  <2> QED
    BY <1>1, <2>1, <2>2, EffectRows
<1>6. CASE \/ \E i \in drawer.items : CreateUpload(i) \/ PutFile(i) \/ UploadFails(i)
           \/ \E g \in gmail : DiscardedElsewhere(g)
           \/ Reload \/ UNCHANGED vars
  <2>1. UNCHANGED <<calls, drafts>>
    BY <1>6 DEF CreateUpload, PutFile, UploadFails, Edits, Changes, DiscardedElsewhere, Reload,
         vars
  <2> QED
    BY <1>2, <2>1
<1> QED
  BY <1>3, <1>4, <1>5, <1>6 DEF Next

\* If Gmail has the draft, it has the text of the call.
Texted(c, origin, inGmail) == \A g \in inGmail : g.origin = origin => g.text = c.text

\* Gmail has a new text of the draft, and the row its old id.
Renaming(origin, requests) ==
  \E u \in requests : u.pc = "update" /\ u.at = "row" /\ u.origin = origin

\* While no PATCH overlaps another request about its draft: what it has read is still
\* so, and the draft that a form goes on to send has the form's text, or another update
\* is about to take its row away.
InSeries ==
  /\ \A c \in calls : c.pc = "update" /\ c.at = "row" => Texted(c, c.origin, gmail)
  /\ \A c \in calls : c.pc = "senddraft" /\ c.at = "gmail" => Texted(c, c.origin, gmail)
  /\ \A c \in calls, d \in drafts : c.pc = "senddraft" /\ c.at = "read" /\ d.id = c.id =>
       Texted(c, d.origin, gmail) \/ Renaming(d.origin, calls)
  /\ \A c, d \in calls : Amid(c) /\ Amid(d) /\ c.origin = d.origin /\ c.pc = "update" => c = d
  /\ \A c \in calls : Amid(c) /\ c.pc = "update" =>
       \E d \in drafts : d.id = c.draft /\ d.origin = c.origin

\* Only new messages and replies are posted, with all that was attached.
WInv ==
  /\ RInv
  /\ \A c \in calls : c.pc = "post" => c.files = c.shown
  /\ serial => InSeries
  /\ SentAsWritten

\* A call that is over or has not begun changes nothing for the others.
LEMMA SeriesKept ==
  ASSUME InSeries, UNCHANGED drafts, gmail' \subseteq gmail, NEW next,
         calls' \subseteq calls \cup {next}, ~Amid(next), next.pc # "senddraft",
         \A u \in calls : u.pc = "update" /\ u.at = "row" => u \in calls'
  PROVE  InSeries'
<1>1. \A c \in calls' : c \in calls \/ c = next
  OBVIOUS
<1>2. \A c, origin : Texted(c, origin, gmail) => Texted(c, origin, gmail')
  BY DEF Texted
<1>3. \A origin : Renaming(origin, calls) => Renaming(origin, calls')
  BY DEF Renaming
<1>4. ~(next.pc = "update" /\ next.at = "row")
  BY DEF Amid
<1> QED
  BY <1>1, <1>2, <1>3, <1>4 DEF InSeries

\* Reading the row: no other request has an update under way, so that what Gmail has is
\* what the form wrote.
LEMMA ReadSeries ==
  ASSUME RInv, InSeries, NEW c \in calls, ReadRow(c), ~Overlaps(c),
         NEW next, next = After(c), calls' = (calls \ {c}) \cup {next}
  PROVE  InSeries'
<1>1. /\ c.at = "read" /\ c.pc \in {"update", "senddraft", "delete"}
      /\ UNCHANGED <<drafts, gmail>> /\ HasRow(c.id)
  BY DEF ReadRow, RInv, TInv, Staged
<1>2. /\ next.pc = c.pc /\ next.at = "gmail" /\ next.id = c.id /\ next.draft = c.draft
      /\ next.origin = Row(c.id).origin /\ next.text = c.text
  <2>1. /\ ~LastStep(c) /\ ~StoreUpdated(c)
        /\ ~(CreateInGmail(c) \/ UpdateInGmail(c) \/ SendInGmail(c) \/ DeleteInGmail(c))
    BY <1>1 DEF LastStep, PostMessage, StoreCreated, StoreUpdated, StoreSent, DropRow,
       InDemo, DemoCreate, DemoUpdate, DemoDelete, CreateInGmail, UpdateInGmail, SendInGmail,
       DeleteInGmail
  <2> QED
    BY <2>1, Goes DEF Effect, Keeps, RInv
<1>3. Row(c.id) \in drafts /\ Row(c.id).id = c.id
  BY <1>1, RowFound
<1>4. \A d \in calls \ {c} :
        Amid(d) /\ d.origin = next.origin => d.pc # "update" /\ c.pc # "update"
  BY <1>2 DEF Overlaps
<1>5. ~Amid(c) /\ \A e \in calls' : e = next \/ (e \in calls /\ e # c)
  BY <1>1 DEF Amid
<1>6. c.pc = "senddraft" => Texted(next, next.origin, gmail)
  <2>1. ASSUME c.pc = "senddraft", Renaming(next.origin, calls)
        PROVE  FALSE
    <3>1. PICK u \in calls : u.pc = "update" /\ u.at = "row" /\ u.origin = next.origin
      BY <2>1 DEF Renaming
    <3> QED
      BY <1>1, <1>4, <3>1 DEF Amid
  <2>2. c.pc = "senddraft" => Texted(c, next.origin, gmail)
    BY <1>1, <1>2, <1>3, <2>1 DEF InSeries
  <2> QED
    BY <1>2, <2>2 DEF Texted
<1>7. c.pc = "update" => \E d \in drafts : d.id = next.draft /\ d.origin = next.origin
  <2>1. c.pc = "update" => c.id = c.draft
    BY <1>1 DEF RInv, RowsApart, Coming
  <2> QED
    BY <1>2, <1>3, <2>1
<1>8. \A e, origin : Texted(e, origin, gmail') <=> Texted(e, origin, gmail)
  BY <1>1 DEF Texted
<1>9. \A origin : Renaming(origin, calls) => Renaming(origin, calls')
  BY <1>1 DEF Renaming
<1>10. /\ \A e \in calls' : e.pc = "update" /\ e.at = "row" => Texted(e, e.origin, gmail')
       /\ \A e \in calls' : e.pc = "senddraft" /\ e.at = "gmail" => Texted(e, e.origin, gmail')
  BY <1>2, <1>5, <1>6, <1>8 DEF InSeries
<1>11. \A e \in calls', d \in drafts' : e.pc = "senddraft" /\ e.at = "read" /\ d.id = e.id =>
         Texted(e, d.origin, gmail') \/ Renaming(d.origin, calls')
  BY <1>1, <1>2, <1>5, <1>8, <1>9 DEF InSeries
<1>12. \A e, d \in calls' :
         Amid(e) /\ Amid(d) /\ e.origin = d.origin /\ e.pc = "update" => e = d
  BY <1>2, <1>4, <1>5 DEF InSeries
<1>13. \A e \in calls' : Amid(e) /\ e.pc = "update" =>
         \E d \in drafts' : d.id = e.draft /\ d.origin = e.origin
  BY <1>1, <1>2, <1>5, <1>7 DEF InSeries
<1> QED
  BY <1>10, <1>11, <1>12, <1>13 DEF InSeries

\* Gmail's step: an update has the draft to itself, and leaves its text there.
LEMMA GmailSeries ==
  ASSUME RInv, InSeries, NEW c \in calls,
         CreateInGmail(c) \/ UpdateInGmail(c) \/ SendInGmail(c) \/ DeleteInGmail(c),
         NEW next, next = After(c), calls' = (calls \ {c}) \cup {next}
  PROVE  InSeries'
<1>1. /\ c.at = "gmail" /\ UNCHANGED drafts
      /\ c.pc \in {"create", "update", "senddraft", "delete"}
  BY DEF CreateInGmail, UpdateInGmail, SendInGmail, DeleteInGmail
<1>2. /\ next.pc = c.pc /\ next.at = "row" /\ next.draft = c.draft
      /\ next.origin = c.origin /\ next.text = c.text
  <2>1. ~ReadRow(c) /\ ~StoreUpdated(c) /\ ~LastStep(c)
    BY <1>1 DEF LastStep, PostMessage, StoreCreated, StoreUpdated, StoreSent, DropRow,
       InDemo, DemoCreate, DemoUpdate, DemoDelete, ReadRow
  <2> QED
    BY <2>1, Goes DEF Effect, Keeps, RInv
<1>3. \A e \in calls' : e = next \/ (e \in calls /\ e # c)
  OBVIOUS
<1>4. Amid(next) => Amid(c)
  BY <1>1, <1>2 DEF Amid
<1>5. \A origin : Renaming(origin, calls) => Renaming(origin, calls')
  BY <1>1 DEF Renaming
<1>6. /\ lastId \in Nat /\ \A e \in calls : e.origin \in 0..lastId
      /\ \A d \in drafts : d.origin \in 1..lastId
  BY DEF RInv, TInv, TypeOK, CallType
<1>7. CASE ~UpdateInGmail(c)
  <2>1. \A e, origin : origin \in 0..lastId /\ Texted(e, origin, gmail) => Texted(e, origin, gmail')
    <3>1. \A g \in gmail' : g \in gmail \/ g.origin = lastId + 1
      BY <1>7 DEF CreateInGmail, SendInGmail, DeleteInGmail, NewId, Draft
    <3> QED
      BY <1>6, <3>1 DEF Texted
  <2>2. c.pc # "update"
    BY <1>7 DEF CreateInGmail, SendInGmail, DeleteInGmail
  <2>3. /\ \A e \in calls' : e.pc = "update" /\ e.at = "row" => Texted(e, e.origin, gmail')
        /\ \A e \in calls' : e.pc = "senddraft" /\ e.at = "gmail" => Texted(e, e.origin, gmail')
    BY <1>2, <1>3, <1>6, <2>1, <2>2 DEF InSeries
  <2>4. \A e \in calls', d \in drafts' : e.pc = "senddraft" /\ e.at = "read" /\ d.id = e.id =>
          Texted(e, d.origin, gmail') \/ Renaming(d.origin, calls')
    <3>1. \A d \in drafts : d.origin \in 0..lastId
      BY <1>6
    <3> QED
      BY <1>1, <1>2, <1>3, <1>5, <2>1, <3>1 DEF InSeries
  <2>5. \A e, d \in calls' :
          Amid(e) /\ Amid(d) /\ e.origin = d.origin /\ e.pc = "update" => e = d
    BY <1>2, <1>3, <1>4, <2>2 DEF InSeries
  <2>6. \A e \in calls' : Amid(e) /\ e.pc = "update" =>
          \E d \in drafts' : d.id = e.draft /\ d.origin = e.origin
    BY <1>1, <1>2, <1>3, <2>2 DEF InSeries
  <2> QED
    BY <2>3, <2>4, <2>5, <2>6 DEF InSeries
<1>8. CASE UpdateInGmail(c)
  <2>1. c.pc = "update" /\ gmail' = Rewritten(c.origin, c.text)
    BY <1>8 DEF UpdateInGmail
  <2>2. /\ \A e, origin : origin # c.origin /\ Texted(e, origin, gmail) => Texted(e, origin, gmail')
        /\ Texted(next, c.origin, gmail')
    BY <1>2, <2>1 DEF Texted, Rewritten, Draft
  <2>3. Renaming(c.origin, calls')
    <3>1. next \in calls' /\ next.pc = "update" /\ next.at = "row" /\ next.origin = c.origin
      BY <1>2, <2>1
    <3> QED
      BY <3>1 DEF Renaming
  <2>4. \A e \in calls : e # c /\ Amid(e) => e.origin # c.origin
    BY <1>1, <2>1 DEF InSeries, Amid
  <2>5. \A e \in calls : \/ e.pc = "update" /\ e.at = "row"
                         \/ e.pc = "senddraft" /\ e.at = "gmail" => Amid(e)
    BY DEF Amid
  <2>6. Amid(c)
    BY <1>1, <2>1 DEF Amid
  <2>7. /\ \A e \in calls' : e.pc = "update" /\ e.at = "row" => Texted(e, e.origin, gmail')
        /\ \A e \in calls' : e.pc = "senddraft" /\ e.at = "gmail" => Texted(e, e.origin, gmail')
    <3>1. ASSUME NEW e \in calls, e # c, Amid(e), Texted(e, e.origin, gmail)
          PROVE  Texted(e, e.origin, gmail')
      BY <2>2, <2>4, <3>1
    <3>2. Texted(next, next.origin, gmail')
      BY <1>2, <2>2
    <3>3. \A e \in calls : e.pc = "update" /\ e.at = "row" => Amid(e) /\ Texted(e, e.origin, gmail)
      BY DEF InSeries, Amid
    <3>4. \A e \in calls : e.pc = "senddraft" /\ e.at = "gmail" => Amid(e) /\ Texted(e, e.origin, gmail)
      BY DEF InSeries, Amid
    <3> QED
      BY <1>3, <3>1, <3>2, <3>3, <3>4
  <2>8. \A e \in calls', d \in drafts' : e.pc = "senddraft" /\ e.at = "read" /\ d.id = e.id =>
          Texted(e, d.origin, gmail') \/ Renaming(d.origin, calls')
    <3>1. ~(next.pc = "senddraft" /\ next.at = "read")
      BY <1>2
    <3> QED
      BY <1>1, <1>3, <1>5, <2>2, <2>3, <3>1 DEF InSeries
  <2>9. /\ \A e, d \in calls' :
             Amid(e) /\ Amid(d) /\ e.origin = d.origin /\ e.pc = "update" => e = d
        /\ \A e \in calls' : Amid(e) /\ e.pc = "update" =>
             \E d \in drafts' : d.id = e.draft /\ d.origin = e.origin
    BY <1>1, <1>2, <1>3, <2>1, <2>4, <2>6 DEF InSeries
  <2> QED
    BY <2>7, <2>8, <2>9 DEF InSeries
<1> QED
  BY <1>7, <1>8

\* The last step: the row of an update takes the new id, and forms that hold the old one
\* find no row.
LEMMA RowSeries ==
  ASSUME RInv, InSeries, NEW c \in calls, LastStep(c), NEW next,
         next = After(c) \/ next = Answered(c, "error"),
         calls' = (calls \ {c}) \cup {next}
  PROVE  InSeries'
<1>1. /\ \A d, e \in drafts : d.id = e.id => d = e
      /\ \A e \in calls : Coming(e) => \A d \in drafts : d.id # e.id
      /\ \A e, f \in calls : Own(e) /\ Own(f) /\ e.id = f.id => e = f
  BY DEF RInv, TInv, TypeOK, IdsApart
<1>2. \A a \in {"ok", "error"} : Answered(c, a).pc = "answered" /\ ~Amid(Answered(c, a))
  BY AnsweredTyped DEF RInv, Amid
<1>3. \A e \in calls' : e = next \/ (e \in calls /\ e # c)
  OBVIOUS
<1>4. CASE StoreUpdated(c)
  <2>1. c.pc = "update" /\ c.at = "row" /\ Amid(c) /\ Own(c) /\ UNCHANGED gmail
    BY <1>4 DEF StoreUpdated, Amid, Own, Coming
  <2>2. PICK old \in drafts : old.id = c.draft /\ old.origin = c.origin
    BY <2>1 DEF InSeries
  <2>3. HasRow(c.draft) /\ Row(c.draft) = old
    BY <1>1, <2>2, RowFound DEF HasRow
  <2> DEFINE row == [old EXCEPT !.id = c.id]
  <2>4. row.id = c.id /\ row.origin = c.origin
    BY <2>2 DEF RInv, TInv, TypeOK
  <2>5. drafts' = Without(c.draft) \cup {row}
    BY <1>4, <2>3 DEF StoreUpdated
  <2> HIDE DEF row
  <2>6. \A d \in drafts' : (d \in drafts /\ d # old) \/ d = row
    BY <2>2, <2>5 DEF Without
  <2>7. \A d \in drafts : d # old => d \in drafts'
    BY <1>1, <2>2, <2>5 DEF Without
  <2>8. /\ ~Amid(next) /\ next.pc \in {"answered", "senddraft"}
        /\ next.pc = "senddraft" => next.at = "read" /\ next.id = c.id /\ next.text = c.text
    <3>1. CASE next.pc = "answered"
      BY <3>1 DEF Amid
    <3>2. CASE next.pc # "answered"
      <4>1. next = After(c) /\ ~ReadRow(c) /\ c.at # "gmail"
        BY <1>2, <2>1, <3>2 DEF ReadRow
      <4>2. /\ After(c).pc = "senddraft" /\ After(c).at = "read"
            /\ After(c).id = c.id /\ After(c).text = c.text
        BY <1>2, <3>2, <4>1, Goes DEF Effect, RInv
      <4> QED
        BY <4>1, <4>2 DEF Amid
    <3> QED
      BY <3>1, <3>2
  <2>9. \A e, origin : Texted(e, origin, gmail') <=> Texted(e, origin, gmail)
    BY <2>1 DEF Texted
  <2>10. \A origin : origin # c.origin /\ Renaming(origin, calls) => Renaming(origin, calls')
    BY DEF Renaming
  <2>11. \A d \in drafts : d # old => d.origin # c.origin
    BY <2>2 DEF RInv, RowsApart
  <2>12. \A e \in calls', d \in drafts' : e.pc = "senddraft" /\ e.at = "read" /\ d.id = e.id =>
           Texted(e, d.origin, gmail') \/ Renaming(d.origin, calls')
    <3> SUFFICES ASSUME NEW e \in calls', NEW d \in drafts', e.pc = "senddraft",
                        e.at = "read", d.id = e.id
                 PROVE  Texted(e, d.origin, gmail') \/ Renaming(d.origin, calls')
      OBVIOUS
    <3>1. CASE e = next
      <4>1. d = row
        BY <1>1, <2>1, <2>6, <2>8, <3>1 DEF Own
      <4>2. Texted(c, c.origin, gmail)
        BY <2>1 DEF InSeries
      <4>3. next.text = c.text
        BY <2>8, <3>1
      <4>4. Texted(next, c.origin, gmail)
        BY <4>2, <4>3 DEF Texted
      <4> QED
        BY <2>4, <2>9, <3>1, <4>1, <4>4
    <3>2. CASE e # next
      <4>1. e \in calls /\ e # c /\ Own(e)
        BY <1>3, <3>2 DEF Own
      <4>2. d \in drafts /\ d # old
        BY <1>1, <2>1, <2>4, <2>6, <4>1
      <4> QED
        BY <2>9, <2>10, <2>11, <4>1, <4>2 DEF InSeries
    <3> QED
      BY <3>1, <3>2
  <2>13. \A e \in calls' : Amid(e) /\ e.pc = "update" =>
           \E d \in drafts' : d.id = e.draft /\ d.origin = e.origin
    <3> SUFFICES ASSUME NEW e \in calls', Amid(e), e.pc = "update"
                 PROVE  \E d \in drafts' : d.id = e.draft /\ d.origin = e.origin
      OBVIOUS
    <3>1. e \in calls /\ e # c
      BY <1>3, <2>8
    <3>2. PICK d \in drafts : d.id = e.draft /\ d.origin = e.origin
      BY <3>1 DEF InSeries
    <3>3. e.origin # c.origin
      BY <2>1, <3>1 DEF InSeries
    <3> QED
      BY <2>2, <2>7, <3>2, <3>3
  <2> QED
    BY <1>3, <2>8, <2>9, <2>12, <2>13 DEF InSeries
<1>5. CASE ~StoreUpdated(c)
  <2>1. /\ next.pc = "answered" /\ ~Amid(next)
    <3>1. ~(c.pc = "update" /\ c.op = "send") /\ c.at # "read" /\ (c.at = "gmail" => c.pc = "post")
      BY <1>5 DEF PostMessage, StoreCreated, StoreSent, DropRow, InDemo, DemoCreate, DemoUpdate,
         DemoDelete, LastStep, RInv, TInv, Staged
    <3> QED
      BY <1>2, <3>1 DEF After
  <2>2. ASSUME UNCHANGED gmail, ~(c.pc = "update" /\ c.at = "row"),
               \A e \in calls, d \in drafts' : e # c /\ e.pc = "senddraft" /\ e.at = "read" /\ d.id = e.id => d \in drafts,
               \A e \in calls, d \in drafts :
                 e # c /\ Amid(e) /\ e.pc = "update" /\ d.id = e.draft /\ d.origin = e.origin => d \in drafts'
        PROVE  InSeries'
    <3>1. \A e, origin : Texted(e, origin, gmail') <=> Texted(e, origin, gmail)
      BY <2>2 DEF Texted
    <3>2. \A origin : Renaming(origin, calls) => Renaming(origin, calls')
      BY <2>2 DEF Renaming
    <3> QED
      BY <1>3, <2>1, <2>2, <3>1, <3>2 DEF InSeries
  <2>3. CASE PostMessage(c)
    BY <2>2, <2>3 DEF PostMessage
  <2>4. CASE StoreCreated(c)
    <3>1. /\ c.pc = "create" /\ Own(c) /\ UNCHANGED gmail
          /\ drafts' = drafts \cup {[id |-> c.id, origin |-> c.id]}
      BY <2>4 DEF StoreCreated, Own, Coming
    <3>2. \A e \in calls : e # c /\ e.pc = "senddraft" => e.id # c.id
      BY <1>1, <3>1 DEF Own
    <3> QED
      BY <2>2, <3>1, <3>2
  <2>5. CASE StoreSent(c) \/ DropRow(c)
    <3>1. /\ c.pc \in {"senddraft", "delete"} /\ c.at = "row" /\ UNCHANGED gmail
          /\ drafts' = Without(c.id)
      BY <2>5 DEF StoreSent, DropRow
    <3>2. Amid(c) /\ Key(c) = c.id
      BY <3>1 DEF Amid, Key, RInv, RowsApart, Coming
    <3>3. ASSUME NEW e \in calls, NEW d \in drafts, e # c, Amid(e), e.pc = "update",
                 d.origin = e.origin
          PROVE  d \in drafts'
      <4>1. e.origin # c.origin
        BY <3>2, <3>3 DEF InSeries
      <4>2. d.id # c.id
        BY <3>2, <3>3, <4>1 DEF RInv, RowsApart
      <4> QED
        BY <3>1, <4>2 DEF Without
    <3> QED
      BY <2>2, <3>1, <3>3 DEF Without
  <2>6. CASE InDemo(c)
    <3>1. \A e \in calls : e.at \in {"demo", "none"}
      BY <2>6 DEF InDemo, DemoCreate, DemoUpdate, DemoDelete, RInv, TInv, Staged
    <3>2. \A e \in calls' : /\ ~Amid(e) /\ ~(e.pc = "update" /\ e.at = "row")
                            /\ ~(e.pc = "senddraft" /\ e.at \in {"gmail", "read"})
      BY <1>3, <2>1, <3>1 DEF Amid
    <3> QED
      BY <3>2 DEF InSeries
  <2> QED
    BY <1>5, <2>3, <2>4, <2>5, <2>6 DEF LastStep
<1> QED
  BY <1>4, <1>5

\* What is mailed is what the call asked for.
LEMMA MailsWritten ==
  ASSUME WInv, NEW c \in calls, Effect(c), serial' => serial
  PROVE  SentAsWritten'
<1> USE DEF WInv, SentAsWritten
<1>1. CASE PostMessage(c)
  <2> DEFINE m == Mail(c, 0, c.text)
  <2>1. Fetched(c) = c.files /\ c.files = c.shown
    BY <1>1 DEF PostMessage, Fetched
  <2>2. m.origin = 0 /\ m.text = m.asked /\ m.files = m.shown
    BY <2>1 DEF Mail
  <2>3. mails' = mails \cup {m}
    BY <1>1 DEF PostMessage
  <2> HIDE DEF m
  <2> QED
    BY <2>2, <2>3
<1>2. CASE SendInGmail(c)
  <2>1. PICK g \in gmail : g.origin = c.origin /\ mails' = mails \cup {Mail(c, g.origin, g.text)}
    BY <1>2 DEF SendInGmail
  <2>2. c.pc = "senddraft" /\ c.at = "gmail" /\ g.origin # 0
    BY <1>2 DEF SendInGmail, RInv, TInv, TypeOK
  <2>3. serial => g.text = c.text
    BY <2>1, <2>2 DEF InSeries, Texted
  <2> DEFINE m == Mail(c, g.origin, g.text)
  <2>4. m.origin # 0 /\ m.text = g.text /\ m.asked = c.text
    BY <2>2 DEF Mail
  <2>5. mails' = mails \cup {m}
    BY <2>1
  <2> HIDE DEF m
  <2> QED
    BY <2>3, <2>4, <2>5
<1>3. CASE UNCHANGED mails
  BY <1>3
<1> QED
  BY <1>1, <1>2, <1>3 DEF Effect, LastStep, ReadRow, CreateInGmail, UpdateInGmail, DeleteInGmail,
     StoreCreated, StoreUpdated, StoreSent, DropRow, InDemo

\* Every step keeps all this.
LEMMA StepWritten ==
  ASSUME WInv, [Next]_vars
  PROVE  WInv'
<1>1. RInv' /\ RInv /\ TInv
  BY StepRows DEF WInv, RInv
<1>2. ASSUME UNCHANGED <<drafts, mails>>, gmail' \subseteq gmail, serial' => serial,
             NEW next, calls' \subseteq calls \cup {next}, ~Amid(next),
             next.pc # "senddraft", next.pc = "post" => next.files = next.shown,
             serial' => \A u \in calls : u.pc = "update" /\ u.at = "row" => u \in calls'
      PROVE  WInv'
  <2>1. serial' => InSeries'
    BY <1>2, SeriesKept DEF WInv
  <2> QED
    BY <1>1, <1>2, <2>1 DEF WInv, SentAsWritten
<1>3. CASE UNCHANGED <<calls, drafts, mails, serial>> /\ gmail' \subseteq gmail
  <2> DEFINE next == [pc |-> "answered", at |-> "none"]
  <2>1. ~Amid(next) /\ next.pc # "senddraft" /\ next.pc # "post"
    BY DEF Amid
  <2> HIDE DEF next
  <2>2. calls' \subseteq calls \cup {next} /\ UNCHANGED <<drafts, mails>>
        /\ (serial' => serial)
        /\ \A u \in calls : u \in calls'
    BY <1>3
  <2> QED
    BY <1>2, <1>3, <2>1, <2>2
<1>4. CASE User
  <2>1. UNCHANGED <<drafts, gmail, mails, serial>>
    BY <1>1, <1>4, UserCalls
  <2>2. CASE UNCHANGED calls
    BY <1>3, <2>1, <2>2
  <2>3. ASSUME NEW new, calls' = calls \cup {new}, ~Amid(new), new.pc # "senddraft",
               new.pc = "post" => new.files = new.shown
        PROVE  WInv'
    BY <1>2, <2>1, <2>3
  <2> QED
    BY <1>1, <1>4, <2>2, <2>3, UserCalls
<1>5. ASSUME NEW c \in calls, Answer(c)
      PROVE  WInv'
  <2>1. UNCHANGED <<drafts, gmail, mails, serial>> /\ c.pc = "answered"
    BY <1>1, <1>5, AnswerCalls
  <2>2. ASSUME NEW next, calls' \subseteq calls \cup {next}, calls \ {c} \subseteq calls',
               ~Amid(next), next.pc \in {"answered", "delete"}
        PROVE  WInv'
    <3>1. \A u \in calls : u.pc = "update" /\ u.at = "row" => u \in calls'
      BY <2>1, <2>2
    <3> QED
      BY <1>2, <2>1, <2>2, <3>1
  <2>3. CASE calls' = calls \ {c}
    <3>1. ~Amid(c)
      BY <2>1 DEF Amid
    <3> QED
      BY <2>1, <2>2, <2>3, <3>1
  <2>4. ASSUME NEW next, calls' = (calls \ {c}) \cup {next}, ~Amid(next), next.pc = "delete"
        PROVE  WInv'
    BY <2>2, <2>4
  <2> QED
    BY <1>1, <1>5, <2>3, <2>4, AnswerCalls
<1>6. ASSUME NEW c \in calls, Serve(c) \/ NotFound(c) \/ Fails(c)
      PROVE  WInv'
  <2>1. PICK next :
          /\ calls' = (calls \ {c}) \cup {next} /\ (serial' => serial)
          /\ \/ /\ Effect(c) /\ (c.at = "read" /\ serial' => ~Overlaps(c))
                /\ next = After(c) \/ (LastStep(c) /\ next = Answered(c, "error"))
             \/ /\ UNCHANGED <<drafts, gmail, mails>> /\ next.pc = "answered"
                /\ serial' => ~(c.pc = "update" /\ c.at = "row")
    BY <1>1, <1>6, RequestCalls
  <2>2. CASE /\ UNCHANGED <<drafts, gmail, mails>> /\ next.pc = "answered"
             /\ serial' => ~(c.pc = "update" /\ c.at = "row")
    <3>1. ~Amid(next)
      BY <2>2 DEF Amid
    <3>2. serial' => \A u \in calls : u.pc = "update" /\ u.at = "row" => u \in calls'
      BY <2>1, <2>2
    <3> QED
      BY <1>2, <2>1, <2>2, <3>1, <3>2
  <2>3. CASE /\ Effect(c) /\ (c.at = "read" /\ serial' => ~Overlaps(c))
             /\ next = After(c) \/ (LastStep(c) /\ next = Answered(c, "error"))
    <3>1. SentAsWritten'
      BY <2>1, <2>3, MailsWritten
    <3>2. next.pc # "post"
      <4>1. Answered(c, "error").pc = "answered" /\ Answered(c, "ok").pc = "answered"
        BY <1>1, AnsweredTyped
      <4>2. CASE next = After(c) /\ ReadRow(c) /\ After(c).pc = c.pc
        BY <1>1, <4>2 DEF ReadRow, TInv, Staged
      <4>3. CASE /\ next = After(c) /\ After(c).pc = c.pc
                 /\ CreateInGmail(c) \/ UpdateInGmail(c) \/ SendInGmail(c) \/ DeleteInGmail(c)
        BY <4>3 DEF CreateInGmail, UpdateInGmail, SendInGmail, DeleteInGmail
      <4> QED
        BY <1>1, <2>3, <4>1, <4>2, <4>3, Goes
    <3>3. ASSUME serial' PROVE InSeries'
      <4>1. InSeries
        BY <2>1, <3>3 DEF WInv
      <4>2. CASE LastStep(c)
        BY <1>1, <2>1, <2>3, <4>1, <4>2, RowSeries
      <4>3. CASE ~LastStep(c) /\ ReadRow(c)
        <5>1. ~Overlaps(c) /\ next = After(c)
          BY <2>3, <3>3, <4>3 DEF ReadRow
        <5> QED
          BY <1>1, <2>1, <4>1, <4>3, <5>1, ReadSeries
      <4>4. CASE ~LastStep(c) /\ ~ReadRow(c)
        BY <1>1, <2>1, <2>3, <4>1, <4>4, GmailSeries DEF Effect
      <4> QED
        BY <4>2, <4>3, <4>4
    <3> QED
      BY <1>1, <2>1, <3>1, <3>2, <3>3 DEF WInv
  <2> QED
    BY <2>1, <2>2, <2>3
<1>7. CASE \/ \E i \in drawer.items : CreateUpload(i) \/ PutFile(i) \/ UploadFails(i)
           \/ \E g \in gmail : DiscardedElsewhere(g)
           \/ Reload \/ UNCHANGED vars
  <2>1. UNCHANGED <<calls, drafts, mails, serial>> /\ gmail' \subseteq gmail
    BY <1>7 DEF CreateUpload, PutFile, UploadFails, Edits, Changes, DiscardedElsewhere, Reload,
         vars
  <2> QED
    BY <1>3, <2>1
<1> QED
  BY <1>4, <1>5, <1>6, <1>7 DEF Next

\* What is sent is what the form held when it was sent, and with a new message or a
\* reply everything that was attached, whatever else fails. For a draft, as long as no
\* PATCH has overlapped another request about the same draft or stopped between Gmail
\* and the row: other forms may then update it before, between and after.
THEOREM WrittenSafe == Spec => []SentAsWritten
<1>1. Init => WInv
  <2> SUFFICES ASSUME Init PROVE WInv
    OBVIOUS
  <2>1. calls = {} /\ mails = {} /\ drafts = {[id |-> 1, origin |-> 1]}
    BY DEF Init
  <2> QED
    BY <2>1, InitTyped DEF WInv, RInv, RowsApart, InSeries, SentAsWritten
<1>2. WInv => SentAsWritten
  BY DEF WInv
<1> QED
  BY <1>1, <1>2, StepWritten, PTL DEF Spec

=============================================================================
