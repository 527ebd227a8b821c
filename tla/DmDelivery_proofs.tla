------------------------- MODULE DmDelivery_proofs -------------------------
(***************************************************************************)
(* Theorems about DmDelivery for every set of anchors, recipients and      *)
(* envelopes, every assignment of profiles and every set of faults.        *)
(***************************************************************************)
EXTENDS DmDelivery, TLAPS

-----------------------------------------------------------------------------
(* One process moves on, the others stay as they are                       *)

SubmitsTyped == submit \in [Envelopes -> SubmitProcess]
PushesTyped == push \in [Envelopes -> [Anchors -> PushProcess]]

LEMMA SubmitUpdate ==
  ASSUME SubmitsTyped, NEW e \in Envelopes, NEW p \in SubmitProcess, SubmitBecomes(e, p)
  PROVE  /\ SubmitsTyped'
         /\ submit'[e] = p
         /\ \A d \in Envelopes : d # e => submit'[d] = submit[d]
  BY DEF SubmitsTyped, SubmitBecomes

LEMMA PushUpdate ==
  ASSUME PushesTyped, NEW e \in Envelopes, NEW a \in Anchors, NEW p \in PushProcess,
         PushBecomes(e, a, p)
  PROVE  /\ PushesTyped'
         /\ push'[e][a] = p
         /\ \A d \in Envelopes, b \in Anchors : d # e \/ b # a => push'[d][b] = push[d][b]
  BY DEF PushesTyped, PushBecomes

LEMMA TypeOKParts == TypeOK => SubmitsTyped /\ PushesTyped
  BY DEF TypeOK, SubmitsTyped, PushesTyped

LEMMA TypedProcesses ==
  TypeOK => /\ \A e \in Envelopes : submit[e] \in SubmitProcess
            /\ \A e \in Envelopes, a \in Anchors : push[e][a] \in PushProcess
  BY TypeOKParts DEF SubmitsTyped, PushesTyped

-----------------------------------------------------------------------------
(* Type correctness                                                        *)

LEMMA InitTypeOK == Init => TypeOK
  BY HomeAssumption, ViewAssumption, BoundsAssumption
  DEF Init, TypeOK, States, SubmitProcess, PushProcess, Receipt, Event

LEMMA SubmitTyped ==
  ASSUME TypeOK, NEW e \in Envelopes, Submit(e)
  PROVE  TypeOK'
<1>1. [submit[e] EXCEPT !.pc = "marking", !.todo = To[e]] \in SubmitProcess
  BY ToAssumption, TypedProcesses DEF SubmitProcess
<1>2. SubmitsTyped'
  BY <1>1, SubmitUpdate, TypeOKParts DEF Submit
<1>3. QED
  BY <1>2 DEF TypeOK, SubmitsTyped, Submit, envVars, dbVars, wireVars, deviceVars

LEMMA RefuseSubmitTyped ==
  ASSUME TypeOK, NEW e \in Envelopes, RefuseSubmit(e)
  PROVE  TypeOK'
<1>1. [submit[e] EXCEPT !.pc = "rejected"] \in SubmitProcess
  BY TypedProcesses DEF SubmitProcess
<1>2. SubmitsTyped'
  BY <1>1, SubmitUpdate, TypeOKParts DEF RefuseSubmit
<1>3. QED
  BY <1>2 DEF TypeOK, SubmitsTyped, RefuseSubmit, envVars, dbVars, wireVars, deviceVars

LEMMA DeliverLocalTyped ==
  ASSUME TypeOK, NEW e \in Envelopes, DeliverLocal(e)
  PROVE  TypeOK'
<1>1. [submit[e] EXCEPT !.pc = "local", !.left = @ \ {Home},
                   !.todo = {r \in Recipients : <<Home, r>> \in targets[e]}] \in SubmitProcess
  BY TypedProcesses DEF SubmitProcess
<1>2. SubmitsTyped'
  BY <1>1, SubmitUpdate, TypeOKParts DEF DeliverLocal
<1>3. QED
  BY <1>2, HomeAssumption
  DEF TypeOK, SubmitsTyped, DeliverLocal, envVars, dbVars, wireVars, deviceVars

LEMMA PushAnsweredTyped ==
  ASSUME TypeOK, NEW e \in Envelopes, PushAnswered(e)
  PROVE  TypeOK'
<1>1. [submit[e] EXCEPT !.pc = "routing"] \in SubmitProcess
  BY TypedProcesses DEF SubmitProcess
<1>2. SubmitsTyped'
  BY <1>1, SubmitUpdate, TypeOKParts DEF PushAnswered
<1>3. QED
  BY <1>2 DEF TypeOK, SubmitsTyped, PushAnswered, envVars, dbVars, wireVars, deviceVars

LEMMA PushFailedTyped ==
  ASSUME TypeOK, NEW e \in Envelopes, PushFailed(e)
  PROVE  TypeOK'
<1>1. [submit[e] EXCEPT !.pc = "rejected"] \in SubmitProcess
  BY TypedProcesses DEF SubmitProcess
<1>2. SubmitsTyped'
  BY <1>1, SubmitUpdate, TypeOKParts DEF PushFailed
<1>3. QED
  BY <1>2 DEF TypeOK, SubmitsTyped, PushFailed, envVars, dbVars, wireVars, deviceVars

LEMMA AcceptTyped ==
  ASSUME TypeOK, NEW e \in Envelopes, Accept(e)
  PROVE  TypeOK'
<1>1. [submit[e] EXCEPT !.pc = "accepted"] \in SubmitProcess
  BY TypedProcesses DEF SubmitProcess
<1>2. SubmitsTyped'
  BY <1>1, SubmitUpdate, TypeOKParts DEF Accept
<1>3. QED
  BY <1>2 DEF TypeOK, SubmitsTyped, Accept, envVars, dbVars, wireVars, deviceVars

LEMMA SubmitFailsTyped ==
  ASSUME TypeOK, NEW e \in Envelopes, SubmitFails(e)
  PROVE  TypeOK'
<1>1. [submit[e] EXCEPT !.pc = "rejected"] \in SubmitProcess
  BY TypedProcesses DEF SubmitProcess
<1>2. SubmitsTyped'
  BY <1>1, SubmitUpdate, TypeOKParts DEF SubmitFails
<1>3. QED
  BY <1>2 DEF TypeOK, SubmitsTyped, SubmitFails, envVars, dbVars, wireVars, deviceVars

LEMMA MarkSentTyped ==
  ASSUME TypeOK, NEW e \in Envelopes, NEW r \in Recipients, MarkSent(e, r)
  PROVE  TypeOK'
<1>1. [submit[e] EXCEPT !.todo = @ \ {r}] \in SubmitProcess
  BY TypedProcesses DEF SubmitProcess
<1>2. SubmitsTyped'
  BY <1>1, SubmitUpdate, TypeOKParts DEF MarkSent
<1>3. QED
  BY <1>2
  DEF TypeOK, SubmitsTyped, MarkSent, envVars, dbVars, wireVars, deviceVars, UpsertState, States

LEMMA AppendLocalTyped ==
  ASSUME TypeOK, NEW e \in Envelopes, NEW r \in Recipients, AppendLocal(e, r)
  PROVE  TypeOK'
<1>1. [submit[e] EXCEPT !.todo = @ \ {r},
                   !.pc = IF submit[e].todo = {r} THEN "routing" ELSE "local"] \in SubmitProcess
  BY TypedProcesses DEF SubmitProcess
<1>2. SubmitsTyped'
  BY <1>1, SubmitUpdate, TypeOKParts DEF AppendLocal
<1>3. QED
  BY <1>2, HomeAssumption
  DEF TypeOK, SubmitsTyped, AppendLocal, envVars, dbVars, wireVars, deviceVars, AppendInbox

LEMMA ReceivePushTyped ==
  ASSUME TypeOK, NEW e \in Envelopes, NEW a \in Anchors, ReceivePush(e, a)
  PROVE  TypeOK'
<1>1. [pc |-> "appending", todo |-> To[e], acks |-> {}] \in PushProcess
  BY ToAssumption, TypedProcesses DEF PushProcess
<1>2. PushesTyped'
  BY <1>1, PushUpdate, TypeOKParts DEF ReceivePush
<1>3. QED
  BY <1>2 DEF TypeOK, PushesTyped, ReceivePush, envVars, dbVars, wireVars, deviceVars

LEMMA RefusePushTyped ==
  ASSUME TypeOK, NEW e \in Envelopes, NEW a \in Anchors, RefusePush(e, a)
  PROVE  TypeOK'
<1>1. [push[e][a] EXCEPT !.pc = "error"] \in PushProcess
  BY TypedProcesses DEF PushProcess
<1>2. PushesTyped'
  BY <1>1, PushUpdate, TypeOKParts DEF RefusePush
<1>3. QED
  BY <1>2 DEF TypeOK, PushesTyped, RefusePush, envVars, dbVars, wireVars, deviceVars

LEMMA AnswerPushTyped ==
  ASSUME TypeOK, NEW e \in Envelopes, NEW a \in Anchors, AnswerPush(e, a)
  PROVE  TypeOK'
<1>1. [push[e][a] EXCEPT !.pc = "ok"] \in PushProcess
  BY TypedProcesses DEF PushProcess
<1>2. PushesTyped'
  BY <1>1, PushUpdate, TypeOKParts DEF AnswerPush
<1>3. QED
  BY <1>2 DEF TypeOK, PushesTyped, AnswerPush, envVars, dbVars, wireVars, deviceVars

LEMMA AppendFailsTyped ==
  ASSUME TypeOK, NEW e \in Envelopes, NEW a \in Anchors, AppendFails(e, a)
  PROVE  TypeOK'
<1>1. [pc |-> "error", todo |-> {}, acks |-> {}] \in PushProcess
  BY TypedProcesses DEF PushProcess
<1>2. PushesTyped'
  BY <1>1, PushUpdate, TypeOKParts DEF AppendFails
<1>3. QED
  BY <1>2 DEF TypeOK, PushesTyped, AppendFails, envVars, dbVars, wireVars, deviceVars

LEMMA AppendRecipientTyped ==
  ASSUME TypeOK, NEW e \in Envelopes, NEW a \in Anchors, NEW r \in Recipients, AppendRecipient(e, a, r)
  PROVE  TypeOK'
<1>1. [push[e][a] EXCEPT !.todo = @ \ {r}, !.acks = @ \cup {r}] \in PushProcess
  BY TypedProcesses DEF PushProcess
<1>2. PushesTyped'
  BY <1>1, PushUpdate, TypeOKParts DEF AppendRecipient
<1>3. QED
  BY <1>2
  DEF TypeOK, PushesTyped, AppendRecipient, envVars, dbVars, wireVars, deviceVars, AppendInbox

LEMMA SkipRecipientTyped ==
  ASSUME TypeOK, NEW e \in Envelopes, NEW a \in Anchors, NEW r \in Recipients, SkipRecipient(e, a, r)
  PROVE  TypeOK'
<1>1. [push[e][a] EXCEPT !.todo = @ \ {r}] \in PushProcess
  BY TypedProcesses DEF PushProcess
<1>2. PushesTyped'
  BY <1>1, PushUpdate, TypeOKParts DEF SkipRecipient
<1>3. skipped' \in [Envelopes -> [Anchors -> SUBSET Recipients]]
  <2>1. skipped \in [Envelopes -> [Anchors -> SUBSET Recipients]]
    BY DEF TypeOK
  <2>2. QED
    BY <2>1 DEF SkipRecipient
<1>4. QED
  BY <1>2, <1>3
  DEF TypeOK, PushesTyped, SkipRecipient, envVars, dbVars, wireVars, deviceVars

LEMMA PushAckTyped ==
  ASSUME TypeOK, NEW e \in Envelopes, NEW a \in Anchors, NEW r \in Recipients, PushAck(e, a, r)
  PROVE  TypeOK'
<1>1. [push[e][a] EXCEPT !.acks = @ \ {r}] \in PushProcess
  BY TypedProcesses DEF PushProcess
<1>2. PushesTyped'
  BY <1>1, PushUpdate, TypeOKParts DEF PushAck
<1>3. QED
  BY <1>2 DEF TypeOK, PushesTyped, PushAck, envVars, dbVars, wireVars, deviceVars, Receipt

LEMMA RouteTyped ==
  ASSUME TypeOK, NEW e \in Envelopes, Route(e)
  PROVE  TypeOK'
<1> DEFINE pairs == {p \in Anchors \X To[e] : p[1] \in view[Home][p[2]]}
           next == [submit[e] EXCEPT !.pc = IF pairs = {} THEN "rejected" ELSE "routing",
                                     !.left = {p[1] : p \in pairs}]
<1>1. pairs \in SUBSET (Anchors \X Recipients) /\ {p[1] : p \in pairs} \in SUBSET Anchors
  BY ToAssumption
<1>2. next \in SubmitProcess
  BY <1>1, TypedProcesses DEF SubmitProcess
<1>3. SubmitsTyped'
  BY <1>2, SubmitUpdate, TypeOKParts DEF Route
<1>4. QED
  BY <1>1, <1>3 DEF TypeOK, SubmitsTyped, Route, envVars, dbVars, wireVars, deviceVars

LEMMA DeliverRemoteTyped ==
  ASSUME TypeOK, NEW e \in Envelopes, NEW a \in Anchors, DeliverRemote(e, a)
  PROVE  TypeOK'
<1>1. [submit[e] EXCEPT !.pc = "remote", !.at = a, !.left = @ \ {a}] \in SubmitProcess
  BY TypedProcesses DEF SubmitProcess
<1>2. [push[e][a] EXCEPT !.pc = "inflight"] \in PushProcess
  BY TypedProcesses DEF PushProcess
<1>3. SubmitsTyped' /\ PushesTyped'
  BY <1>1, <1>2, SubmitUpdate, PushUpdate, TypeOKParts DEF DeliverRemote
<1>4. QED
  BY <1>3
  DEF TypeOK, SubmitsTyped, PushesTyped, DeliverRemote, envVars, dbVars, wireVars, deviceVars

LEMMA RestartTyped ==
  ASSUME TypeOK, NEW a \in Anchors, Restart(a)
  PROVE  TypeOK'
<1>1. SubmitsTyped'
  <2>1. \A e \in Envelopes : [submit[e] EXCEPT !.pc = "rejected"] \in SubmitProcess
    BY TypedProcesses DEF SubmitProcess
  <2>2. QED
    BY <2>1, TypeOKParts DEF SubmitsTyped, Restart
<1>2. PushesTyped'
  <2>1. [pc |-> "error", todo |-> {}, acks |-> {}] \in PushProcess
    BY DEF PushProcess
  <2>2. QED
    BY <2>1, TypeOKParts DEF PushesTyped, Restart
<1>3. QED
  BY <1>1, <1>2, BoundsAssumption
  DEF TypeOK, SubmitsTyped, PushesTyped, Restart, envVars, dbVars, wireVars, deviceVars

LEMMA ReceiptTyped ==
  ASSUME TypeOK, NEW e \in Envelopes, NEW a \in Anchors, NEW r \in Recipients,
         HandleAck(e, r, a) \/ HandleMarker(e, r, a)
  PROVE  TypeOK'
<1>1. PICK s \in {"delivered", "read"} :
        ApplyReceipt(e, r, a, s) \/ UNCHANGED <<dstate, events>>
  BY DEF HandleAck, HandleMarker
<1>2. dstate' \in [Envelopes -> [Recipients -> States]]
  <2>1. dstate \in [Envelopes -> [Recipients -> States]]
    BY DEF TypeOK
  <2>2. dstate' = dstate \/ UpsertState(e, r, s)
    BY <1>1 DEF ApplyReceipt
  <2>3. QED
    BY <2>1, <2>2 DEF UpsertState, States
<1>3. events' \subseteq Event
  BY <1>1 DEF TypeOK, ApplyReceipt, Publish, Event
<1>4. QED
  BY <1>2, <1>3 DEF TypeOK, HandleAck, HandleMarker, envVars, dbVars, wireVars, deviceVars

(* The remaining actions touch neither process.                            *)
LEMMA OtherTyped ==
  ASSUME TypeOK,
         \/ \E e \in Envelopes, a \in Anchors, r \in Recipients :
              \/ ReadOnDevice(e, a, r)
              \/ \E s \in {"delivered", "read"} : ShowState(e, r, a, s)
         \/ LoseReceipt
         \/ \E a \in Anchors, r \in Recipients, list \in AnchorLists : Move(a, r, list)
         \/ UNCHANGED vars
  PROVE  TypeOK'
<1>1. ASSUME NEW e \in Envelopes, NEW a \in Anchors, NEW r \in Recipients, ReadOnDevice(e, a, r)
      PROVE  TypeOK'
  BY <1>1 DEF TypeOK, ReadOnDevice, Receipt, envVars, dbVars
<1>2. ASSUME NEW e \in Envelopes, NEW a \in Anchors, NEW r \in Recipients,
             NEW s \in {"delivered", "read"}, ShowState(e, r, a, s)
      PROVE  TypeOK'
  BY <1>2 DEF TypeOK, ShowState, States, envVars, dbVars
<1>3. CASE LoseReceipt
  BY <1>3 DEF TypeOK, LoseReceipt, envVars, dbVars, deviceVars
<1>4. ASSUME NEW a \in Anchors, NEW r \in Recipients, NEW list \in AnchorLists, Move(a, r, list)
      PROVE  TypeOK'
  BY <1>4, BoundsAssumption DEF TypeOK, Move, dbVars, wireVars, deviceVars
<1>5. CASE UNCHANGED vars
  BY <1>5 DEF TypeOK, vars
<1>6. QED
  BY <1>1, <1>2, <1>3, <1>4, <1>5

LEMMA NextTypeOK == TypeOK /\ [Next]_vars => TypeOK'
<1> SUFFICES ASSUME TypeOK, [Next]_vars PROVE TypeOK' OBVIOUS
<1>1. ASSUME NEW e \in Envelopes,
             Submit(e) \/ RefuseSubmit(e) \/ SubmitStep(e) \/ SubmitFails(e)
      PROVE  TypeOK'
  BY <1>1, SubmitTyped, RefuseSubmitTyped, DeliverLocalTyped, PushAnsweredTyped, PushFailedTyped,
     AcceptTyped, SubmitFailsTyped, MarkSentTyped, AppendLocalTyped, RouteTyped, DeliverRemoteTyped
     DEF SubmitStep
<1>2. ASSUME NEW e \in Envelopes, NEW a \in Anchors,
             PushStep(e, a) \/ RefusePush(e, a) \/ AppendFails(e, a)
      PROVE  TypeOK'
  BY <1>2, ReceivePushTyped, RefusePushTyped, AnswerPushTyped, AppendFailsTyped,
     AppendRecipientTyped, SkipRecipientTyped, PushAckTyped DEF PushStep
<1>3. QED
  BY <1>1, <1>2, ReceiptTyped, RestartTyped, OtherTyped DEF Next

(* Type correctness of every reachable state.                              *)
THEOREM TypeCorrect == Spec => []TypeOK
  BY InitTypeOK, NextTypeOK, PTL DEF Spec

-----------------------------------------------------------------------------
(* Evidence: what is reported happened.  The invariant follows a report     *)
(* back to its cause: the screen to a broadcast, the broadcast and the row  *)
(* to a receipt, an ack to an append, a marker to a device that shared it.  *)

Consented(e, r) ==
  /\ r \in Receipts[Home]
  /\ \E a \in Anchors : r \in Receipts[a] /\ e \in seen[a][r]

Truthful(e, r, s) ==
  /\ s \in {"delivered", "read"} => Stored(e, r)
  /\ s = "read" => Consented(e, r)

SeenIsStored ==
  \A a \in Anchors, r \in Recipients : seen[a][r] \subseteq inbox[a][r]

AcksAreTrue ==
  /\ \A m \in acks : m[1] \in inbox[m[3]][m[2]]
  /\ \A e \in Envelopes, a \in Anchors : \A r \in push[e][a].acks : e \in inbox[a][r]

MarkersAreTrue ==
  \A m \in markers : m[2] \in Receipts[m[3]] /\ m[1] \in seen[m[3]][m[2]]

ReportsAreTrue ==
  /\ \A e \in Envelopes, r \in Recipients :
       Truthful(e, r, dstate[e][r]) /\ Truthful(e, r, shown[e][r])
  /\ \A m \in events : Truthful(m[1], m[2], m[4])

Evidence == SeenIsStored /\ AcksAreTrue /\ MarkersAreTrue /\ ReportsAreTrue

evidenceVars == <<inbox, seen, acks, markers, dstate, shown, events>>

AcksShrink ==
  \A e \in Envelopes, a \in Anchors : push'[e][a].acks \subseteq push[e][a].acks

LEMMA EvidenceInit == Init => Evidence
  BY HomeAssumption DEF Init, Evidence, SeenIsStored, AcksAreTrue, MarkersAreTrue, ReportsAreTrue,
     Truthful, Consented, Stored

(* A true report stays true, for inboxes and read envelopes only grow.     *)
LEMMA TruthfulStable ==
  ASSUME NEW e \in Envelopes, NEW r \in Recipients, NEW s, Truthful(e, r, s),
         \A a \in Anchors : inbox[a][r] \subseteq inbox'[a][r] /\ seen[a][r] \subseteq seen'[a][r]
  PROVE  Truthful(e, r, s)'
  BY DEF Truthful, Consented, Stored

LEMMA EvidenceKept ==
  ASSUME Evidence, UNCHANGED evidenceVars, AcksShrink
  PROVE  Evidence'
<1>1. SeenIsStored' /\ MarkersAreTrue'
  BY DEF Evidence, SeenIsStored, MarkersAreTrue, evidenceVars
<1>2. AcksAreTrue'
  BY DEF Evidence, AcksAreTrue, AcksShrink, evidenceVars
<1>3. ReportsAreTrue'
  BY DEF Evidence, ReportsAreTrue, Truthful, Consented, Stored, evidenceVars
<1>4. QED
  BY <1>1, <1>2, <1>3 DEF Evidence

(* The actions that report, store or read nothing.                         *)
QuietStep ==
  \/ \E e \in Envelopes :
       \/ Submit(e) \/ RefuseSubmit(e) \/ Route(e) \/ DeliverLocal(e) \/ PushAnswered(e)
       \/ PushFailed(e) \/ Accept(e) \/ SubmitFails(e)
       \/ \E a \in Anchors :
            \/ DeliverRemote(e, a) \/ ReceivePush(e, a) \/ RefusePush(e, a)
            \/ AnswerPush(e, a) \/ AppendFails(e, a)
            \/ \E r \in Recipients : SkipRecipient(e, a, r)
  \/ \E a \in Anchors, r \in Recipients, list \in AnchorLists : Move(a, r, list)
  \/ UNCHANGED vars

LEMMA QuietEvidence == ASSUME TypeOK, Evidence, QuietStep PROVE Evidence'
<1>1. UNCHANGED evidenceVars
  <2> USE DEF evidenceVars, envVars, dbVars, wireVars, deviceVars
  <2>1. ASSUME NEW e \in Envelopes,
               \/ Submit(e) \/ RefuseSubmit(e) \/ Route(e) \/ DeliverLocal(e) \/ PushAnswered(e)
               \/ PushFailed(e) \/ Accept(e) \/ SubmitFails(e)
        PROVE  UNCHANGED evidenceVars
    BY <2>1 DEF Submit, RefuseSubmit, Route, DeliverLocal, PushAnswered, PushFailed, Accept,
       SubmitFails
  <2>2. ASSUME NEW e \in Envelopes, NEW a \in Anchors,
               \/ DeliverRemote(e, a) \/ ReceivePush(e, a) \/ RefusePush(e, a)
               \/ AnswerPush(e, a) \/ AppendFails(e, a)
               \/ \E r \in Recipients : SkipRecipient(e, a, r)
        PROVE  UNCHANGED evidenceVars
    BY <2>2 DEF DeliverRemote, ReceivePush, RefusePush, AnswerPush, AppendFails, SkipRecipient
  <2>3. ASSUME NEW a \in Anchors, NEW r \in Recipients, NEW list \in AnchorLists, Move(a, r, list)
        PROVE  UNCHANGED evidenceVars
    BY <2>3 DEF Move
  <2>4. ASSUME UNCHANGED vars PROVE UNCHANGED evidenceVars
    BY <2>4 DEF vars
  <2>5. QED
    BY <2>1, <2>2, <2>3, <2>4 DEF QuietStep
<1>2. AcksShrink
  <2>1. ASSUME NEW e \in Envelopes, NEW a \in Anchors,
               \/ DeliverRemote(e, a) \/ ReceivePush(e, a) \/ RefusePush(e, a)
               \/ AnswerPush(e, a) \/ AppendFails(e, a)
               \/ \E r \in Recipients : SkipRecipient(e, a, r)
        PROVE  AcksShrink
    <3>1. PICK p \in PushProcess : PushBecomes(e, a, p) /\ p.acks \subseteq push[e][a].acks
      <4>1. push[e][a] \in PushProcess
        BY TypedProcesses
      <4>2. CASE DeliverRemote(e, a)
        BY <4>1, <4>2 DEF DeliverRemote, PushProcess
      <4>3. CASE ReceivePush(e, a)
        BY <4>1, <4>3, ToAssumption DEF ReceivePush, PushProcess
      <4>4. CASE RefusePush(e, a)
        BY <4>1, <4>4 DEF RefusePush, PushProcess
      <4>5. CASE AnswerPush(e, a)
        BY <4>1, <4>5 DEF AnswerPush, PushProcess
      <4>6. CASE AppendFails(e, a)
        BY <4>1, <4>6 DEF AppendFails, PushProcess
      <4>7. ASSUME NEW r \in Recipients, SkipRecipient(e, a, r)
            PROVE  \E p \in PushProcess : PushBecomes(e, a, p) /\ p.acks \subseteq push[e][a].acks
        <5>1. [push[e][a] EXCEPT !.todo = @ \ {r}] \in PushProcess
          BY <4>1 DEF PushProcess
        <5>2. [push[e][a] EXCEPT !.todo = @ \ {r}].acks = push[e][a].acks
          BY <4>1 DEF PushProcess
        <5>3. QED
          BY <4>7, <5>1, <5>2 DEF SkipRecipient
      <4>8. QED
        BY <2>1, <4>2, <4>3, <4>4, <4>5, <4>6, <4>7
    <3>2. QED
      BY <3>1, PushUpdate, TypeOKParts DEF AcksShrink
  <2>2. ASSUME UNCHANGED push PROVE AcksShrink
    BY <2>2 DEF AcksShrink
  <2>3. QED
    BY <2>1, <2>2 DEF QuietStep, vars, Submit, RefuseSubmit, Route, DeliverLocal, PushAnswered,
       PushFailed, Accept, SubmitFails, Move
<1>3. QED
  BY <1>1, <1>2, EvidenceKept

(* An append makes an inbox grow by one envelope and touches nothing else. *)
LEMMA AppendGrows ==
  ASSUME TypeOK, NEW a \in Anchors, NEW r \in Recipients, NEW e \in Envelopes, AppendInbox(a, r, e)
  PROVE  /\ e \in inbox'[a][r]
         /\ \A b \in Anchors, s \in Recipients : inbox[b][s] \subseteq inbox'[b][s]
         /\ \A b \in Anchors, s \in Recipients : inbox'[b][s] \subseteq inbox[b][s] \cup {e}
<1>1. inbox \in [Anchors -> [Recipients -> SUBSET Envelopes]]
  BY DEF TypeOK
<1>2. QED
  BY <1>1 DEF AppendInbox

(* Evidence survives any step that lets the inboxes grow and reports       *)
(* nothing, if new acks are of what is now stored.                         *)
LEMMA GrowEvidence ==
  ASSUME TypeOK, Evidence, UNCHANGED <<seen, acks, markers, dstate, shown, events>>,
         \A b \in Anchors, s \in Recipients : inbox[b][s] \subseteq inbox'[b][s],
         \A d \in Envelopes, b \in Anchors : \A s \in push'[d][b].acks :
           s \in push[d][b].acks \/ (s \in Recipients /\ d \in inbox'[b][s])
  PROVE  Evidence'
<1>0. /\ acks \subseteq Receipt /\ events \subseteq Event
      /\ \A d \in Envelopes, b \in Anchors : push[d][b].acks \subseteq Recipients
  BY TypedProcesses DEF TypeOK, PushProcess
<1>1. SeenIsStored'
  BY DEF Evidence, SeenIsStored
<1>2. AcksAreTrue'
  BY <1>0 DEF Evidence, AcksAreTrue, Receipt
<1>3. MarkersAreTrue'
  BY DEF Evidence, MarkersAreTrue
<1>4. ReportsAreTrue'
  <2>1. ASSUME NEW d \in Envelopes, NEW s \in Recipients, NEW x, Truthful(d, s, x)
        PROVE  Truthful(d, s, x)'
    BY <2>1, TruthfulStable
  <2>2. \A d \in Envelopes, s \in Recipients :
          Truthful(d, s, dstate[d][s])' /\ Truthful(d, s, shown[d][s])'
    BY <2>1 DEF Evidence, ReportsAreTrue
  <2>3. \A m \in events : Truthful(m[1], m[2], m[4])'
    BY <1>0, <2>1 DEF Evidence, ReportsAreTrue, Event
  <2>4. QED
    BY <2>2, <2>3 DEF ReportsAreTrue
<1>5. QED
  BY <1>1, <1>2, <1>3, <1>4 DEF Evidence

LEMMA AppendLocalEvidence ==
  ASSUME TypeOK, Evidence, NEW e \in Envelopes, NEW r \in Recipients, AppendLocal(e, r)
  PROVE  Evidence'
  BY HomeAssumption, AppendGrows, GrowEvidence DEF AppendLocal, wireVars, deviceVars

LEMMA AppendRecipientEvidence ==
  ASSUME TypeOK, Evidence, NEW e \in Envelopes, NEW a \in Anchors, NEW r \in Recipients,
         AppendRecipient(e, a, r)
  PROVE  Evidence'
<1> DEFINE next == [push[e][a] EXCEPT !.todo = @ \ {r}, !.acks = @ \cup {r}]
<1>1. next \in PushProcess /\ next.acks = push[e][a].acks \cup {r}
  BY TypedProcesses DEF PushProcess
<1>2. PushBecomes(e, a, next)
  BY DEF AppendRecipient
<1> HIDE DEF next
<1>3. /\ push'[e][a].acks = push[e][a].acks \cup {r}
      /\ \A d \in Envelopes, b \in Anchors : d # e \/ b # a => push'[d][b] = push[d][b]
  BY <1>1, <1>2, PushUpdate, TypeOKParts
<1>4. /\ e \in inbox'[a][r]
      /\ \A b \in Anchors, s \in Recipients : inbox[b][s] \subseteq inbox'[b][s]
  BY AppendGrows DEF AppendRecipient
<1>5. \A d \in Envelopes, b \in Anchors : \A s \in push'[d][b].acks :
        s \in push[d][b].acks \/ (s \in Recipients /\ d \in inbox'[b][s])
  BY <1>3, <1>4
<1>6. QED
  BY <1>4, <1>5, GrowEvidence DEF AppendRecipient, wireVars, deviceVars

LEMMA PushAckEvidence ==
  ASSUME TypeOK, Evidence, NEW e \in Envelopes, NEW a \in Anchors, NEW r \in Recipients,
         PushAck(e, a, r)
  PROVE  Evidence'
<1> DEFINE next == [push[e][a] EXCEPT !.acks = @ \ {r}]
<1>1. next \in PushProcess /\ next.acks \subseteq push[e][a].acks
  BY TypedProcesses DEF PushProcess
<1>2. AcksShrink
  <2>1. PushBecomes(e, a, next)
    BY DEF PushAck
  <2> HIDE DEF next
  <2>2. QED
    BY <1>1, <2>1, PushUpdate, TypeOKParts DEF AcksShrink
<1>3. AcksAreTrue'
  <2>1. acks' = acks \cup {<<e, r, a>>} /\ inbox' = inbox /\ e \in inbox[a][r]
    BY DEF PushAck, Evidence, AcksAreTrue, dbVars
  <2>2. QED
    BY <1>2, <2>1 DEF Evidence, AcksAreTrue, AcksShrink
<1>4. SeenIsStored' /\ MarkersAreTrue'
  BY DEF Evidence, SeenIsStored, MarkersAreTrue, PushAck, dbVars, deviceVars
<1>5. ReportsAreTrue'
  BY DEF Evidence, ReportsAreTrue, Truthful, Consented, Stored, PushAck, dbVars, deviceVars
<1>6. QED
  BY <1>3, <1>4, <1>5 DEF Evidence

LEMMA MarkSentEvidence ==
  ASSUME TypeOK, Evidence, NEW e \in Envelopes, NEW r \in Recipients, MarkSent(e, r)
  PROVE  Evidence'
<1>1. UNCHANGED <<inbox, seen, acks, markers, shown, events, push>>
  BY DEF MarkSent, wireVars, deviceVars
<1>2. SeenIsStored' /\ MarkersAreTrue' /\ AcksAreTrue'
  BY <1>1 DEF Evidence, SeenIsStored, MarkersAreTrue, AcksAreTrue
<1>3. \A d \in Envelopes, s \in Recipients :
        dstate'[d][s] = dstate[d][s] \/ dstate'[d][s] = "sent"
  <2>1. dstate \in [Envelopes -> [Recipients -> States]]
    BY DEF TypeOK
  <2>2. QED
    BY <2>1 DEF MarkSent, UpsertState
<1>4. ReportsAreTrue'
  BY <1>1, <1>3 DEF Evidence, ReportsAreTrue, Truthful, Consented, Stored
<1>5. QED
  BY <1>2, <1>4 DEF Evidence

LEMMA ReadOnDeviceEvidence ==
  ASSUME TypeOK, Evidence, NEW e \in Envelopes, NEW a \in Anchors, NEW r \in Recipients,
         ReadOnDevice(e, a, r)
  PROVE  Evidence'
<1>1. UNCHANGED <<inbox, acks, dstate, shown, events, push>> /\ e \in inbox[a][r]
  BY DEF ReadOnDevice, dbVars
<1>2. /\ e \in seen'[a][r]
      /\ \A b \in Anchors, s \in Recipients : seen[b][s] \subseteq seen'[b][s]
      /\ \A b \in Anchors, s \in Recipients :
           seen'[b][s] = seen[b][s] \/ (b = a /\ s = r /\ seen'[b][s] = seen[b][s] \cup {e})
  <2>1. seen \in [Anchors -> [Recipients -> SUBSET Envelopes]]
    BY DEF TypeOK
  <2>2. QED
    BY <2>1 DEF ReadOnDevice
<1>3. SeenIsStored'
  BY <1>1, <1>2 DEF Evidence, SeenIsStored
<1>4. AcksAreTrue'
  BY <1>1 DEF Evidence, AcksAreTrue
<1>5. MarkersAreTrue'
  <2>1. markers \subseteq Receipt
    BY DEF TypeOK
  <2>2. markers' = markers \/ (r \in Receipts[a] /\ markers' = markers \cup {<<e, r, a>>})
    BY DEF ReadOnDevice
  <2>3. QED
    BY <1>2, <2>1, <2>2 DEF Evidence, MarkersAreTrue, Receipt
<1>6. ReportsAreTrue'
  <2>1. ASSUME NEW d \in Envelopes, NEW s \in Recipients, NEW x, Truthful(d, s, x)
        PROVE  Truthful(d, s, x)'
    BY <1>1, <1>2, <2>1, TruthfulStable
  <2>2. events \subseteq Event
    BY DEF TypeOK
  <2>3. QED
    BY <1>1, <2>1, <2>2 DEF Evidence, ReportsAreTrue, Event
<1>7. QED
  BY <1>3, <1>4, <1>5, <1>6 DEF Evidence

LEMMA HandleEvidence ==
  ASSUME TypeOK, Evidence, NEW e \in Envelopes, NEW a \in Anchors, NEW r \in Recipients,
         HandleAck(e, r, a) \/ HandleMarker(e, r, a)
  PROVE  Evidence'
<1>1. UNCHANGED <<inbox, seen, shown, push>> /\ acks' \subseteq acks /\ markers' \subseteq markers
  BY DEF HandleAck, HandleMarker, deviceVars
<1>2. SeenIsStored' /\ AcksAreTrue' /\ MarkersAreTrue'
  BY <1>1 DEF Evidence, SeenIsStored, AcksAreTrue, MarkersAreTrue
<1>3. PICK s \in {"delivered", "read"} :
        /\ ApplyReceipt(e, r, a, s) \/ UNCHANGED <<dstate, events>>
        /\ Truthful(e, r, s)
  <2>1. CASE HandleAck(e, r, a)
    <3>1. Truthful(e, r, "delivered")
      BY <2>1 DEF HandleAck, Evidence, AcksAreTrue, Truthful, Stored
    <3>2. QED
      BY <2>1, <3>1 DEF HandleAck
  <2>2. CASE HandleMarker(e, r, a) /\ r \in Receipts[Home]
    <3>1. r \in Receipts[a] /\ e \in seen[a][r] /\ e \in inbox[a][r]
      BY <2>2 DEF HandleMarker, Evidence, MarkersAreTrue, SeenIsStored
    <3>2. Truthful(e, r, "read")
      BY <2>2, <3>1 DEF Truthful, Stored, Consented
    <3>3. QED
      BY <2>2, <3>2 DEF HandleMarker
  <2>3. CASE HandleMarker(e, r, a) /\ r \notin Receipts[Home]
    <3>1. UNCHANGED <<dstate, events>>
      BY <2>3 DEF HandleMarker
    <3>2. <<e, r, a>> \in markers
      BY <2>3 DEF HandleMarker
    <3>3. e \in inbox[a][r]
      BY <3>2 DEF Evidence, MarkersAreTrue, SeenIsStored
    <3>4. Truthful(e, r, "delivered")
      BY <3>3 DEF Truthful, Stored
    <3>5. QED
      BY <3>1, <3>4
  <2>4. QED
    BY <2>1, <2>2, <2>3
<1>4. \A d \in Envelopes, t \in Recipients :
        dstate'[d][t] = dstate[d][t] \/ (d = e /\ t = r /\ dstate'[d][t] = s)
  <2>1. dstate \in [Envelopes -> [Recipients -> States]]
    BY DEF TypeOK
  <2>2. dstate' = dstate \/ UpsertState(e, r, s)
    BY <1>3 DEF ApplyReceipt
  <2>3. QED
    BY <2>1, <2>2 DEF UpsertState
<1>5. events' \subseteq events \cup {<<e, r, a, s>>}
  BY <1>3 DEF ApplyReceipt, Publish
<1>6. ReportsAreTrue'
  <2>1. \A d \in Envelopes, t \in Recipients, x \in States \cup {s} :
          Truthful(d, t, x) => Truthful(d, t, x)'
    BY <1>1 DEF Truthful, Consented, Stored
  <2>2. events \subseteq Event /\ dstate \in [Envelopes -> [Recipients -> States]]
        /\ shown \in [Envelopes -> [Recipients -> States]]
    BY DEF TypeOK
  <2>3. \A d \in Envelopes, t \in Recipients :
          Truthful(d, t, dstate[d][t])' /\ Truthful(d, t, shown[d][t])'
    BY <1>1, <1>3, <1>4, <2>1, <2>2 DEF Evidence, ReportsAreTrue
  <2>4. \A m \in events' : Truthful(m[1], m[2], m[4])'
    BY <1>3, <1>5, <2>1, <2>2 DEF Evidence, ReportsAreTrue, Event, States
  <2>5. QED
    BY <2>3, <2>4 DEF ReportsAreTrue
<1>7. QED
  BY <1>2, <1>6 DEF Evidence

LEMMA LoseEvidence == ASSUME TypeOK, Evidence, LoseReceipt PROVE Evidence'
<1>1. /\ UNCHANGED <<inbox, seen, dstate, shown, push>>
      /\ acks' \subseteq acks /\ markers' \subseteq markers /\ events' \subseteq events
  BY DEF LoseReceipt, dbVars, deviceVars
<1>2. QED
  BY <1>1 DEF Evidence, SeenIsStored, AcksAreTrue, MarkersAreTrue, ReportsAreTrue, Truthful,
     Consented, Stored

LEMMA ShowEvidence ==
  ASSUME TypeOK, Evidence, NEW e \in Envelopes, NEW a \in Anchors, NEW r \in Recipients,
         NEW s \in {"delivered", "read"}, ShowState(e, r, a, s)
  PROVE  Evidence'
<1>1. UNCHANGED <<inbox, seen, dstate, acks, markers, push>> /\ events' \subseteq events
  BY DEF ShowState, dbVars
<1>2. SeenIsStored' /\ AcksAreTrue' /\ MarkersAreTrue'
  BY <1>1 DEF Evidence, SeenIsStored, AcksAreTrue, MarkersAreTrue
<1>3. Truthful(e, r, s)
  BY DEF ShowState, Evidence, ReportsAreTrue
<1>4. \A d \in Envelopes, t \in Recipients :
        shown'[d][t] = shown[d][t] \/ (d = e /\ t = r /\ shown'[d][t] = s)
  <2>1. shown \in [Envelopes -> [Recipients -> States]]
    BY DEF TypeOK
  <2>2. QED
    BY <2>1 DEF ShowState
<1>5. ReportsAreTrue'
  BY <1>1, <1>3, <1>4 DEF Evidence, ReportsAreTrue, Truthful, Consented, Stored
<1>6. QED
  BY <1>2, <1>5 DEF Evidence

LEMMA RestartEvidence == ASSUME TypeOK, Evidence, NEW a \in Anchors, Restart(a) PROVE Evidence'
<1>1. /\ UNCHANGED <<inbox, seen, dstate, acks, markers, shown>>
      /\ events' \subseteq events
  BY DEF Restart, dbVars, deviceVars
<1>2. AcksShrink
  <2>1. push \in [Envelopes -> [Anchors -> PushProcess]]
    BY DEF TypeOK
  <2>2. QED
    BY <2>1 DEF Restart, AcksShrink, PushProcess
<1>3. QED
  BY <1>1, <1>2 DEF Evidence, SeenIsStored, AcksAreTrue, MarkersAreTrue, ReportsAreTrue, Truthful,
     Consented, Stored, AcksShrink

LEMMA EvidenceNext == TypeOK /\ Evidence /\ [Next]_vars => Evidence'
<1> SUFFICES ASSUME TypeOK, Evidence, [Next]_vars PROVE Evidence' OBVIOUS
<1>1. ASSUME NEW e \in Envelopes,
             Submit(e) \/ RefuseSubmit(e) \/ SubmitStep(e) \/ SubmitFails(e)
      PROVE  Evidence'
  <2>1. QuietStep \/ (\E r \in Recipients : MarkSent(e, r) \/ AppendLocal(e, r))
    BY <1>1 DEF SubmitStep, QuietStep
  <2>2. QED
    BY <2>1, QuietEvidence, MarkSentEvidence, AppendLocalEvidence
<1>2. ASSUME NEW e \in Envelopes, NEW a \in Anchors,
             PushStep(e, a) \/ RefusePush(e, a) \/ AppendFails(e, a)
      PROVE  Evidence'
  <2>1. QuietStep \/ (\E r \in Recipients : AppendRecipient(e, a, r) \/ PushAck(e, a, r))
    BY <1>2 DEF PushStep, QuietStep
  <2>2. QED
    BY <2>1, QuietEvidence, AppendRecipientEvidence, PushAckEvidence
<1>3. ASSUME (\E a \in Anchors, r \in Recipients, list \in AnchorLists : Move(a, r, list))
             \/ UNCHANGED vars
      PROVE  Evidence'
  BY <1>3, QuietEvidence DEF QuietStep
<1>4. QED
  BY <1>1, <1>2, <1>3, ReadOnDeviceEvidence, HandleEvidence, LoseEvidence, ShowEvidence,
     RestartEvidence DEF Next

THEOREM EvidenceAlways == Spec => []Evidence
<1>1. Spec => []TypeOK
  BY TypeCorrect
<1>2. QED
  BY <1>1, EvidenceInit, EvidenceNext, PTL DEF Spec

(* Nothing counts as delivered or read, in the sender's database, on the   *)
(* wire or on the sender's screen, unless an anchor of that recipient has  *)
(* stored the envelope.                                                    *)
THEOREM DeliveredStored == Spec => []DeliveredIsStored
<1>1. Evidence => DeliveredIsStored
  BY DEF Evidence, SeenIsStored, AcksAreTrue, MarkersAreTrue, ReportsAreTrue, Truthful, Stored,
     DeliveredIsStored
<1>2. QED
  BY <1>1, EvidenceAlways, PTL

(* "read" is reported only of what a device of the recipient has read,     *)
(* with consent at its anchor and at the sender's.                         *)
THEOREM ReadConsented == Spec => []ReadIsConsented
<1>1. Evidence => ReadIsConsented
  BY DEF Evidence, ReportsAreTrue, Truthful, Consented, ReadIsConsented
<1>2. QED
  BY <1>1, EvidenceAlways, PTL

-----------------------------------------------------------------------------
(* Rows: mark_sent comes before everything else that happens to an         *)
(* envelope.                                                               *)

RowsWritten(e) == \A r \in To[e] : dstate[e][r] # "none"

RowsOf(e) ==
  /\ targets[e] \subseteq Anchors \X To[e]
  /\ submit[e].todo \subseteq To[e]
  /\ submit[e].pc = "idle" => \A r \in Recipients : dstate[e][r] = "none"
  /\ submit[e].pc = "marking" =>
       \A r \in To[e] : r \in submit[e].todo <=> dstate[e][r] = "none"
  /\ submit[e].pc \in {"routing", "local", "remote", "accepted"} => RowsWritten(e)
  /\ \A a \in Anchors : push[e][a].todo \subseteq To[e]
  /\ \A a \in Anchors : push[e][a].pc # "none" => RowsWritten(e)
  /\ \A a \in Anchors, r \in Recipients : e \in inbox[a][r] => dstate[e][r] # "none"

Rows == \A e \in Envelopes : RowsOf(e)

LEMMA RowsInit == Init => Rows
  BY ToAssumption DEF Init, Rows, RowsOf, RowsWritten

(* The steps that leave the submission of e alone.                         *)
LEMMA RowsFrame ==
  ASSUME NEW e \in Envelopes, RowsOf(e), submit'[e] = submit[e], targets'[e] = targets[e],
         \A r \in Recipients : dstate'[e][r] = "none" <=> dstate[e][r] = "none",
         \A a \in Anchors : /\ push'[e][a].todo \subseteq To[e]
                            /\ push'[e][a].pc # "none" => push[e][a].pc # "none",
         \A a \in Anchors, r \in Recipients :
           e \in inbox'[a][r] => e \in inbox[a][r] \/ (r \in To[e] /\ RowsWritten(e))
  PROVE  RowsOf(e)'
<1>1. To[e] \subseteq Recipients
  BY ToAssumption
<1>2. RowsWritten(e) => RowsWritten(e)'
  BY <1>1 DEF RowsWritten
<1>3. QED
  BY <1>1, <1>2 DEF RowsOf, RowsWritten

(* The steps of a push and those that touch neither side.                  *)
LEMMA RowsOther ==
  ASSUME TypeOK, Rows, UNCHANGED <<submit, targets>>,
         \A d \in Envelopes, s \in Recipients : dstate'[d][s] = "none" <=> dstate[d][s] = "none",
         \A d \in Envelopes, b \in Anchors :
           \/ push'[d][b] = push[d][b]
           \/ push'[d][b].todo \subseteq To[d] /\ push[d][b].pc # "none",
         \A d \in Envelopes, b \in Anchors, s \in Recipients :
           d \in inbox'[b][s] => d \in inbox[b][s] \/ (s \in To[d] /\ RowsWritten(d))
  PROVE  Rows'
<1>1. ASSUME NEW d \in Envelopes PROVE RowsOf(d)'
  <2>1. RowsOf(d)
    BY DEF Rows
  <2>2. \A b \in Anchors : /\ push'[d][b].todo \subseteq To[d]
                           /\ push'[d][b].pc # "none" => push[d][b].pc # "none"
    BY <2>1 DEF RowsOf
  <2>3. QED
    BY <2>1, <2>2, RowsFrame
<1>2. QED
  BY <1>1 DEF Rows

LEMMA PushRows ==
  ASSUME TypeOK, Rows, NEW e \in Envelopes, NEW a \in Anchors,
         PushStep(e, a) \/ RefusePush(e, a) \/ AppendFails(e, a)
  PROVE  Rows'
<1>1. UNCHANGED <<submit, targets, dstate>>
  BY DEF PushStep, ReceivePush, AnswerPush, AppendRecipient, SkipRecipient, PushAck, RefusePush,
     AppendFails, dbVars
<1>2. push[e][a].pc # "none"
  BY DEF PushStep, ReceivePush, AnswerPush, AppendRecipient, SkipRecipient, PushAck, RefusePush,
     AppendFails
<1>3. PICK p \in PushProcess : PushBecomes(e, a, p) /\ p.todo \subseteq To[e]
  <2> DEFINE Good(p) == p \in PushProcess /\ PushBecomes(e, a, p) /\ p.todo \subseteq To[e]
  <2>1. push[e][a] \in PushProcess /\ push[e][a].todo \subseteq To[e] /\ To[e] \subseteq Recipients
    BY TypedProcesses, ToAssumption DEF Rows, RowsOf
  <2>2. CASE ReceivePush(e, a) \/ AppendFails(e, a)
    BY <2>1, <2>2 DEF ReceivePush, AppendFails, PushProcess
  <2>3. CASE RefusePush(e, a)
    BY <2>1, <2>3 DEF RefusePush, PushProcess
  <2>4. CASE AnswerPush(e, a)
    BY <2>1, <2>4 DEF AnswerPush, PushProcess
  <2>5. ASSUME NEW r \in Recipients, AppendRecipient(e, a, r) PROVE \E p : Good(p)
    <3> DEFINE next == [push[e][a] EXCEPT !.todo = @ \ {r}, !.acks = @ \cup {r}]
    <3>1. next \in PushProcess /\ next.todo \subseteq To[e]
      BY <2>1 DEF PushProcess
    <3>2. PushBecomes(e, a, next)
      BY <2>5 DEF AppendRecipient
    <3> HIDE DEF next
    <3>3. QED
      BY <3>1, <3>2
  <2>6. ASSUME NEW r \in Recipients, SkipRecipient(e, a, r) PROVE \E p : Good(p)
    <3> DEFINE next == [push[e][a] EXCEPT !.todo = @ \ {r}]
    <3>1. next \in PushProcess /\ next.todo \subseteq To[e]
      BY <2>1 DEF PushProcess
    <3>2. PushBecomes(e, a, next)
      BY <2>6 DEF SkipRecipient
    <3> HIDE DEF next
    <3>3. QED
      BY <3>1, <3>2
  <2>7. ASSUME NEW r \in Recipients, PushAck(e, a, r) PROVE \E p : Good(p)
    <3> DEFINE next == [push[e][a] EXCEPT !.acks = @ \ {r}]
    <3>1. next \in PushProcess /\ next.todo \subseteq To[e]
      BY <2>1 DEF PushProcess
    <3>2. PushBecomes(e, a, next)
      BY <2>7 DEF PushAck
    <3> HIDE DEF next
    <3>3. QED
      BY <3>1, <3>2
  <2>8. QED
    BY <2>2, <2>3, <2>4, <2>5, <2>6, <2>7 DEF PushStep
<1>4. \A d \in Envelopes, b \in Anchors :
        \/ push'[d][b] = push[d][b]
        \/ push'[d][b].todo \subseteq To[d] /\ push[d][b].pc # "none"
  BY <1>2, <1>3, PushUpdate, TypeOKParts
<1>5. \A d \in Envelopes, b \in Anchors, s \in Recipients :
        d \in inbox'[b][s] => d \in inbox[b][s] \/ (s \in To[d] /\ RowsWritten(d))
  <2>1. RowsWritten(e) /\ push[e][a].todo \subseteq To[e]
    BY <1>2 DEF Rows, RowsOf
  <2>2. inbox' = inbox \/ \E r \in push[e][a].todo : AppendInbox(a, r, e)
    BY DEF PushStep, ReceivePush, AnswerPush, AppendRecipient, SkipRecipient, PushAck, RefusePush,
       AppendFails, dbVars
  <2>3. inbox \in [Anchors -> [Recipients -> SUBSET Envelopes]] /\ To[e] \subseteq Recipients
    BY ToAssumption DEF TypeOK
  <2>4. QED
    BY <2>1, <2>2, <2>3 DEF AppendInbox
<1>6. QED
  BY <1>1, <1>4, <1>5, RowsOther

LEMMA HandleRows ==
  ASSUME TypeOK, Rows, NEW e \in Envelopes, NEW a \in Anchors, NEW r \in Recipients,
         HandleAck(e, r, a) \/ HandleMarker(e, r, a)
  PROVE  Rows'
<1>1. UNCHANGED <<submit, targets, push, inbox>>
  BY DEF HandleAck, HandleMarker
<1>2. dstate' = dstate
      \/ (dstate[e][r] # "none" /\ \E s \in {"delivered", "read"} : UpsertState(e, r, s))
  BY DEF HandleAck, HandleMarker, ApplyReceipt
<1>3. \A d \in Envelopes, s \in Recipients : dstate'[d][s] = "none" <=> dstate[d][s] = "none"
  <2>1. dstate \in [Envelopes -> [Recipients -> States]]
    BY DEF TypeOK
  <2>2. QED
    BY <1>2, <2>1 DEF UpsertState
<1>4. QED
  BY <1>1, <1>3, RowsOther

LEMMA CalmRows ==
  ASSUME TypeOK, Rows, UNCHANGED <<submit, targets, push, inbox, dstate>>
  PROVE  Rows'
  BY RowsOther

(* A step of the submission of e: what it must show of e itself.           *)
LEMMA SubmitRows ==
  ASSUME TypeOK, Rows, NEW e \in Envelopes, RowsOf(e)',
         NEW p \in SubmitProcess, SubmitBecomes(e, p),
         \A d \in Envelopes : d # e =>
           /\ targets'[d] = targets[d] /\ dstate'[d] = dstate[d] /\ push'[d] = push[d]
           /\ \A b \in Anchors, s \in Recipients : d \in inbox'[b][s] => d \in inbox[b][s]
  PROVE  Rows'
<1>1. ASSUME NEW d \in Envelopes, d # e PROVE RowsOf(d)'
  <2>1. submit'[d] = submit[d]
    BY <1>1, SubmitUpdate, TypeOKParts
  <2>2. RowsOf(d)
    BY DEF Rows
  <2>3. \A b \in Anchors : push[d][b].todo \subseteq To[d]
    BY <2>2 DEF RowsOf
  <2>4. QED
    BY <1>1, <2>1, <2>2, <2>3, RowsFrame
<1>2. QED
  BY <1>1 DEF Rows

(* The steps of a submission that only move its process.                   *)
LEMMA QuietSubmitRows ==
  ASSUME TypeOK, Rows, NEW e \in Envelopes,
         \/ Submit(e) \/ RefuseSubmit(e) \/ DeliverLocal(e) \/ PushAnswered(e)
         \/ PushFailed(e) \/ Accept(e) \/ SubmitFails(e)
  PROVE  Rows'
<1>1. UNCHANGED <<targets, dstate, push, inbox>>
  BY DEF Submit, RefuseSubmit, DeliverLocal, PushAnswered, PushFailed, Accept, SubmitFails, dbVars
<1>2. submit[e] \in SubmitProcess /\ RowsOf(e) /\ To[e] \subseteq Recipients
  BY TypedProcesses, ToAssumption DEF Rows
<1>3. PICK p \in SubmitProcess :
        /\ SubmitBecomes(e, p)
        /\ \/ submit[e].pc = "idle" /\ p.pc = "marking" /\ p.todo = To[e]
           \/ p.pc = "rejected" /\ p.todo = submit[e].todo
           \/ /\ submit[e].pc \in {"routing", "remote"} /\ p.pc \in {"local", "routing", "accepted"}
              /\ p.todo \subseteq To[e]
  <2>1. CASE Submit(e)
    <3> DEFINE next == [submit[e] EXCEPT !.pc = "marking", !.todo = To[e]]
    <3>1. next \in SubmitProcess /\ next.pc = "marking" /\ next.todo = To[e]
      BY <1>2 DEF SubmitProcess
    <3>2. SubmitBecomes(e, next) /\ submit[e].pc = "idle"
      BY <2>1 DEF Submit
    <3> HIDE DEF next
    <3>3. QED
      BY <3>1, <3>2
  <2>2. CASE RefuseSubmit(e) \/ PushFailed(e) \/ SubmitFails(e)
    <3> DEFINE next == [submit[e] EXCEPT !.pc = "rejected"]
    <3>1. next \in SubmitProcess /\ next.pc = "rejected" /\ next.todo = submit[e].todo
      BY <1>2 DEF SubmitProcess
    <3>2. SubmitBecomes(e, next)
      BY <2>2 DEF RefuseSubmit, PushFailed, SubmitFails
    <3> HIDE DEF next
    <3>3. QED
      BY <3>1, <3>2
  <2>3. CASE DeliverLocal(e)
    <3> DEFINE next == [submit[e] EXCEPT !.pc = "local", !.left = @ \ {Home},
                          !.todo = {r \in Recipients : <<Home, r>> \in targets[e]}]
    <3>1. next \in SubmitProcess /\ next.pc = "local"
          /\ next.todo = {r \in Recipients : <<Home, r>> \in targets[e]}
      BY <1>2 DEF SubmitProcess
    <3>2. SubmitBecomes(e, next) /\ submit[e].pc = "routing"
      BY <2>3 DEF DeliverLocal
    <3>3. targets[e] \subseteq Anchors \X To[e]
      BY <1>2 DEF RowsOf
    <3> HIDE DEF next
    <3>4. QED
      BY <3>1, <3>2, <3>3
  <2>4. CASE PushAnswered(e)
    <3> DEFINE next == [submit[e] EXCEPT !.pc = "routing"]
    <3>1. next \in SubmitProcess /\ next.pc = "routing" /\ next.todo = submit[e].todo
      BY <1>2 DEF SubmitProcess
    <3>2. SubmitBecomes(e, next) /\ submit[e].pc = "remote"
      BY <2>4 DEF PushAnswered
    <3> HIDE DEF next
    <3>3. QED
      BY <1>2, <3>1, <3>2 DEF RowsOf
  <2>5. CASE Accept(e)
    <3> DEFINE next == [submit[e] EXCEPT !.pc = "accepted"]
    <3>1. next \in SubmitProcess /\ next.pc = "accepted" /\ next.todo = submit[e].todo
      BY <1>2 DEF SubmitProcess
    <3>2. SubmitBecomes(e, next) /\ submit[e].pc = "routing"
      BY <2>5 DEF Accept
    <3> HIDE DEF next
    <3>3. QED
      BY <1>2, <3>1, <3>2 DEF RowsOf
  <2>6. QED
    BY <2>1, <2>2, <2>3, <2>4, <2>5
<1>4. submit'[e] = p
  BY <1>3, SubmitUpdate, TypeOKParts
<1>5. RowsOf(e)'
  BY <1>1, <1>2, <1>3, <1>4 DEF RowsOf, RowsWritten
<1>6. QED
  BY <1>1, <1>3, <1>5, SubmitRows

LEMMA MarkSentRows ==
  ASSUME TypeOK, Rows, NEW e \in Envelopes, NEW r \in Recipients, MarkSent(e, r)
  PROVE  Rows' /\ dstate[e][r] = "none"
<1> DEFINE next == [submit[e] EXCEPT !.todo = @ \ {r}]
<1>1. submit[e] \in SubmitProcess /\ RowsOf(e) /\ To[e] \subseteq Recipients
  BY TypedProcesses, ToAssumption DEF Rows
<1>2. next \in SubmitProcess /\ next.pc = submit[e].pc /\ next.todo = submit[e].todo \ {r}
  BY <1>1 DEF SubmitProcess
<1>3. SubmitBecomes(e, next)
  BY DEF MarkSent
<1> HIDE DEF next
<1>4. submit'[e] = next
  BY <1>2, <1>3, SubmitUpdate, TypeOKParts
<1>5. /\ dstate'[e][r] = "sent"
      /\ \A s \in Recipients : s # r => dstate'[e][s] = dstate[e][s]
      /\ \A d \in Envelopes : d # e => dstate'[d] = dstate[d]
  <2>1. dstate \in [Envelopes -> [Recipients -> States]]
    BY DEF TypeOK
  <2>2. QED
    BY <2>1 DEF MarkSent, UpsertState
<1>6. UNCHANGED <<targets, inbox, push>> /\ submit[e].pc = "marking" /\ r \in submit[e].todo
  BY DEF MarkSent
<1>7. RowsOf(e)'
  BY <1>1, <1>2, <1>4, <1>5, <1>6 DEF RowsOf, RowsWritten
<1>8. dstate[e][r] = "none"
  BY <1>1, <1>6 DEF RowsOf
<1>9. QED
  BY <1>2, <1>3, <1>5, <1>6, <1>7, <1>8, SubmitRows

LEMMA RouteRows == ASSUME TypeOK, Rows, NEW e \in Envelopes, Route(e) PROVE Rows'
<1> DEFINE pairs == {p \in Anchors \X To[e] : p[1] \in view[Home][p[2]]}
           next == [submit[e] EXCEPT !.pc = IF pairs = {} THEN "rejected" ELSE "routing",
                                     !.left = {p[1] : p \in pairs}]
<1>1. submit[e] \in SubmitProcess /\ RowsOf(e) /\ To[e] \subseteq Recipients
  BY TypedProcesses, ToAssumption DEF Rows
<1>2. pairs \subseteq Anchors \X To[e] /\ {p[1] : p \in pairs} \subseteq Anchors
  OBVIOUS
<1>3. next \in SubmitProcess /\ next.pc \in {"routing", "rejected"} /\ next.todo = submit[e].todo
  BY <1>1, <1>2 DEF SubmitProcess
<1>4. SubmitBecomes(e, next) /\ targets' = [targets EXCEPT ![e] = pairs]
  BY DEF Route
<1>5. UNCHANGED <<dstate, inbox, push>> /\ submit[e].pc = "marking" /\ submit[e].todo = {}
  BY DEF Route, dbVars
<1>6. targets \in [Envelopes -> SUBSET (Anchors \X Recipients)]
  BY DEF TypeOK
<1> HIDE DEF next, pairs
<1>7. submit'[e] = next
  BY <1>3, <1>4, SubmitUpdate, TypeOKParts
<1>8. RowsOf(e)'
  BY <1>1, <1>2, <1>3, <1>4, <1>5, <1>6, <1>7 DEF RowsOf, RowsWritten
<1>9. QED
  BY <1>3, <1>4, <1>5, <1>6, <1>8, SubmitRows

LEMMA AppendLocalRows ==
  ASSUME TypeOK, Rows, NEW e \in Envelopes, NEW r \in Recipients, AppendLocal(e, r)
  PROVE  Rows'
<1> DEFINE next == [submit[e] EXCEPT !.todo = @ \ {r},
                      !.pc = IF submit[e].todo = {r} THEN "routing" ELSE "local"]
<1>1. submit[e] \in SubmitProcess /\ RowsOf(e) /\ To[e] \subseteq Recipients
  BY TypedProcesses, ToAssumption DEF Rows
<1>2. next \in SubmitProcess /\ next.pc \in {"routing", "local"}
      /\ next.todo = submit[e].todo \ {r}
  BY <1>1 DEF SubmitProcess
<1>3. SubmitBecomes(e, next)
  BY DEF AppendLocal
<1> HIDE DEF next
<1>4. submit'[e] = next
  BY <1>2, <1>3, SubmitUpdate, TypeOKParts
<1>5. UNCHANGED <<targets, dstate, push>> /\ submit[e].pc = "local" /\ r \in submit[e].todo
  BY DEF AppendLocal
<1>6. \A d \in Envelopes, b \in Anchors, s \in Recipients :
        d \in inbox'[b][s] => d \in inbox[b][s] \/ (d = e /\ s = r)
  <2>1. inbox \in [Anchors -> [Recipients -> SUBSET Envelopes]]
    BY DEF TypeOK
  <2>2. QED
    BY <2>1 DEF AppendLocal, AppendInbox
<1>7. RowsOf(e)'
  BY <1>1, <1>2, <1>4, <1>5, <1>6 DEF RowsOf, RowsWritten
<1>8. QED
  BY <1>2, <1>3, <1>5, <1>6, <1>7, SubmitRows

LEMMA DeliverRemoteRows ==
  ASSUME TypeOK, Rows, NEW e \in Envelopes, NEW a \in Anchors, DeliverRemote(e, a)
  PROVE  Rows'
<1> DEFINE next == [submit[e] EXCEPT !.pc = "remote", !.at = a, !.left = @ \ {a}]
           call == [push[e][a] EXCEPT !.pc = "inflight"]
<1>1. submit[e] \in SubmitProcess /\ push[e][a] \in PushProcess /\ RowsOf(e)
  BY TypedProcesses DEF Rows
<1>2. next \in SubmitProcess /\ next.pc = "remote" /\ next.todo = submit[e].todo
  BY <1>1 DEF SubmitProcess
<1>3. call \in PushProcess /\ call.todo = push[e][a].todo
  BY <1>1 DEF PushProcess
<1>4. SubmitBecomes(e, next) /\ PushBecomes(e, a, call)
  BY DEF DeliverRemote
<1>5. UNCHANGED <<targets, dstate, inbox>> /\ submit[e].pc = "routing"
  BY DEF DeliverRemote, dbVars
<1> HIDE DEF next, call
<1>6. submit'[e] = next
  BY <1>2, <1>4, SubmitUpdate, TypeOKParts
<1>7. /\ push'[e][a] = call
      /\ \A b \in Anchors : b # a => push'[e][b] = push[e][b]
  BY <1>3, <1>4, PushUpdate, TypeOKParts
<1>8. \A d \in Envelopes : d # e => push'[d] = push[d]
  <2>1. push \in [Envelopes -> [Anchors -> PushProcess]]
    BY DEF TypeOK
  <2>2. QED
    BY <1>4, <2>1 DEF PushBecomes
<1>9. RowsOf(e)'
  BY <1>1, <1>2, <1>3, <1>5, <1>6, <1>7 DEF RowsOf, RowsWritten
<1>10. QED
  BY <1>2, <1>4, <1>5, <1>8, <1>9, SubmitRows

LEMMA RestartRows == ASSUME TypeOK, Rows, NEW a \in Anchors, Restart(a) PROVE Rows'
<1>1. UNCHANGED <<targets, dstate, inbox>>
  BY DEF Restart, dbVars
<1>2. ASSUME NEW e \in Envelopes
      PROVE  /\ submit'[e].todo = submit[e].todo
             /\ submit'[e].pc = submit[e].pc \/ submit'[e].pc = "rejected"
  <2>1. submit[e] \in SubmitProcess
    BY TypedProcesses
  <2>2. submit'[e] = submit[e] \/ submit'[e] = [submit[e] EXCEPT !.pc = "rejected"]
    BY DEF Restart
  <2>3. QED
    BY <2>1, <2>2 DEF SubmitProcess
<1>3. ASSUME NEW e \in Envelopes, NEW b \in Anchors
      PROVE  /\ push'[e][b].todo \subseteq push[e][b].todo
             /\ push'[e][b].pc = push[e][b].pc \/ push[e][b].pc = "appending"
  <2>1. push \in [Envelopes -> [Anchors -> PushProcess]]
    BY DEF TypeOK
  <2>2. QED
    BY <2>1 DEF Restart, PushProcess
<1>4. ASSUME NEW e \in Envelopes PROVE RowsOf(e)'
  <2>1. RowsOf(e) /\ To[e] \subseteq Recipients
    BY ToAssumption DEF Rows
  <2>2. RowsWritten(e)' <=> RowsWritten(e)
    BY <1>1 DEF RowsWritten
  <2>3. QED
    BY <1>1, <1>2, <1>3, <2>1, <2>2 DEF RowsOf
<1>5. QED
  BY <1>4 DEF Rows

LEMMA RowsNext == TypeOK /\ Rows /\ [Next]_vars => Rows'
<1> SUFFICES ASSUME TypeOK, Rows, [Next]_vars PROVE Rows' OBVIOUS
<1>1. ASSUME NEW e \in Envelopes,
             Submit(e) \/ RefuseSubmit(e) \/ SubmitStep(e) \/ SubmitFails(e)
      PROVE  Rows'
  BY <1>1, QuietSubmitRows, MarkSentRows, RouteRows, AppendLocalRows, DeliverRemoteRows
  DEF SubmitStep
<1>2. ASSUME \/ LoseReceipt \/ UNCHANGED vars
             \/ \E e \in Envelopes, a \in Anchors, r \in Recipients :
                  \/ ReadOnDevice(e, a, r)
                  \/ \E s \in {"delivered", "read"} : ShowState(e, r, a, s)
             \/ \E a \in Anchors, r \in Recipients, list \in AnchorLists : Move(a, r, list)
      PROVE  Rows'
  <2>1. UNCHANGED <<submit, targets, push, inbox, dstate>>
    BY <1>2 DEF LoseReceipt, vars, ReadOnDevice, ShowState, Move, dbVars
  <2>2. QED
    BY <2>1, CalmRows
<1>3. QED
  BY <1>1, <1>2, PushRows, HandleRows, RestartRows DEF Next

THEOREM RowsAlways == Spec => []Rows
<1>1. Spec => []TypeOK
  BY TypeCorrect
<1>2. QED
  BY <1>1, RowsInit, RowsNext, PTL DEF Spec

(* An ack or a read marker under way always finds the row it refers to.    *)
THEOREM ReceiptsHaveRows == Spec => []ReceiptHasRow
<1>1. TypeOK /\ Evidence /\ Rows => ReceiptHasRow
  <2> SUFFICES ASSUME TypeOK, Evidence, Rows, NEW m \in acks \cup markers
               PROVE  dstate[m[1]][m[2]] # "none"
    BY DEF ReceiptHasRow
  <2>1. m \in Receipt
    BY DEF TypeOK
  <2>2. m[1] \in inbox[m[3]][m[2]]
    BY <2>1 DEF Evidence, AcksAreTrue, MarkersAreTrue, SeenIsStored, Receipt
  <2>3. QED
    BY <2>1, <2>2 DEF Rows, RowsOf, Receipt
<1>2. QED
  BY <1>1, TypeCorrect, EvidenceAlways, RowsAlways, PTL

-----------------------------------------------------------------------------
(* Every step keeps the promise                                            *)

PromiseInv == TypeOK /\ Evidence /\ Rows

LEMMA StoreStep ==
  ASSUME PromiseInv, NEW e \in Envelopes, NEW a \in Anchors, NEW r \in Recipients,
         AppendInbox(a, r, e), UNCHANGED <<dstate, seen>>, dstate[e][r] # "none"
  PROVE  Promise!Store(e, r)
<1>1. StoredPairs' = StoredPairs \cup {<<e, r>>}
  <2>1. inbox \in [Anchors -> [Recipients -> SUBSET Envelopes]]
    BY DEF PromiseInv, TypeOK
  <2>2. \A d \in Envelopes, b \in Anchors, s \in Recipients :
          d \in inbox'[b][s] <=> d \in inbox[b][s] \/ (d = e /\ b = a /\ s = r)
    BY <2>1 DEF AppendInbox
  <2>3. QED
    BY <2>2 DEF StoredPairs, Stored
<1>2. SeenPairs' = SeenPairs
  BY DEF SeenPairs
<1>3. QED
  BY <1>1, <1>2 DEF Promise!Store

LEMMA SeeStep ==
  ASSUME PromiseInv, NEW e \in Envelopes, NEW a \in Anchors, NEW r \in Recipients,
         ReadOnDevice(e, a, r)
  PROVE  Promise!See(e, r)
<1>1. <<e, r>> \in StoredPairs
  BY DEF ReadOnDevice, StoredPairs, Stored
<1>2. SeenPairs' = SeenPairs \cup {<<e, r>>}
  <2>1. seen \in [Anchors -> [Recipients -> SUBSET Envelopes]]
    BY DEF PromiseInv, TypeOK
  <2>2. seen' = [seen EXCEPT ![a][r] = @ \cup {e}]
    BY DEF ReadOnDevice
  <2>3. \A d \in Envelopes, b \in Anchors, s \in Recipients :
          d \in seen'[b][s] <=> d \in seen[b][s] \/ (d = e /\ b = a /\ s = r)
    BY <2>1, <2>2
  <2>4. QED
    BY <2>3 DEF SeenPairs
<1>3. UNCHANGED <<dstate, StoredPairs>>
  BY DEF ReadOnDevice, dbVars, StoredPairs, Stored
<1>4. QED
  BY <1>1, <1>2, <1>3 DEF Promise!See

LEMMA ReportStep ==
  ASSUME PromiseInv, NEW e \in Envelopes, NEW a \in Anchors, NEW r \in Recipients,
         HandleAck(e, r, a) \/ HandleMarker(e, r, a)
  PROVE  Promise!Deliver(e, r) \/ Promise!Read(e, r) \/ UNCHANGED <<dstate, StoredPairs, SeenPairs>>
<1>1. UNCHANGED <<StoredPairs, SeenPairs>>
  BY DEF HandleAck, HandleMarker, deviceVars, StoredPairs, SeenPairs, Stored
<1>2. CASE HandleAck(e, r, a)
  <2>1. <<e, r>> \in StoredPairs
    BY <1>2 DEF HandleAck, PromiseInv, Evidence, AcksAreTrue, StoredPairs, Stored
  <2>2. UNCHANGED dstate \/ UpsertState(e, r, "delivered")
    BY <1>2 DEF HandleAck, ApplyReceipt
  <2>3. QED
    BY <1>1, <2>1, <2>2 DEF UpsertState, Promise!Deliver, Promise!Record
<1>3. CASE HandleMarker(e, r, a)
  <2>1. <<e, r>> \in SeenPairs
    BY <1>3 DEF HandleMarker, PromiseInv, Evidence, MarkersAreTrue, SeenPairs
  <2>2. UNCHANGED dstate \/ UpsertState(e, r, "read")
    BY <1>3 DEF HandleMarker, ApplyReceipt
  <2>3. QED
    BY <1>1, <2>1, <2>2 DEF UpsertState, Promise!Read, Promise!Record
<1>4. QED
  BY <1>2, <1>3

LEMMA PromiseStep == PromiseInv /\ [Next]_vars => [Promise!Next]_(Promise!vars)
<1> SUFFICES ASSUME PromiseInv, [Next]_vars
             PROVE  Promise!Next \/ UNCHANGED <<dstate, StoredPairs, SeenPairs>>
  BY DEF Promise!vars
<1>1. ASSUME UNCHANGED <<dstate, inbox, seen>> PROVE UNCHANGED <<dstate, StoredPairs, SeenPairs>>
  BY <1>1 DEF StoredPairs, SeenPairs, Stored
<1>2. ASSUME NEW e \in Envelopes, NEW r \in Recipients, MarkSent(e, r) PROVE Promise!Send(e, r)
  <2>1. dstate[e][r] = "none"
    BY <1>2, MarkSentRows DEF PromiseInv
  <2>2. UNCHANGED <<StoredPairs, SeenPairs>>
    BY <1>2 DEF MarkSent, deviceVars, StoredPairs, SeenPairs, Stored
  <2>3. QED
    BY <1>2, <2>1, <2>2 DEF MarkSent, UpsertState, Promise!Send, Promise!Record
<1>3. ASSUME NEW e \in Envelopes, NEW r \in Recipients, AppendLocal(e, r) PROVE Promise!Store(e, r)
  <2>1. dstate[e][r] # "none"
    BY <1>3, ToAssumption DEF AppendLocal, PromiseInv, Rows, RowsOf, RowsWritten
  <2>2. QED
    BY <1>3, <2>1, HomeAssumption, StoreStep DEF AppendLocal, deviceVars
<1>4. ASSUME NEW e \in Envelopes, NEW a \in Anchors, NEW r \in Recipients, AppendRecipient(e, a, r)
      PROVE  Promise!Store(e, r)
  <2>1. dstate[e][r] # "none"
    BY <1>4, ToAssumption DEF AppendRecipient, PromiseInv, Rows, RowsOf, RowsWritten
  <2>2. QED
    BY <1>4, <2>1, StoreStep DEF AppendRecipient, deviceVars
<1>5. ASSUME NEW e \in Envelopes,
             Submit(e) \/ RefuseSubmit(e) \/ SubmitStep(e) \/ SubmitFails(e)
      PROVE  Promise!Next \/ UNCHANGED <<dstate, inbox, seen>>
  <2>1. \/ \E r \in Recipients : MarkSent(e, r) \/ AppendLocal(e, r)
        \/ UNCHANGED <<dstate, inbox, seen>>
    BY <1>5 DEF SubmitStep, Submit, RefuseSubmit, SubmitFails, Route, DeliverLocal, PushAnswered,
       PushFailed, Accept, DeliverRemote, dbVars, deviceVars
  <2>2. QED
    BY <1>2, <1>3, <2>1 DEF Promise!Next
<1>6. ASSUME NEW e \in Envelopes, NEW a \in Anchors,
             PushStep(e, a) \/ RefusePush(e, a) \/ AppendFails(e, a)
      PROVE  Promise!Next \/ UNCHANGED <<dstate, inbox, seen>>
  <2>1. \/ \E r \in Recipients : AppendRecipient(e, a, r)
        \/ UNCHANGED <<dstate, inbox, seen>>
    BY <1>6 DEF PushStep, ReceivePush, AnswerPush, SkipRecipient, PushAck, RefusePush, AppendFails,
       dbVars, deviceVars
  <2>2. QED
    BY <1>4, <2>1 DEF Promise!Next
<1>7. ASSUME NEW e \in Envelopes, NEW a \in Anchors, NEW r \in Recipients,
             \/ ReadOnDevice(e, a, r) \/ HandleAck(e, r, a) \/ HandleMarker(e, r, a)
             \/ \E s \in {"delivered", "read"} : ShowState(e, r, a, s)
      PROVE  Promise!Next \/ UNCHANGED <<dstate, StoredPairs, SeenPairs>>
  <2>1. CASE \E s \in {"delivered", "read"} : ShowState(e, r, a, s)
    BY <1>1, <2>1 DEF ShowState, dbVars
  <2>2. QED
    BY <1>7, <2>1, SeeStep, ReportStep DEF Promise!Next
<1>8. ASSUME \/ LoseReceipt \/ UNCHANGED vars
             \/ \E a \in Anchors : Restart(a)
             \/ \E a \in Anchors, r \in Recipients, list \in AnchorLists : Move(a, r, list)
      PROVE  UNCHANGED <<dstate, inbox, seen>>
  BY <1>8 DEF LoseReceipt, vars, Restart, Move, dbVars, deviceVars
<1>9. QED
  BY <1>1, <1>5, <1>6, <1>7, <1>8 DEF Next

(* The anchors, with all their requests, implement DeliveryPromise.        *)
THEOREM Implements == Spec => KeepsPromise
<1>1. Spec => []PromiseInv
  BY TypeCorrect, EvidenceAlways, RowsAlways, PTL DEF PromiseInv
<1>2. Init => Promise!Init
  BY DEF Init, Promise!Init, StoredPairs, SeenPairs, Stored
<1>3. QED
  BY <1>1, <1>2, PromiseStep, PTL DEF Spec, KeepsPromise, Promise!Spec

(* A delivered or read envelope is never sent back to sent.                *)
THEOREM NeverSentAgain == Spec => NoReturnToSent
<1>1. Spec => []PromiseInv
  BY TypeCorrect, EvidenceAlways, RowsAlways, PTL DEF PromiseInv
<1>2. PromiseInv /\ [Next]_vars => [StaysReported]_vars
  <2> SUFFICES ASSUME PromiseInv, [Next]_vars PROVE StaysReported OBVIOUS
  <2>1. dstate \in [Envelopes -> [Recipients -> States]]
    BY DEF PromiseInv, TypeOK
  <2>2. Promise!Next \/ dstate' = dstate
    BY PromiseStep DEF Promise!vars
  <2>3. \/ dstate' = dstate
        \/ \E e \in Envelopes, r \in Recipients :
             \/ dstate[e][r] = "none" /\ dstate' = [dstate EXCEPT ![e][r] = "sent"]
             \/ \E s \in {"delivered", "read"} : dstate' = [dstate EXCEPT ![e][r] = s]
    BY <2>2 DEF Promise!Next, Promise!Send, Promise!Store, Promise!See, Promise!Deliver,
       Promise!Read, Promise!Record
  <2>4. QED
    BY <2>1, <2>3 DEF StaysReported
<1>3. QED
  BY <1>1, <1>2, PTL DEF Spec, NoReturnToSent
-----------------------------------------------------------------------------
(* Service: what has become of a recipient of an accepted envelope.  A     *)
(* target of deliver_targets is waiting its turn, or is the one being      *)
(* served, or holds the envelope or has declined it; and the handler of a  *)
(* push has looked at every recipient but those it still has to do.        *)

Landed(e, a, r) == e \in inbox[a][r] \/ r \in skipped[e][a]

Served(e) ==
  submit[e].pc \in {"routing", "local", "remote", "accepted"} =>
    /\ submit[e].pc = "accepted" => submit[e].left = {}
    /\ \A a \in Anchors, r \in Recipients : <<a, r>> \in targets[e] =>
         /\ r \in To[e]
         /\ \/ a \in submit[e].left
            \/ submit[e].pc = "local" /\ a = Home /\ r \in submit[e].todo
            \/ submit[e].pc = "remote" /\ a = submit[e].at
            \/ Landed(e, a, r)

LookedAt(e, a) ==
  /\ push[e][a].pc = "ok" => push[e][a].todo = {}
  /\ push[e][a].pc \in {"appending", "ok"} =>
       \A r \in To[e] : r \in push[e][a].todo \/ Landed(e, a, r)

Service == \A e \in Envelopes : Served(e) /\ \A a \in Anchors : LookedAt(e, a)

(* What has landed stays: inboxes and the lists of the declined only grow. *)
Lasting ==
  /\ \A e \in Envelopes, a \in Anchors, r \in Recipients : e \in inbox[a][r] => e \in inbox'[a][r]
  /\ \A e \in Envelopes, a \in Anchors, r \in Recipients :
       r \in skipped[e][a] => r \in skipped'[e][a]

LEMMA NextLasts == TypeOK /\ [Next]_vars => Lasting
<1> SUFFICES ASSUME TypeOK, [Next]_vars PROVE Lasting
  OBVIOUS
<1> USE DEF envVars, dbVars, wireVars, deviceVars
<1>1. ASSUME UNCHANGED <<inbox, skipped>> PROVE Lasting
  BY <1>1 DEF Lasting
<1>2. ASSUME NEW a \in Anchors, NEW r \in Recipients, NEW e \in Envelopes, AppendInbox(a, r, e),
             UNCHANGED skipped
      PROVE  Lasting
  BY <1>2, AppendGrows DEF Lasting
<1>3. ASSUME NEW e \in Envelopes, NEW a \in Anchors, NEW r \in Recipients, SkipRecipient(e, a, r)
      PROVE  Lasting
  <2>1. skipped \in [Envelopes -> [Anchors -> SUBSET Recipients]]
    BY DEF TypeOK
  <2>2. QED
    BY <1>3, <2>1 DEF Lasting, SkipRecipient
<1>4. ASSUME NEW e \in Envelopes,
             Submit(e) \/ RefuseSubmit(e) \/ SubmitStep(e) \/ SubmitFails(e)
      PROVE  Lasting
  <2>1. ASSUME NEW r \in Recipients, AppendLocal(e, r) PROVE Lasting
    BY <1>2, <2>1, HomeAssumption DEF AppendLocal
  <2>2. ASSUME NEW r \in Recipients, MarkSent(e, r) PROVE Lasting
    BY <1>1, <2>2 DEF MarkSent
  <2>3. ASSUME NEW a \in Anchors, DeliverRemote(e, a) PROVE Lasting
    BY <1>1, <2>3 DEF DeliverRemote
  <2>4. QED
    BY <1>1, <1>4, <2>1, <2>2, <2>3 DEF Submit, RefuseSubmit, SubmitStep, SubmitFails, Route,
       DeliverLocal, PushAnswered, PushFailed, Accept
<1>5. ASSUME NEW e \in Envelopes, NEW a \in Anchors,
             PushStep(e, a) \/ RefusePush(e, a) \/ AppendFails(e, a)
      PROVE  Lasting
  <2>1. ASSUME NEW r \in Recipients, AppendRecipient(e, a, r) PROVE Lasting
    BY <1>2, <2>1 DEF AppendRecipient
  <2>2. ASSUME NEW r \in Recipients, PushAck(e, a, r) PROVE Lasting
    BY <1>1, <2>2 DEF PushAck
  <2>3. QED
    BY <1>1, <1>3, <1>5, <2>1, <2>2 DEF PushStep, ReceivePush, AnswerPush, RefusePush, AppendFails
<1>6. ASSUME NEW e \in Envelopes, NEW a \in Anchors, NEW r \in Recipients,
             \/ ReadOnDevice(e, a, r) \/ HandleAck(e, r, a) \/ HandleMarker(e, r, a)
             \/ \E s \in {"delivered", "read"} : ShowState(e, r, a, s)
      PROVE  Lasting
  BY <1>1, <1>6 DEF ReadOnDevice, HandleAck, HandleMarker, ShowState
<1>7. ASSUME LoseReceipt PROVE Lasting
  BY <1>1, <1>7 DEF LoseReceipt
<1>8. ASSUME NEW a \in Anchors,
             \/ Restart(a)
             \/ \E r \in Recipients, list \in AnchorLists : Move(a, r, list)
      PROVE  Lasting
  BY <1>1, <1>8 DEF Restart, Move
<1>9. ASSUME UNCHANGED vars PROVE Lasting
  BY <1>1, <1>9 DEF vars
<1>10. QED
  BY <1>4, <1>5, <1>6, <1>7, <1>8, <1>9 DEF Next

LEMMA LandedLasts ==
  ASSUME Lasting, NEW e \in Envelopes, NEW a \in Anchors, NEW r \in Recipients, Landed(e, a, r)
  PROVE  Landed(e, a, r)'
  BY DEF Lasting, Landed

(* A process that rests has served, or looked at, what it had.             *)
LEMMA ServedLasts ==
  ASSUME Lasting, NEW e \in Envelopes, Served(e), submit'[e] = submit[e], targets'[e] = targets[e]
  PROVE  Served(e)'
<1>1. \A a \in Anchors, r \in Recipients : Landed(e, a, r) => Landed(e, a, r)'
  BY LandedLasts
<1>2. QED
  BY <1>1 DEF Served

LEMMA LookedAtLasts ==
  ASSUME Lasting, NEW e \in Envelopes, NEW a \in Anchors, LookedAt(e, a),
         push'[e][a] = push[e][a]
  PROVE  LookedAt(e, a)'
<1>1. \A r \in Recipients : Landed(e, a, r) => Landed(e, a, r)'
  BY LandedLasts
<1>2. To[e] \subseteq Recipients
  BY ToAssumption
<1>3. QED
  BY <1>1, <1>2 DEF LookedAt

(* The step of one submission, or of one push, leaves the others alone.    *)
LEMMA OneSubmission ==
  ASSUME TypeOK, Service, Lasting, NEW e \in Envelopes, NEW p \in SubmitProcess,
         SubmitBecomes(e, p), \A d \in Envelopes : d # e => targets'[d] = targets[d], Served(e)'
  PROVE  \A d \in Envelopes : Served(d)'
<1> TAKE d \in Envelopes
<1>1. CASE d = e
  BY <1>1
<1>2. CASE d # e
  <2>1. submit'[d] = submit[d] /\ targets'[d] = targets[d]
    BY <1>2, SubmitUpdate, TypeOKParts
  <2>2. QED
    BY <2>1, ServedLasts DEF Service
<1>3. QED
  BY <1>1, <1>2

LEMMA OnePush ==
  ASSUME TypeOK, Service, Lasting, NEW e \in Envelopes, NEW a \in Anchors, NEW p \in PushProcess,
         PushBecomes(e, a, p), LookedAt(e, a)'
  PROVE  \A d \in Envelopes, b \in Anchors : LookedAt(d, b)'
<1> TAKE d \in Envelopes, b \in Anchors
<1>1. CASE d = e /\ b = a
  BY <1>1
<1>2. CASE d # e \/ b # a
  <2>1. push'[d][b] = push[d][b]
    BY <1>2, PushUpdate, TypeOKParts
  <2>2. QED
    BY <2>1, LookedAtLasts DEF Service
<1>3. QED
  BY <1>1, <1>2

LEMMA SubmissionsRest ==
  ASSUME Service, Lasting, UNCHANGED <<submit, targets>>
  PROVE  \A d \in Envelopes : Served(d)'
  BY ServedLasts DEF Service

LEMMA PushesRest ==
  ASSUME Service, Lasting, UNCHANGED push
  PROVE  \A d \in Envelopes, b \in Anchors : LookedAt(d, b)'
  BY LookedAtLasts DEF Service

(* deliver_dm: every pair it finds is of an anchor yet to be tried.        *)
LEMMA RouteServed ==
  ASSUME TypeOK, Service, Lasting, NEW e \in Envelopes, Route(e)
  PROVE  Service'
<1> DEFINE pairs == {p \in Anchors \X To[e] : p[1] \in view[Home][p[2]]}
           next == [submit[e] EXCEPT !.pc = IF pairs = {} THEN "rejected" ELSE "routing",
                                     !.left = {p[1] : p \in pairs}]
<1>1. To[e] \subseteq Recipients /\ pairs \subseteq Anchors \X To[e]
  BY ToAssumption
<1>2. next \in SubmitProcess /\ next.left = {p[1] : p \in pairs} /\ next.pc # "accepted"
  <2>1. {p[1] : p \in pairs} \in SUBSET Anchors
    BY <1>1
  <2>2. next \in SubmitProcess
    BY <2>1, TypedProcesses DEF SubmitProcess
  <2>3. QED
    BY <2>2, TypedProcesses DEF SubmitProcess
<1>3. SubmitBecomes(e, next) /\ targets' = [targets EXCEPT ![e] = pairs] /\ push' = push
  BY DEF Route
<1>4. targets'[e] = pairs /\ \A d \in Envelopes : d # e => targets'[d] = targets[d]
  BY <1>3 DEF TypeOK
<1> HIDE DEF next, pairs
<1>5. submit'[e] = next
  BY <1>2, <1>3, SubmitUpdate, TypeOKParts
<1>6. Served(e)'
  <2>1. \A a \in Anchors, r \in Recipients : <<a, r>> \in pairs => r \in To[e] /\ a \in next.left
    BY <1>1, <1>2
  <2>2. QED
    BY <1>2, <1>4, <1>5, <2>1 DEF Served
<1>7. QED
  BY <1>2, <1>3, <1>4, <1>6, OneSubmission, PushesRest DEF Service

(* Its own group leaves the anchors to try and becomes the rows to append. *)
LEMMA DeliverLocalServed ==
  ASSUME TypeOK, Service, Lasting, NEW e \in Envelopes, DeliverLocal(e)
  PROVE  Service'
<1> DEFINE next == [submit[e] EXCEPT !.pc = "local", !.left = @ \ {Home},
                                     !.todo = {r \in Recipients : <<Home, r>> \in targets[e]}]
<1>1. /\ next \in SubmitProcess /\ next.pc = "local" /\ next.left = submit[e].left \ {Home}
      /\ next.todo = {r \in Recipients : <<Home, r>> \in targets[e]}
  BY TypedProcesses DEF SubmitProcess
<1>2. SubmitBecomes(e, next) /\ targets' = targets /\ push' = push
  BY DEF DeliverLocal
<1> HIDE DEF next
<1>3. submit'[e] = next
  BY <1>1, <1>2, SubmitUpdate, TypeOKParts
<1>4. Served(e)'
  <2>1. ASSUME NEW a \in Anchors, NEW r \in Recipients, <<a, r>> \in targets[e]
        PROVE  r \in To[e] /\ (a \in submit[e].left \/ Landed(e, a, r)')
    BY <2>1, LandedLasts DEF Service, Served, DeliverLocal
  <2>2. QED
    BY <1>1, <1>2, <1>3, <2>1 DEF Served
<1>5. QED
  BY <1>1, <1>2, <1>4, OneSubmission, PushesRest DEF Service

(* A row appended has landed.                                              *)
LEMMA AppendLocalServed ==
  ASSUME TypeOK, Service, Lasting, NEW e \in Envelopes, NEW q \in Recipients, AppendLocal(e, q)
  PROVE  Service'
<1> DEFINE next == [submit[e] EXCEPT !.todo = @ \ {q},
                        !.pc = IF submit[e].todo = {q} THEN "routing" ELSE "local"]
<1>1. /\ next \in SubmitProcess /\ next.todo = submit[e].todo \ {q}
      /\ next.left = submit[e].left
      /\ next.pc = IF submit[e].todo = {q} THEN "routing" ELSE "local"
  BY TypedProcesses DEF SubmitProcess
<1>2. SubmitBecomes(e, next) /\ targets' = targets /\ push' = push
  BY DEF AppendLocal
<1> HIDE DEF next
<1>3. submit'[e] = next
  BY <1>1, <1>2, SubmitUpdate, TypeOKParts
<1>4. Landed(e, Home, q)'
  BY HomeAssumption, AppendGrows DEF AppendLocal, Landed
<1>5. Served(e)'
  <2>1. ASSUME NEW a \in Anchors, NEW r \in Recipients, <<a, r>> \in targets[e]
        PROVE  /\ r \in To[e]
               /\ \/ a \in submit[e].left
                  \/ a = Home /\ r \in submit[e].todo
                  \/ Landed(e, a, r)'
    BY <2>1, LandedLasts DEF Service, Served, AppendLocal
  <2>2. next.pc \in {"routing", "local"} /\ (next.pc = "routing" => submit[e].todo = {q})
    BY <1>1
  <2>3. QED
    BY <1>1, <1>2, <1>3, <1>4, <2>1, <2>2 DEF Served
<1>6. QED
  BY <1>1, <1>2, <1>5, OneSubmission, PushesRest DEF Service

LEMMA DeliverRemoteServed ==
  ASSUME TypeOK, Service, Lasting, NEW e \in Envelopes, NEW b \in Anchors, DeliverRemote(e, b)
  PROVE  Service'
<1> DEFINE next == [submit[e] EXCEPT !.pc = "remote", !.at = b, !.left = @ \ {b}]
           sent == [push[e][b] EXCEPT !.pc = "inflight"]
<1>1. next \in SubmitProcess /\ next.pc = "remote" /\ next.at = b /\ next.left = submit[e].left \ {b}
  BY TypedProcesses DEF SubmitProcess
<1>2. sent \in PushProcess /\ sent.pc = "inflight"
  BY TypedProcesses DEF PushProcess
<1>3. SubmitBecomes(e, next) /\ targets' = targets /\ PushBecomes(e, b, sent)
  BY DEF DeliverRemote
<1> HIDE DEF next, sent
<1>4. submit'[e] = next /\ push'[e][b] = sent
  BY <1>1, <1>2, <1>3, SubmitUpdate, PushUpdate, TypeOKParts
<1>5. Served(e)'
  <2>1. ASSUME NEW a \in Anchors, NEW r \in Recipients, <<a, r>> \in targets[e]
        PROVE  r \in To[e] /\ (a \in submit[e].left \/ Landed(e, a, r)')
    BY <2>1, LandedLasts DEF Service, Served, DeliverRemote
  <2>2. QED
    BY <1>1, <1>3, <1>4, <2>1 DEF Served
<1>6. LookedAt(e, b)'
  BY <1>2, <1>4 DEF LookedAt
<1>7. QED
  BY <1>1, <1>2, <1>3, <1>5, <1>6, OneSubmission, OnePush DEF Service

(* The peer answers 200 only when it has looked at every recipient.        *)
LEMMA PushAnsweredServed ==
  ASSUME TypeOK, Service, Lasting, NEW e \in Envelopes, PushAnswered(e)
  PROVE  Service'
<1> DEFINE next == [submit[e] EXCEPT !.pc = "routing"]
<1>1. next \in SubmitProcess /\ next.pc = "routing" /\ next.left = submit[e].left
  BY TypedProcesses DEF SubmitProcess
<1>2. SubmitBecomes(e, next) /\ targets' = targets /\ push' = push
  BY DEF PushAnswered
<1> HIDE DEF next
<1>3. submit'[e] = next
  BY <1>1, <1>2, SubmitUpdate, TypeOKParts
<1>4. submit[e].at \in Anchors
  BY TypedProcesses DEF SubmitProcess
<1>5. \A r \in To[e] : Landed(e, submit[e].at, r)
  BY <1>4 DEF Service, LookedAt, PushAnswered
<1>6. Served(e)'
  <2>1. ASSUME NEW a \in Anchors, NEW r \in Recipients, <<a, r>> \in targets[e]
        PROVE  r \in To[e] /\ (a \in submit[e].left \/ Landed(e, a, r)')
    BY <1>5, <2>1, LandedLasts DEF Service, Served, PushAnswered
  <2>2. QED
    BY <1>1, <1>2, <1>3, <2>1 DEF Served
<1>7. QED
  BY <1>1, <1>2, <1>6, OneSubmission, PushesRest DEF Service

LEMMA AcceptServed ==
  ASSUME TypeOK, Service, Lasting, NEW e \in Envelopes, Accept(e)
  PROVE  Service'
<1> DEFINE next == [submit[e] EXCEPT !.pc = "accepted"]
<1>1. next \in SubmitProcess /\ next.pc = "accepted" /\ next.left = {}
  BY TypedProcesses DEF SubmitProcess, Accept
<1>2. SubmitBecomes(e, next) /\ targets' = targets /\ push' = push
  BY DEF Accept
<1> HIDE DEF next
<1>3. submit'[e] = next
  BY <1>1, <1>2, SubmitUpdate, TypeOKParts
<1>4. Served(e)'
  <2>1. ASSUME NEW a \in Anchors, NEW r \in Recipients, <<a, r>> \in targets[e]
        PROVE  r \in To[e] /\ Landed(e, a, r)'
    BY <2>1, LandedLasts DEF Service, Served, Accept
  <2>2. QED
    BY <1>1, <1>2, <1>3, <2>1 DEF Served
<1>5. QED
  BY <1>1, <1>2, <1>4, OneSubmission, PushesRest DEF Service

(* A submission that has not been routed, or that has failed, owes nothing. *)
LEMMA UnroutedServed ==
  ASSUME TypeOK, Service, Lasting, NEW e \in Envelopes,
         \/ Submit(e) \/ RefuseSubmit(e) \/ PushFailed(e) \/ SubmitFails(e)
         \/ \E r \in Recipients : MarkSent(e, r)
  PROVE  Service'
<1>1. PICK p \in SubmitProcess : SubmitBecomes(e, p) /\ p.pc \in {"marking", "rejected"}
  <2>1. submit[e] \in SubmitProcess
    BY TypedProcesses
  <2>2. CASE Submit(e)
    <3>1. [submit[e] EXCEPT !.pc = "marking", !.todo = To[e]] \in SubmitProcess
      BY <2>1, ToAssumption DEF SubmitProcess
    <3>2. [submit[e] EXCEPT !.pc = "marking", !.todo = To[e]].pc = "marking"
      BY <2>1 DEF SubmitProcess
    <3>3. QED
      BY <2>2, <3>1, <3>2 DEF Submit
  <2>3. CASE RefuseSubmit(e) \/ PushFailed(e) \/ SubmitFails(e)
    BY <2>1, <2>3 DEF RefuseSubmit, PushFailed, SubmitFails, SubmitProcess
  <2>4. ASSUME NEW r \in Recipients, MarkSent(e, r)
        PROVE  \E p \in SubmitProcess : SubmitBecomes(e, p) /\ p.pc \in {"marking", "rejected"}
    BY <2>1, <2>4 DEF MarkSent, SubmitProcess
  <2>5. QED
    BY <2>2, <2>3, <2>4
<1>2. targets' = targets /\ push' = push
  BY DEF Submit, RefuseSubmit, PushFailed, SubmitFails, MarkSent
<1>3. Served(e)'
  BY <1>1, SubmitUpdate, TypeOKParts DEF Served
<1>4. QED
  BY <1>1, <1>2, <1>3, OneSubmission, PushesRest DEF Service

(* The loop of append_envelope: a recipient leaves the list only when it   *)
(* has been appended or declined, and the answer waits for the whole list. *)
LEMMA PushServed ==
  ASSUME TypeOK, Service, Lasting, NEW e \in Envelopes, NEW a \in Anchors, NEW p \in PushProcess,
         PushBecomes(e, a, p), UNCHANGED <<submit, targets>>,
         p.pc = "ok" => p.todo = {},
         p.pc \in {"appending", "ok"} =>
           \A r \in To[e] : r \in p.todo \/ Landed(e, a, r) \/ Landed(e, a, r)'
  PROVE  Service'
<1>1. push'[e][a] = p
  BY PushUpdate, TypeOKParts
<1>2. \A r \in To[e] : Landed(e, a, r) => Landed(e, a, r)'
  BY LandedLasts, ToAssumption
<1>3. LookedAt(e, a)'
  BY <1>1, <1>2 DEF LookedAt
<1>4. QED
  BY <1>3, OnePush, SubmissionsRest DEF Service

LEMMA PushStepServed ==
  ASSUME TypeOK, Service, Lasting, NEW e \in Envelopes, NEW a \in Anchors,
         PushStep(e, a) \/ RefusePush(e, a) \/ AppendFails(e, a)
  PROVE  Service'
<1>1. push[e][a] \in PushProcess /\ To[e] \subseteq Recipients /\ LookedAt(e, a)
  BY TypedProcesses, ToAssumption DEF Service
<1>2. CASE ReceivePush(e, a)
  <2>1. [pc |-> "appending", todo |-> To[e], acks |-> {}] \in PushProcess
    BY <1>1 DEF PushProcess
  <2>2. QED
    BY <1>2, <2>1, PushServed DEF ReceivePush
<1>3. CASE RefusePush(e, a)
  <2> DEFINE p == [push[e][a] EXCEPT !.pc = "error"]
  <2>1. p \in PushProcess /\ p.pc = "error"
    BY <1>1 DEF PushProcess
  <2>2. PushBecomes(e, a, p) /\ UNCHANGED <<submit, targets>>
    BY <1>3 DEF RefusePush
  <2> HIDE DEF p
  <2>3. QED
    BY <2>1, <2>2, PushServed
<1>4. CASE AppendFails(e, a)
  <2>1. [pc |-> "error", todo |-> {}, acks |-> {}] \in PushProcess
    BY DEF PushProcess
  <2>2. QED
    BY <1>4, <2>1, PushServed DEF AppendFails
<1>5. CASE AnswerPush(e, a)
  <2> DEFINE p == [push[e][a] EXCEPT !.pc = "ok"]
  <2>1. p \in PushProcess /\ p.pc = "ok" /\ p.todo = push[e][a].todo
    BY <1>1 DEF PushProcess
  <2>2. PushBecomes(e, a, p) /\ UNCHANGED <<submit, targets>>
    BY <1>5 DEF AnswerPush
  <2> HIDE DEF p
  <2>3. p.todo = {} /\ \A r \in To[e] : r \in push[e][a].todo \/ Landed(e, a, r)
    BY <1>1, <1>5, <2>1 DEF AnswerPush, LookedAt
  <2>4. QED
    BY <2>1, <2>2, <2>3, PushServed
<1>6. ASSUME NEW q \in Recipients, AppendRecipient(e, a, q) PROVE Service'
  <2> DEFINE p == [push[e][a] EXCEPT !.todo = @ \ {q}, !.acks = @ \cup {q}]
  <2>1. p \in PushProcess /\ p.pc = push[e][a].pc /\ p.todo = push[e][a].todo \ {q}
    BY <1>1 DEF PushProcess
  <2>2. PushBecomes(e, a, p) /\ UNCHANGED <<submit, targets>> /\ push[e][a].pc = "appending"
    BY <1>6 DEF AppendRecipient
  <2> HIDE DEF p
  <2>3. Landed(e, a, q)'
    BY <1>6, AppendGrows DEF AppendRecipient, Landed
  <2>4. \A r \in To[e] : r \in push[e][a].todo \/ Landed(e, a, r)
    BY <1>1, <2>2 DEF LookedAt
  <2>5. QED
    BY <2>1, <2>2, <2>3, <2>4, PushServed
<1>7. ASSUME NEW q \in Recipients, SkipRecipient(e, a, q) PROVE Service'
  <2> DEFINE p == [push[e][a] EXCEPT !.todo = @ \ {q}]
  <2>1. p \in PushProcess /\ p.pc = push[e][a].pc /\ p.todo = push[e][a].todo \ {q}
    BY <1>1 DEF PushProcess
  <2>2. PushBecomes(e, a, p) /\ UNCHANGED <<submit, targets>> /\ push[e][a].pc = "appending"
    BY <1>7 DEF SkipRecipient
  <2> HIDE DEF p
  <2>3. Landed(e, a, q)'
    <3>1. skipped \in [Envelopes -> [Anchors -> SUBSET Recipients]]
      BY DEF TypeOK
    <3>2. QED
      BY <1>7, <3>1 DEF SkipRecipient, Landed
  <2>4. \A r \in To[e] : r \in push[e][a].todo \/ Landed(e, a, r)
    BY <1>1, <2>2 DEF LookedAt
  <2>5. QED
    BY <2>1, <2>2, <2>3, <2>4, PushServed
<1>8. ASSUME NEW q \in Recipients, PushAck(e, a, q) PROVE Service'
  <2> DEFINE p == [push[e][a] EXCEPT !.acks = @ \ {q}]
  <2>1. p \in PushProcess /\ p.pc = push[e][a].pc /\ p.todo = push[e][a].todo
    BY <1>1 DEF PushProcess
  <2>2. PushBecomes(e, a, p) /\ UNCHANGED <<submit, targets>> /\ push[e][a].pc = "appending"
    BY <1>8 DEF PushAck
  <2> HIDE DEF p
  <2>3. \A r \in To[e] : r \in push[e][a].todo \/ Landed(e, a, r)
    BY <1>1, <2>2 DEF LookedAt
  <2>4. QED
    BY <2>1, <2>2, <2>3, PushServed
<1>9. QED
  BY <1>2, <1>3, <1>4, <1>5, <1>6, <1>7, <1>8 DEF PushStep

(* A restart ends requests that were being served; those answered stand.   *)
LEMMA RestartServed ==
  ASSUME TypeOK, Service, Lasting, NEW a \in Anchors, Restart(a)
  PROVE  Service'
<1>1. \A d \in Envelopes, b \in Anchors :
        push'[d][b] = push[d][b] \/ push'[d][b].pc = "error"
  BY TypeOKParts DEF Restart, PushesTyped
<1>2. ASSUME NEW d \in Envelopes, NEW b \in Anchors PROVE LookedAt(d, b)'
  <2>1. CASE push'[d][b] = push[d][b]
    BY <2>1, LookedAtLasts DEF Service
  <2>2. CASE push'[d][b].pc = "error"
    BY <2>2 DEF LookedAt
  <2>3. QED
    BY <1>1, <2>1, <2>2
<1>3. \A d \in Envelopes : submit'[d] = submit[d] \/ submit'[d].pc = "rejected"
  BY TypeOKParts, TypedProcesses DEF Restart, SubmitsTyped, SubmitProcess
<1>4. ASSUME NEW d \in Envelopes PROVE Served(d)'
  <2>1. CASE submit'[d] = submit[d]
    BY <2>1, ServedLasts DEF Service, Restart
  <2>2. CASE submit'[d].pc = "rejected"
    BY <2>2 DEF Served
  <2>3. QED
    BY <1>3, <2>1, <2>2
<1>5. QED
  BY <1>2, <1>4 DEF Service

LEMMA ServiceInit == Init => Service
  BY DEF Init, Service, Served, LookedAt

LEMMA ServiceNext == TypeOK /\ Service /\ [Next]_vars => Service'
<1> SUFFICES ASSUME TypeOK, Service, [Next]_vars PROVE Service'
  OBVIOUS
<1>1. Lasting
  BY NextLasts
<1>2. ASSUME NEW e \in Envelopes,
             Submit(e) \/ RefuseSubmit(e) \/ SubmitStep(e) \/ SubmitFails(e)
      PROVE  Service'
  BY <1>1, <1>2, RouteServed, DeliverLocalServed, AppendLocalServed, DeliverRemoteServed,
     PushAnsweredServed, AcceptServed, UnroutedServed DEF SubmitStep
<1>3. ASSUME NEW e \in Envelopes, NEW a \in Anchors,
             PushStep(e, a) \/ RefusePush(e, a) \/ AppendFails(e, a)
      PROVE  Service'
  BY <1>1, <1>3, PushStepServed
<1>4. ASSUME NEW a \in Anchors, Restart(a) PROVE Service'
  BY <1>1, <1>4, RestartServed
<1>5. ASSUME UNCHANGED <<submit, targets, push>> PROVE Service'
  BY <1>1, <1>5, SubmissionsRest, PushesRest DEF Service
<1>6. ASSUME NEW e \in Envelopes, NEW a \in Anchors, NEW r \in Recipients,
             \/ ReadOnDevice(e, a, r) \/ HandleAck(e, r, a) \/ HandleMarker(e, r, a)
             \/ \E s \in {"delivered", "read"} : ShowState(e, r, a, s)
      PROVE  Service'
  BY <1>5, <1>6 DEF ReadOnDevice, HandleAck, HandleMarker, ShowState
<1>7. ASSUME LoseReceipt \/ UNCHANGED vars PROVE Service'
  BY <1>5, <1>7 DEF LoseReceipt, vars
<1>8. ASSUME NEW a \in Anchors, NEW r \in Recipients, NEW list \in AnchorLists, Move(a, r, list)
      PROVE  Service'
  BY <1>5, <1>8 DEF Move
<1>9. QED
  BY <1>2, <1>3, <1>4, <1>6, <1>7, <1>8 DEF Next

(* At every moment each target of a submission is waiting, being served,   *)
(* or done (deliver_targets), and each push has dealt with the recipients   *)
(* no longer on its list (append_envelope).                                *)
THEOREM ServiceAlways == Spec => []Service
<1>1. TypeOK /\ Service /\ [Next]_vars => (TypeOK /\ Service)'
  BY NextTypeOK, ServiceNext
<1>2. QED
  BY <1>1, InitTypeOK, ServiceInit, PTL DEF Spec

(* A submission that the client is told succeeded is stored at every target *)
(* it was routed to, save for recipients the target declined as not its    *)
(* own (submit_dm, append_envelope).                                       *)
THEOREM AcceptedStored == Spec => []AcceptedIsStored
<1>1. TypeOK /\ Service => AcceptedIsStored
  <2> SUFFICES ASSUME TypeOK, Service, NEW e \in Envelopes, submit[e].pc = "accepted",
                      NEW p \in targets[e]
               PROVE  e \in inbox[p[1]][p[2]] \/ p[2] \in skipped[e][p[1]]
    BY DEF AcceptedIsStored
  <2>1. PICK a \in Anchors, r \in Recipients : p = <<a, r>>
    BY DEF TypeOK
  <2>2. Landed(e, a, r)
    BY <2>1 DEF Service, Served
  <2>3. QED
    BY <2>1, <2>2 DEF Landed
<1>2. QED
  BY <1>1, TypeCorrect, ServiceAlways, PTL

=============================================================================
