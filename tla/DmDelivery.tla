---------------------------- MODULE DmDelivery ----------------------------
(***************************************************************************)
(* Delivery of direct messages between anchors, as run by the sender's     *)
(* anchor Home and by the anchors of the recipients:                       *)
(*   - Yawp.Federation (submit_dm, deliver_dm, append_inbox, the two       *)
(*     apply_* functions) on the sender's side;                            *)
(*   - YawpWeb.FederationController (inbox_push, inbox_ack,                *)
(*     inbox_read_marker) on both sides;                                   *)
(*   - YawpWeb.UserChannel (read_marker, delivery_state) towards devices.  *)
(* Every HTTP request is handled by a process of its own, so the           *)
(* submission of an envelope, the handler of each push and the handlers of *)
(* acks and read markers interleave at every database statement.           *)
(*                                                                         *)
(* An envelope is submitted once: the client draws a new envelope_id for   *)
(* every submission.  The serial numbers inside an inbox are the subject   *)
(* of module InboxLog; here an inbox is the set of envelopes it holds.     *)
(***************************************************************************)
EXTENDS Naturals, FiniteSets

CONSTANTS
  Anchors,      \* the anchor servers
  Home,         \* the anchor of the sender, where envelopes are submitted
  Recipients,   \* the recipients' DIDs
  Envelopes,    \* envelope ids, numbered in the order of the conversation
  To,           \* To[e]: the recipient_dids of envelope e
  AnchorLists,  \* the values the anchors list of a cached profile can take
  View0,        \* View0[a][r]: r's anchors as cached at a when we start
  Receipts,     \* Receipts[a]: who has read receipts enabled, as known at a
  Faults,       \* which of the faults "refuse", "db", "loss" may happen
  MaxMoves,     \* bound on the cached profiles replaced during a run
  MaxRestarts   \* bound on the restarts of an anchor

ASSUME HomeAssumption == Home \in Anchors
ASSUME ToAssumption == To \in [Envelopes -> SUBSET Recipients]
ASSUME EnvelopesAssumption == Envelopes \subseteq Nat
ASSUME ListsAssumption == AnchorLists \subseteq SUBSET Anchors
ASSUME ViewAssumption == View0 \in [Anchors -> [Recipients -> AnchorLists]]
ASSUME ReceiptsAssumption == Receipts \in [Anchors -> SUBSET Recipients]
ASSUME BoundsAssumption == MaxMoves \in Nat /\ MaxRestarts \in Nat

VARIABLES
  view,      \* view[a][r]: the anchors of r according to a's database
  submit,    \* submit[e]: the process serving POST /api/dm/submit for e
  targets,   \* targets[e]: the pairs <<anchor, recipient>> e is routed to
  dstate,    \* dstate[e][r]: the row of federation_delivery_states at Home
  inbox,     \* inbox[a][r]: the envelopes in r's inbox at a
  push,      \* push[e][a]: the process at a serving the push of e
  skipped,   \* skipped[e][a]: recipients a declined as not its own
  acks,      \* delivery acks on their way to Home
  seen,      \* seen[a][r]: envelopes r's devices marked read through a
  markers,   \* read markers on their way to Home
  origin,    \* envelopes whose sender Home still holds in persistent_term
  events,    \* delivery_state broadcasts not yet received by the device
  shown,     \* shown[e][r]: the state the sender's device displays
  moves,     \* cached profiles replaced so far
  restarts   \* restarts so far

vars == <<view, submit, targets, dstate, inbox, push, skipped, acks, seen,
          markers, origin, events, shown, moves, restarts>>
dbVars == <<dstate, inbox>>
wireVars == <<acks, markers, events>>
deviceVars == <<seen, shown>>
envVars == <<view, moves, restarts>>

-----------------------------------------------------------------------------
(* Data                                                                    *)

States == {"none", "sent", "delivered", "read"}

(* A receipt is an ack or a read marker: e, its recipient, the anchor that *)
(* signed it.                                                              *)
Receipt == Envelopes \X Recipients \X Anchors

(* An event is a broadcast of Home to the sender's devices, with the anchor *)
(* whose receipt caused it.                                                *)
Event == Envelopes \X Recipients \X Anchors \X {"delivered", "read"}

SubmitProcess ==
  [pc   : {"idle", "marking", "routing", "local", "remote", "accepted", "rejected"},
   todo : SUBSET Recipients,   \* rows to mark sent, or local inboxes to fill
   left : SUBSET Anchors,      \* targets of deliver_targets not yet tried
   at   : Anchors]             \* the target being tried

PushProcess ==
  [pc   : {"none", "inflight", "appending", "ok", "error"},
   todo : SUBSET Recipients,   \* recipient_dids not yet looked at
   acks : SUBSET Recipients]   \* acks produced and not yet pushed

TypeOK ==
  /\ view \in [Anchors -> [Recipients -> AnchorLists]]
  /\ submit \in [Envelopes -> SubmitProcess]
  /\ targets \in [Envelopes -> SUBSET (Anchors \X Recipients)]
  /\ dstate \in [Envelopes -> [Recipients -> States]]
  /\ inbox \in [Anchors -> [Recipients -> SUBSET Envelopes]]
  /\ push \in [Envelopes -> [Anchors -> PushProcess]]
  /\ skipped \in [Envelopes -> [Anchors -> SUBSET Recipients]]
  /\ acks \subseteq Receipt
  /\ seen \in [Anchors -> [Recipients -> SUBSET Envelopes]]
  /\ markers \subseteq Receipt
  /\ origin \subseteq Envelopes
  /\ events \subseteq Event
  /\ shown \in [Envelopes -> [Recipients -> States]]
  /\ moves \in 0..MaxMoves
  /\ restarts \in 0..MaxRestarts

Init ==
  /\ view = View0
  /\ submit = [e \in Envelopes |-> [pc |-> "idle", todo |-> {}, left |-> {}, at |-> Home]]
  /\ targets = [e \in Envelopes |-> {}]
  /\ dstate = [e \in Envelopes |-> [r \in Recipients |-> "none"]]
  /\ inbox = [a \in Anchors |-> [r \in Recipients |-> {}]]
  /\ push = [e \in Envelopes |-> [a \in Anchors |-> [pc |-> "none", todo |-> {}, acks |-> {}]]]
  /\ skipped = [e \in Envelopes |-> [a \in Anchors |-> {}]]
  /\ acks = {}
  /\ seen = [a \in Anchors |-> [r \in Recipients |-> {}]]
  /\ markers = {}
  /\ origin = {}
  /\ events = {}
  /\ shown = [e \in Envelopes |-> [r \in Recipients |-> "none"]]
  /\ moves = 0
  /\ restarts = 0

(* The process of a submission, or of a push, moves on.                    *)
SubmitBecomes(e, p) == submit' = [submit EXCEPT ![e] = p]
PushBecomes(e, a, p) == push' = [push EXCEPT ![e][a] = p]

-----------------------------------------------------------------------------
(* Writes to the database                                                  *)

(* DeliveryState :upsert replaces the state of an existing row whatever it  *)
(* is.                                                                     *)
UpsertState(e, r, s) == dstate' = [dstate EXCEPT ![e][r] = s]

(* append_inbox: an envelope already in the inbox stays there once.        *)
AppendInbox(a, r, e) == inbox' = [inbox EXCEPT ![a][r] = @ \cup {e}]

-----------------------------------------------------------------------------
(* The sender's anchor: submit_dm                                          *)

(* The device signature is good and the sender is anchored here; the       *)
(* sender is remembered in persistent_term before any row is written.      *)
Submit(e) ==
  /\ submit[e].pc = "idle"
  /\ SubmitBecomes(e, [submit[e] EXCEPT !.pc = "marking", !.todo = To[e]])
  /\ origin' = origin \cup {e}
  /\ UNCHANGED <<envVars, targets, dbVars, push, skipped, wireVars, deviceVars>>

(* Either is not: nothing has been written yet.                            *)
RefuseSubmit(e) ==
  /\ "refuse" \in Faults
  /\ submit[e].pc = "idle"
  /\ SubmitBecomes(e, [submit[e] EXCEPT !.pc = "rejected"])
  /\ UNCHANGED <<envVars, targets, dbVars, push, skipped, wireVars, origin, deviceVars>>

(* mark_sent writes one row per recipient, each in its own transaction.    *)
MarkSent(e, r) ==
  /\ submit[e].pc = "marking"
  /\ r \in submit[e].todo
  /\ UpsertState(e, r, "sent")
  /\ SubmitBecomes(e, [submit[e] EXCEPT !.todo = @ \ {r}])
  /\ UNCHANGED <<envVars, targets, inbox, push, skipped, wireVars, origin, deviceVars>>

(* deliver_dm groups the recipients by anchor, from the cached profiles;   *)
(* without any target the envelope is unresolvable.                        *)
Route(e) ==
  /\ submit[e].pc = "marking"
  /\ submit[e].todo = {}
  /\ LET pairs == {p \in Anchors \X To[e] : p[1] \in view[Home][p[2]]} IN
       /\ targets' = [targets EXCEPT ![e] = pairs]
       /\ SubmitBecomes(e, [submit[e] EXCEPT !.pc = IF pairs = {} THEN "rejected" ELSE "routing",
                        !.left = {p[1] : p \in pairs}])
  /\ UNCHANGED <<envVars, dbVars, push, skipped, wireVars, origin, deviceVars>>

(* deliver_targets takes the groups one after the other: its own group is   *)
(* appended here, any other is pushed to its anchor.                       *)
DeliverLocal(e) ==
  /\ submit[e].pc = "routing"
  /\ Home \in submit[e].left
  /\ SubmitBecomes(e, [submit[e] EXCEPT !.pc = "local",
                        !.left = @ \ {Home},
                        !.todo = {r \in Recipients : <<Home, r>> \in targets[e]}])
  /\ UNCHANGED <<envVars, targets, dbVars, push, skipped, wireVars, origin, deviceVars>>

AppendLocal(e, r) ==
  /\ submit[e].pc = "local"
  /\ r \in submit[e].todo
  /\ AppendInbox(Home, r, e)
  /\ SubmitBecomes(e, [submit[e] EXCEPT !.todo = @ \ {r},
                        !.pc = IF submit[e].todo = {r} THEN "routing" ELSE "local"])
  /\ UNCHANGED <<envVars, targets, dstate, push, skipped, wireVars, origin, deviceVars>>

DeliverRemote(e, a) ==
  /\ submit[e].pc = "routing"
  /\ a \in submit[e].left \ {Home}
  /\ SubmitBecomes(e, [submit[e] EXCEPT !.pc = "remote", !.at = a, !.left = @ \ {a}])
  /\ PushBecomes(e, a, [push[e][a] EXCEPT !.pc = "inflight"])
  /\ UNCHANGED <<envVars, targets, dbVars, skipped, wireVars, origin, deviceVars>>

(* The peer answered 200.                                                  *)
PushAnswered(e) ==
  /\ submit[e].pc = "remote"
  /\ push[e][submit[e].at].pc = "ok"
  /\ SubmitBecomes(e, [submit[e] EXCEPT !.pc = "routing"])
  /\ UNCHANGED <<envVars, targets, dbVars, push, skipped, wireVars, origin, deviceVars>>

(* Mutant: a failed target is passed over as if it had been served.        *)
PushFailedContinues(e) ==
  /\ submit[e].pc = "remote"
  /\ \/ push[e][submit[e].at].pc = "error"
     \/ "loss" \in Faults
  /\ SubmitBecomes(e, [submit[e] EXCEPT !.pc = "routing"])
  /\ UNCHANGED <<envVars, targets, dbVars, push, skipped, wireVars, origin, deviceVars>>

(* Mutant: without retry: false, a push that has failed is sent again.     *)
PushFailedRetried(e) ==
  LET a == submit[e].at IN
  /\ submit[e].pc = "remote"
  /\ push[e][a].pc = "error" \/ "loss" \in Faults
  /\ PushBecomes(e, a, [pc |-> "inflight", todo |-> {}, acks |-> {}])
  /\ UNCHANGED <<envVars, submit, targets, dbVars, skipped, wireVars, origin, deviceVars>>

(* The peer answered an error, or nothing within the receive timeout: the  *)
(* first failure ends the loop and the client is told so.  The request may *)
(* still be under way at the peer.                                         *)
PushFailed(e) ==
  /\ submit[e].pc = "remote"
  /\ \/ push[e][submit[e].at].pc = "error"
     \/ "loss" \in Faults
  /\ SubmitBecomes(e, [submit[e] EXCEPT !.pc = "rejected"])
  /\ UNCHANGED <<envVars, targets, dbVars, push, skipped, wireVars, origin, deviceVars>>

(* A statement of submit_dm failed.                                        *)
SubmitFails(e) ==
  /\ "db" \in Faults
  /\ submit[e].pc \in {"marking", "local"}
  /\ SubmitBecomes(e, [submit[e] EXCEPT !.pc = "rejected"])
  /\ UNCHANGED <<envVars, targets, dbVars, push, skipped, wireVars, origin, deviceVars>>

(* Every target has been served.                                           *)
Accept(e) ==
  /\ submit[e].pc = "routing"
  /\ submit[e].left = {}
  /\ SubmitBecomes(e, [submit[e] EXCEPT !.pc = "accepted"])
  /\ UNCHANGED <<envVars, targets, dbVars, push, skipped, wireVars, origin, deviceVars>>

-----------------------------------------------------------------------------
(* A recipient's anchor: inbox_push                                        *)

(* The wrapper, the delivery budget and the device signature are in order. *)
ReceivePush(e, a) ==
  /\ push[e][a].pc = "inflight"
  /\ PushBecomes(e, a, [pc |-> "appending", todo |-> To[e], acks |-> {}])
  /\ UNCHANGED <<envVars, submit, targets, dbVars, skipped, wireVars, origin, deviceVars>>

(* One of them is not (400, 401, 403, 409, 422, 429), or the request is lost. *)
RefusePush(e, a) ==
  /\ "refuse" \in Faults
  /\ push[e][a].pc = "inflight"
  /\ PushBecomes(e, a, [push[e][a] EXCEPT !.pc = "error"])
  /\ UNCHANGED <<envVars, submit, targets, dbVars, skipped, wireVars, origin, deviceVars>>

(* append_envelope appends for each recipient the anchor holds itself to be *)
(* an anchor of, and skips the others.                                     *)
AppendRecipient(e, a, r) ==
  /\ push[e][a].pc = "appending"
  /\ r \in push[e][a].todo
  /\ a \in view[a][r]
  /\ AppendInbox(a, r, e)
  /\ PushBecomes(e, a, [push[e][a] EXCEPT !.todo = @ \ {r}, !.acks = @ \cup {r}])
  /\ UNCHANGED <<envVars, submit, targets, dstate, skipped, wireVars, origin, deviceVars>>

SkipRecipient(e, a, r) ==
  /\ push[e][a].pc = "appending"
  /\ r \in push[e][a].todo
  /\ a \notin view[a][r]
  /\ PushBecomes(e, a, [push[e][a] EXCEPT !.todo = @ \ {r}])
  /\ skipped' = [skipped EXCEPT ![e][a] = @ \cup {r}]
  /\ UNCHANGED <<envVars, submit, targets, dbVars, wireVars, origin, deviceVars>>

(* Mutant: the acks of the whole list are sent although an insert failed.  *)
AppendFailsAcked(e, a) ==
  /\ "db" \in Faults
  /\ push[e][a].pc = "appending"
  /\ push[e][a].todo # {}
  /\ PushBecomes(e, a, [pc |-> "appending", todo |-> {}, acks |-> To[e]])
  /\ UNCHANGED <<envVars, submit, targets, dbVars, skipped, wireVars, origin, deviceVars>>

(* An insert failed: the loop halts, what was appended stays appended and   *)
(* none of it is acknowledged.                                             *)
AppendFails(e, a) ==
  /\ "db" \in Faults
  /\ push[e][a].pc = "appending"
  /\ push[e][a].todo # {}
  /\ PushBecomes(e, a, [pc |-> "error", todo |-> {}, acks |-> {}])
  /\ UNCHANGED <<envVars, submit, targets, dbVars, skipped, wireVars, origin, deviceVars>>

(* push_delivery_acks posts the acks one by one, before the push itself is *)
(* answered, and does not look at the outcome.  A slow ack is given up     *)
(* after the timeout, so the next step never has to wait for it.           *)
PushAck(e, a, r) ==
  /\ push[e][a].pc = "appending"
  /\ push[e][a].todo = {}
  /\ r \in push[e][a].acks
  /\ PushBecomes(e, a, [push[e][a] EXCEPT !.acks = @ \ {r}])
  /\ acks' = acks \cup {<<e, r, a>>}
  /\ UNCHANGED <<envVars, submit, targets, dbVars, skipped, markers, events, origin, deviceVars>>

AnswerPush(e, a) ==
  /\ push[e][a].pc = "appending"
  /\ push[e][a].todo = {}
  /\ push[e][a].acks = {}
  /\ PushBecomes(e, a, [push[e][a] EXCEPT !.pc = "ok"])
  /\ UNCHANGED <<envVars, submit, targets, dbVars, skipped, wireVars, origin, deviceVars>>

-----------------------------------------------------------------------------
(* Reading                                                                 *)

(* Mutant: the marker is forwarded whatever the recipient's setting.       *)
ReadOnDeviceAlways(e, a, r) ==
  /\ e \in inbox[a][r]
  /\ seen' = [seen EXCEPT ![a][r] = @ \cup {e}]
  /\ markers' = markers \cup {<<e, r, a>>}
  /\ UNCHANGED <<envVars, submit, targets, dbVars, push, skipped, acks, events, origin, shown>>

(* A device of r connected to a shows e and pushes a read_marker for it;    *)
(* a forwards the marker in a process of its own when r's receipts are on. *)
(* Another device of r may do the same later.                              *)
ReadOnDevice(e, a, r) ==
  /\ e \in inbox[a][r]
  /\ seen' = [seen EXCEPT ![a][r] = @ \cup {e}]
  /\ markers' = IF r \in Receipts[a] THEN markers \cup {<<e, r, a>>} ELSE markers
  /\ UNCHANGED <<envVars, submit, targets, dbVars, push, skipped, acks, events, origin, shown>>

-----------------------------------------------------------------------------
(* The sender's anchor: inbox_ack and inbox_read_marker                    *)

(* recipient_anchor_allowed?: Home knows the signing anchor as r's.        *)
AnchorAllowed(r, a) == a \in view[Home][r]

(* sender_did_for_envelope: from persistent_term, or from the one inbox    *)
(* entry of this envelope at Home when there is exactly one.               *)
SenderKnown(e) ==
  \/ e \in origin
  \/ Cardinality({r \in Recipients : e \in inbox[Home][r]}) = 1

(* publish_delivery_state runs after the upsert, so the broadcasts of two  *)
(* handlers reach the device in either order.                              *)
Publish(e, r, a, s) ==
  events' = IF SenderKnown(e) THEN events \cup {<<e, r, a, s>>} ELSE events

(* apply_delivery_ack and apply_read_marker: the row must exist; its       *)
(* current state is not looked at.                                         *)
ApplyReceipt(e, r, a, s) ==
  \/ /\ AnchorAllowed(r, a) /\ dstate[e][r] # "none"
     /\ UpsertState(e, r, s)
     /\ Publish(e, r, a, s)
  \/ /\ ~(AnchorAllowed(r, a) /\ dstate[e][r] # "none")
     /\ UNCHANGED <<dstate, events>>

HandleAck(e, r, a) ==
  /\ <<e, r, a>> \in acks
  /\ acks' = acks \ {<<e, r, a>>}
  /\ ApplyReceipt(e, r, a, "delivered")
  /\ UNCHANGED <<envVars, submit, targets, inbox, push, skipped, markers, origin, deviceVars>>

(* outbound_read_receipts_enabled: Home drops the marker of a recipient    *)
(* whose own row at Home has receipts turned off.                          *)
HandleMarker(e, r, a) ==
  /\ <<e, r, a>> \in markers
  /\ markers' = markers \ {<<e, r, a>>}
  /\ IF r \in Receipts[Home] THEN ApplyReceipt(e, r, a, "read")
                             ELSE UNCHANGED <<dstate, events>>
  /\ UNCHANGED <<envVars, submit, targets, inbox, push, skipped, acks, origin, deviceVars>>

(* A receipt, or a broadcast to a device that is not connected, is lost.   *)
LoseReceipt ==
  /\ "loss" \in Faults
  /\ \/ \E m \in acks : acks' = acks \ {m} /\ UNCHANGED <<markers, events>>
     \/ \E m \in markers : markers' = markers \ {m} /\ UNCHANGED <<acks, events>>
     \/ \E m \in events : events' = events \ {m} /\ UNCHANGED <<acks, markers>>
  /\ UNCHANGED <<envVars, submit, targets, dbVars, push, skipped, origin, deviceVars>>

(* The channel pushes the broadcast; the client keeps the latest it got.   *)
ShowState(e, r, a, s) ==
  /\ <<e, r, a, s>> \in events
  /\ events' = events \ {<<e, r, a, s>>}
  /\ shown' = [shown EXCEPT ![e][r] = s]
  /\ UNCHANGED <<envVars, submit, targets, dbVars, push, skipped, acks, markers, origin, seen>>

-----------------------------------------------------------------------------
(* The surroundings                                                        *)

(* A newer profile of r reaches a.                                         *)
Move(a, r, list) ==
  /\ moves < MaxMoves
  /\ list # view[a][r]
  /\ view' = [view EXCEPT ![a][r] = list]
  /\ moves' = moves + 1
  /\ UNCHANGED <<submit, targets, dbVars, push, skipped, wireVars, origin, deviceVars, restarts>>

(* An anchor goes down and comes back: the requests it was serving end     *)
(* with a closed connection, its memory is gone, its database is not.      *)
Restart(a) ==
  /\ restarts < MaxRestarts
  /\ restarts' = restarts + 1
  /\ push' = [e \in Envelopes |-> [push[e] EXCEPT ![a] =
               IF @.pc = "appending" THEN [pc |-> "error", todo |-> {}, acks |-> {}] ELSE @]]
  /\ IF a = Home
     THEN /\ submit' = [e \in Envelopes |->
                         IF submit[e].pc \in {"idle", "accepted"} THEN submit[e]
                         ELSE [submit[e] EXCEPT !.pc = "rejected"]]
          /\ origin' = {}
          /\ events' = {}
     ELSE UNCHANGED <<submit, origin, events>>
  /\ UNCHANGED <<view, moves, targets, dbVars, skipped, acks, markers, deviceVars>>

-----------------------------------------------------------------------------
(* Specification                                                           *)

SubmitStep(e) ==
  \/ Route(e) \/ DeliverLocal(e) \/ PushAnswered(e) \/ PushFailed(e) \/ Accept(e)
  \/ \E r \in Recipients : MarkSent(e, r) \/ AppendLocal(e, r)
  \/ \E a \in Anchors : DeliverRemote(e, a)

PushStep(e, a) ==
  \/ ReceivePush(e, a) \/ AnswerPush(e, a)
  \/ \E r \in Recipients :
       AppendRecipient(e, a, r) \/ SkipRecipient(e, a, r) \/ PushAck(e, a, r)

Next ==
  \/ \E e \in Envelopes :
       \/ Submit(e) \/ RefuseSubmit(e) \/ SubmitStep(e) \/ SubmitFails(e)
       \/ \E a \in Anchors : PushStep(e, a) \/ RefusePush(e, a) \/ AppendFails(e, a)
       \/ \E a \in Anchors, r \in Recipients :
            \/ ReadOnDevice(e, a, r) \/ HandleAck(e, r, a) \/ HandleMarker(e, r, a)
            \/ \E s \in {"delivered", "read"} : ShowState(e, r, a, s)
  \/ LoseReceipt
  \/ \E a \in Anchors :
       \/ Restart(a)
       \/ \E r \in Recipients, list \in AnchorLists : Move(a, r, list)

Spec == Init /\ [][Next]_vars

(* A request that has reached a process is served to its end, and a receipt *)
(* on the wire is handled.  Nobody is obliged to submit or to read.        *)
Fairness ==
  /\ \A e \in Envelopes : WF_vars(SubmitStep(e))
  /\ \A e \in Envelopes, a \in Anchors : WF_vars(PushStep(e, a))
  /\ \A e \in Envelopes, a \in Anchors, r \in Recipients :
       WF_vars(HandleAck(e, r, a)) /\ WF_vars(HandleMarker(e, r, a))

FairSpec == Spec /\ Fairness

-----------------------------------------------------------------------------
(* Properties                                                              *)

Stored(e, r) == \E a \in Anchors : e \in inbox[a][r]

(* Wherever an envelope counts as delivered or read, in the sender's       *)
(* database, on the wire or on the sender's screen, some anchor of that    *)
(* very recipient has written it to the inbox: neither a skipped           *)
(* recipient, nor a halted append loop, nor a crash between the append and *)
(* the ack makes apply_delivery_ack report what was not stored.            *)
DeliveredIsStored ==
  \A e \in Envelopes, r \in Recipients :
    \/ dstate[e][r] \in {"delivered", "read"}
    \/ shown[e][r] \in {"delivered", "read"}
    \/ \E a \in Anchors : <<e, r, a>> \in acks \cup markers
    => Stored(e, r)

(* "read" is reported to the sender only of an envelope one of the         *)
(* recipient's own devices has marked read, through an anchor at which the *)
(* recipient shares read receipts, and never against the setting known to  *)
(* the sender's anchor (forward_read_marker, outbound_read_receipts_       *)
(* enabled).                                                               *)
ReadIsConsented ==
  \A e \in Envelopes, r \in Recipients :
    "read" \in {dstate[e][r], shown[e][r]}
    => /\ r \in Receipts[Home]
       /\ \E a \in Anchors : r \in Receipts[a] /\ e \in seen[a][r]

(* When the client is told that the submission succeeded, every target the *)
(* anchor routed the envelope to holds it, save for the recipients that    *)
(* anchor declined as not its own (deliver_targets, append_envelope).      *)
AcceptedIsStored ==
  \A e \in Envelopes :
    submit[e].pc = "accepted" =>
      \A p \in targets[e] : e \in inbox[p[1]][p[2]] \/ p[2] \in skipped[e][p[1]]

(* A receipt never outruns the row it refers to: whatever the schedule,    *)
(* mark_sent has written the row before any anchor can ack the envelope or *)
(* have it read, so that inbox_ack never answers unknown_delivery_state to *)
(* an honest anchor.                                                       *)
ReceiptHasRow == \A m \in acks \cup markers : dstate[m[1]][m[2]] # "none"

(* A row that has been delivered or read is never set back to sent, and no *)
(* row is ever deleted, although upsert writes whatever it is told.        *)
StaysReported ==
  \A e \in Envelopes, r \in Recipients :
    dstate[e][r] \in {"delivered", "read"} => dstate'[e][r] \in {"delivered", "read"}

NoReturnToSent == [][StaysReported]_vars

(* Every submission the anchor has begun is answered, in spite of refusing *)
(* or unreachable peers and of restarts.                                   *)
SubmissionEnds ==
  \A e \in Envelopes :
    submit[e].pc = "marking" ~> submit[e].pc \in {"accepted", "rejected"}

(* Anchors, requests and receipts together keep the promise of module      *)
(* DeliveryPromise: no interleaving, fault or restart makes a step that the *)
(* promise has no name for.                                                *)
StoredPairs == {p \in Envelopes \X Recipients : Stored(p[1], p[2])}
SeenPairs == {p \in Envelopes \X Recipients : \E a \in Anchors : p[1] \in seen[a][p[2]]}

Promise == INSTANCE DeliveryPromise WITH status <- dstate, stored <- StoredPairs, seen <- SeenPairs

KeepsPromise == Promise!Spec

(* What ADR 025 says of the states: a read envelope never goes back to     *)
(* delivered.                                                              *)
StatesAreMonotonic ==
  [][\A e \in Envelopes, r \in Recipients : dstate[e][r] = "read" => dstate'[e][r] = "read"]_vars

=============================================================================
