-------------------------- MODULE DeliveryPromise --------------------------
(***************************************************************************)
(* What the delivery of direct messages promises, with the anchors, the    *)
(* requests and the receipts between them left out: for each envelope and  *)
(* each of its recipients, whether some anchor of the recipient holds the  *)
(* envelope, whether a device of the recipient has read it, and the state  *)
(* the sender is told.  The state may be behind, and may waver between     *)
(* delivered and read; it never promises what has not happened.            *)
(***************************************************************************)
EXTENDS Naturals

CONSTANTS Envelopes, Recipients

VARIABLES
  status,   \* status[e][r]: the state recorded for the sender
  stored,   \* the pairs <<e, r>> with e in an inbox of r
  seen      \* the pairs <<e, r>> with e read on a device of r

vars == <<status, stored, seen>>

Init ==
  /\ status = [e \in Envelopes |-> [r \in Recipients |-> "none"]]
  /\ stored = {}
  /\ seen = {}

Record(e, r, s) == status' = [status EXCEPT ![e][r] = s] /\ UNCHANGED <<stored, seen>>

(* The sender's anchor takes the envelope on for r, once.                  *)
Send(e, r) == status[e][r] = "none" /\ Record(e, r, "sent")

(* An anchor writes the envelope to r's inbox; it was taken on before.     *)
Store(e, r) ==
  /\ status[e][r] # "none"
  /\ stored' = stored \cup {<<e, r>>}
  /\ UNCHANGED <<status, seen>>

(* A device of r reads the envelope.                                       *)
See(e, r) ==
  /\ <<e, r>> \in stored
  /\ seen' = seen \cup {<<e, r>>}
  /\ UNCHANGED <<status, stored>>

Deliver(e, r) == <<e, r>> \in stored /\ Record(e, r, "delivered")

Read(e, r) == <<e, r>> \in seen /\ Record(e, r, "read")

Next ==
  \E e \in Envelopes, r \in Recipients :
    Send(e, r) \/ Store(e, r) \/ See(e, r) \/ Deliver(e, r) \/ Read(e, r)

Spec == Init /\ [][Next]_vars
=============================================================================
