--------------------------- MODULE MCDmDelivery ---------------------------
(* Instances of DmDelivery for TLC: who is anchored where, and who is sent  *)
(* what.                                                                   *)
EXTENDS DmDelivery, TLC

CONSTANTS home, a1, a2, r1, r2

AllConsent == [a \in Anchors |-> Recipients]

(* The sender's anchor has r1 as its own and r2 at a1: one envelope takes   *)
(* both ways.  r1 has moved to a1 in fact.  r2 shares no receipts at a1,   *)
(* which the sender's anchor does not know.                                *)
OneTo == 1 :> {r1, r2}
OneView == [a \in Anchors |-> (r1 :> {a}) @@ (r2 :> {a1})]
OneLists == {{home}, {a1}}
OneConsent == [a \in Anchors |-> IF a = home THEN {r1, r2} ELSE {r1}]

(* Two envelopes of one conversation.                                      *)
PairTo == (1 :> {r1}) @@ (2 :> {r1})
PairView == [a \in Anchors |-> r1 :> {a1}]
PairLists == {{a1}}
==========================================================================
