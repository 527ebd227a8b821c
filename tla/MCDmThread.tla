----------------------------- MODULE MCDmThread -----------------------------
(* Instances of DmThread for TLC: p1 writes to the user alone.             *)
EXTENDS DmThread, TLC

CONSTANTS me, p1, p2, m1

FromP1 == m1 :> p1
ToMe == m1 :> {me}
=============================================================================
