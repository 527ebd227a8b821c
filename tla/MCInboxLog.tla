---------------------------- MODULE MCInboxLog ----------------------------
(* Instances of InboxLog for TLC.                                          *)
EXTENDS InboxLog, TLC

CONSTANTS r1, e1, e2, h1, h2, h3, k1

(* One recipient: the theorems cover the others and hashes that collide.   *)
OneKey == [r \in Recipients |-> k1]

===========================================================================
