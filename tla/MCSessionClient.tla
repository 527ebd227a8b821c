-------------------------- MODULE MCSessionClient --------------------------
(* Instances of SessionClient for TLC.                                     *)
EXTENDS SessionClient, TLC

CONSTANTS t1, t2, t3, d1, p1, p2, v1, v2

Symmetry == Permutations(Tokens) \cup Permutations(Rotators)
              \cup Permutations(Revokers)
=============================================================================
