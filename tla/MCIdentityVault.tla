-------------------------- MODULE MCIdentityVault --------------------------
(* Instances of IdentityVault for TLC.                                     *)
EXTENDS IdentityVault, TLC

CONSTANTS j1, j2, c1, c2, s1

Symmetry == Permutations(Jobs)
=============================================================================
