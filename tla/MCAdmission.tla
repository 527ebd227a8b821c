---------------------------- MODULE MCAdmission ----------------------------
(* Instances of Admission for TLC.                                         *)
EXTENDS Admission, TLC

CONSTANTS ann, ben, i1, g1, c1, c2, t1, t2

(* The room invites are all single-use, or all of them multi-use.          *)
Symmetry == Permutations(Tasks) \cup Permutations(ClaimTokens) \cup Permutations(RoomInvites)
=============================================================================
