-------------------------- MODULE MCChannelTimeline -------------------------
(* Instances of ChannelTimeline for TLC.                                   *)
EXTENDS ChannelTimeline, TLC

CONSTANTS m1, e1, e2, w1, w2, s1, s2, r1

Symmetry == Permutations(Messages) \cup Permutations(Edits) \cup Permutations(Writers)
              \cup Permutations(Sweepers)
=============================================================================
