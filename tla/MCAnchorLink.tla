---------------------------- MODULE MCAnchorLink ----------------------------
(* Two anchors, a run of the effect beside the first, two sockets for each *)
(* anchor; one anchor is enough to show what a replaced socket leaves.     *)
EXTENDS AnchorLink
=============================================================================
