---------------------------- MODULE MCChannelPane ----------------------------
(* Two channels with two messages in all, the first one of a channel the   *)
(* user's own, and two queries.                                            *)
EXTENDS ChannelPane
=============================================================================
