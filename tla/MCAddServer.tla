----------------------------- MODULE MCAddServer -----------------------------
(* Two servers, one of them unclaimed, with a token of each kind that the  *)
(* screen tells apart.                                                     *)
EXTENDS AddServer
CONSTANTS a, b
MCTokens == {[kind |-> "invite", at |-> a], [kind |-> "claim", at |-> b],
             [kind |-> "room", at |-> a]}
=============================================================================
