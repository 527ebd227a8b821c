---------------------------- MODULE MCServerPage ----------------------------
(* Two workspaces: one with two channels and a category that can be        *)
(* created, the other with one channel.                                    *)
EXTENDS ServerPage

CONSTANTS s1, s2, c1, c2, d1, f1

MCServers == {s1, s2}
MCChannels == {c1, c2, d1}
MCHostOf == [i \in {c1, c2, d1, f1} |-> IF i = d1 THEN s2 ELSE s1]
MCMade == {c1, c2, d1}
=============================================================================
