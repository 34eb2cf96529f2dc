---------------------------- MODULE MCFcSession ----------------------------
(* FcSession for TLC: what the clients' options are.                       *)
EXTENDS FcSession, TLC
CONSTANTS c1, c2
One        == [c \in Clients |-> 1]
TwoAndOne  == [c \in Clients |-> IF c = c1 THEN 2 ELSE 1]
Symmetry   == Permutations(Clients)
=============================================================================
