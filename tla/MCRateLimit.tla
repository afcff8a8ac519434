----------------------------- MODULE MCRateLimit -----------------------------
(* An instance of RateLimit for TLC: windows of two seconds, two takes each.    *)
EXTENDS RateLimit, TLC

CONSTANTS u1, u2, ip, init

TwoTakes == [kind \in Kinds |-> 2]
TwoSeconds == [kind \in Kinds |-> 2]

Symmetry == Permutations(Users)
=============================================================================
