-------------------------- MODULE MCPaymobInitiate --------------------------
(* An instance of PaymobInitiate for TLC. *)
EXTENDS PaymobInitiate, TLC

CONSTANTS o1, p1, p2, p3, x1, x2, r1, r2, v1

OneLine == [o \in Orders |-> [v \in Variants |-> 1]]
OneInStock == [v \in Variants |-> 1]

ProcessSymmetry == Permutations(Payments) \union Permutations(Providers)
                     \union Permutations(Requests)
=============================================================================
