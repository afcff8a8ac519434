------------------------------ MODULE MCCheckout ------------------------------
(* Instances of Checkout for TLC. *)
EXTENDS Checkout, TLC

CONSTANTS v1, v2, u1, u2, k1, k2, k3, c1, c2, o1, o2, o3

\* two carts that lock the same rows in opposite orders
CrossedCarts == {<<v1, v2>>, <<v2, v1>>}
\* the longer one never fits, but each of its lines does
LongCarts == {<<v1, v2>>, <<v2, v1, v1, v1>>}
OneCart == {<<v1>>}

\* one of two customers loses the race for v1
ScarceFirst == [v \in Variants |-> IF v = v1 THEN 1 ELSE 2]
TwoPieces == [v \in Variants |-> 2]

Symmetry == Permutations(Keys) \union Permutations(Calls) \union Permutations(Orders)
UserSymmetry == Symmetry \union Permutations(Users)
=============================================================================
