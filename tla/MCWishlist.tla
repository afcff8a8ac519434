----------------------------- MODULE MCWishlist -----------------------------
(* An instance of Wishlist for TLC: a list of three, as many as fit.            *)
EXTENDS Wishlist, TLC

CONSTANTS d1, a, b, c

Symmetry == Permutations(Items)
=============================================================================
