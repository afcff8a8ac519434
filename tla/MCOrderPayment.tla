--------------------------- MODULE MCOrderPayment ---------------------------
(* Instances of OrderPayment for TLC. *)
EXTENDS OrderPayment, TLC

CONSTANTS o1, o2, p1, p2, p3, x1, x2, f1, f2, v1

\* plain lines: what is taken is the quantity column
PlainLines == [o \in Orders |-> [v \in Variants |-> 2]]
\* a metered line of one cut of five metres: five are taken, quantity is one
MeteredNeed == [o \in Orders |-> [v \in Variants |-> 5]]
MeteredQuantity == [o \in Orders |-> [v \in Variants |-> 1]]
\* enough for one order only: two orders compete for it
ScarceStock == [v \in Variants |-> 3]
MeteredStock == [v \in Variants |-> 5]

\* rows, provider orders and proof files are interchangeable
RowSymmetry == Permutations(Payments) \union Permutations(Providers)
                 \union Permutations(Proofs)
OrderSymmetry == RowSymmetry \union Permutations(Orders)
=============================================================================
