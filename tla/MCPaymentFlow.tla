---------------------------- MODULE MCPaymentFlow ----------------------------
(* Instances of PaymentFlow for TLC. *)
EXTENDS PaymentFlow
CONSTANTS o1, p1, p2, p3
=============================================================================
