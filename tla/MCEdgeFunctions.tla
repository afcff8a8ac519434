--------------------------- MODULE MCEdgeFunctions ---------------------------
(* An instance of EdgeFunctions for TLC: one take for each kind and window.     *)
EXTENDS EdgeFunctions, TLC

CONSTANTS u1, u2, ip

OneTake == [kind \in Kinds |-> 1]
TwoSeconds == [kind \in Kinds |-> 2]

\* one user asks for the bucket of the other
OneDirect == {<<"proof", u2, u1>>}
=============================================================================
