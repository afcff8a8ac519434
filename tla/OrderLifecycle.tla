---------------------------- MODULE OrderLifecycle ----------------------------
(***************************************************************************)
(* What the payment functions of the store promise, taken together: an     *)
(* order waits for one payment row at a time, is fulfilled with exactly    *)
(* one that succeeded, and a row that left pending never changes.          *)
(* OrderPayment implements it; the payment page of the app relies on it.   *)
(***************************************************************************)
EXTENDS FiniteSets

CONSTANTS
    Orders,
    Payments    \* rows available to the payments table

VARIABLES
    stage,      \* what an order is waiting for
    rows        \* the payment rows: their order and status

lifecycleVars == <<stage, rows>>

Stages == {"unplaced", "awaiting", "fulfilling", "closed"}
Lost == {"failed", "cancelled", "expired"}

FreeRow == [status |-> "none"]
Row(o, s) == [status |-> s, order |-> o]
Rows == {FreeRow} \union {Row(o, s) : o \in Orders, s \in {"pending", "success"} \union Lost}

\* payment rows of an order with a status
RowsOf(o, s) == {p \in Payments : rows[p] = Row(o, s)}

\* pending rows of an order get a status, every other row stays
Mark(o, ps, s) == [p \in Payments |-> IF p \in ps THEN Row(o, s) ELSE rows[p]]

LInit ==
    /\ stage = [o \in Orders |-> "unplaced"]
    /\ rows = [p \in Payments |-> FreeRow]

\* a row for the order, in place of the one it waited for
Open(o, p, kept) ==
    /\ rows[p] = FreeRow
    /\ rows' = [kept EXCEPT ![p] = Row(o, "pending")]

Place(o) ==
    /\ stage[o] = "unplaced"
    /\ stage' = [stage EXCEPT ![o] = "awaiting"]
    /\ rows' = rows \/ \E p \in Payments : Open(o, p, rows)

Await(o, p) ==
    /\ stage[o] = "awaiting"
    /\ Open(o, p, Mark(o, RowsOf(o, "pending"), "cancelled"))
    /\ UNCHANGED stage

\* rows are given up while the order may still be paid another way
Withdraw(s) ==
    /\ \E ps \in SUBSET Payments :
         /\ \A p \in ps : \E o \in Orders : stage[o] = "awaiting" /\ p \in RowsOf(o, "pending")
         /\ rows' = [p \in Payments |-> IF p \in ps THEN Row(rows[p].order, s) ELSE rows[p]]
    /\ UNCHANGED stage

Pay(o, p) ==
    /\ stage[o] = "awaiting"
    /\ p \in RowsOf(o, "pending")
    /\ stage' = [stage EXCEPT ![o] = "fulfilling"]
    /\ rows' = Mark(o, {p}, "success")

\* the order is cancelled; its pending rows are settled with it, unless it is the
\* administrator who cancels
Close(o) ==
    /\ stage[o] \in {"awaiting", "fulfilling"}
    /\ stage' = [stage EXCEPT ![o] = "closed"]
    /\ rows' = rows \/ \E s \in Lost : rows' = Mark(o, RowsOf(o, "pending"), s)

LNext ==
    \/ \E o \in Orders : Place(o) \/ Close(o)
    \/ \E o \in Orders, p \in Payments : Await(o, p) \/ Pay(o, p)
    \/ \E s \in Lost : Withdraw(s)

LSpec == LInit /\ [][LNext]_lifecycleVars
=============================================================================
