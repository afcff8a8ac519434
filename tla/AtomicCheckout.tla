---------------------------- MODULE AtomicCheckout ----------------------------
(***************************************************************************)
(* What create_checkout_order promises: an order is placed as a whole, for *)
(* an attempt that placed none, out of stock that is there.  Checkout      *)
(* implements it statement by statement; OrderPayment builds on it.        *)
(***************************************************************************)
EXTENDS Integers, Sequences, FiniteSets

CONSTANTS
    Users,
    Keys,           \* idempotency keys
    Orders,         \* order ids
    Variants,       \* product variants
    Carts,          \* carts: sequences of variants, one piece per line
    InitialStock

ASSUME CartsAssumption ==
    /\ \A cart \in Carts : cart \in Seq(Variants) /\ cart # <<>>
    /\ InitialStock \in [Variants -> Nat]

VARIABLES
    orders,     \* the committed rows of the orders table
    stock       \* the committed product_variants.stock

checkoutVars == <<orders, stock>>

NoRow == [status |-> "none"]

\* order ids that name no row yet
Placed == {o \in Orders : orders[o].status # "none"}

\* pieces of a variant in the first n lines of a cart
Pieces(cart, n, v) == Cardinality({i \in 1..n : cart[i] = v})

Wanted(cart, v) == Pieces(cart, Len(cart), v)

\* orders a user placed with a key
OrdersOf(u, k) == {o \in Placed : orders[o].user = u /\ orders[o].key = k}

AInit ==
    /\ orders = [o \in Orders |-> NoRow]
    /\ stock = InitialStock

Place(o, u, k, cart) ==
    /\ orders[o].status = "none"
    /\ OrdersOf(u, k) = {}
    /\ \A v \in Variants : Wanted(cart, v) <= stock[v]
    /\ orders' = [orders EXCEPT ![o] = [status |-> "pending", user |-> u, key |-> k,
                                        cart |-> cart]]
    /\ stock' = [v \in Variants |-> stock[v] - Wanted(cart, v)]

\* a payment of the order succeeded
Settle(o) ==
    /\ orders[o].status = "pending"
    /\ orders' = [orders EXCEPT ![o].status = "paid"]
    /\ UNCHANGED stock

\* the order is cancelled and its pieces are given back
Return(o) ==
    /\ orders[o].status = "pending"
    /\ orders' = [orders EXCEPT ![o].status = "cancelled"]
    /\ stock' = [v \in Variants |-> stock[v] + Wanted(orders[o].cart, v)]

ANext ==
    \E o \in Orders :
      \/ \E u \in Users, k \in Keys, cart \in Carts : Place(o, u, k, cart)
      \/ Settle(o)
      \/ Return(o)

ASpec == AInit /\ [][ANext]_checkoutVars

-----------------------------------------------------------------------------
OrderRow == [status : {"pending", "paid", "cancelled"}, user : Users, key : Keys,
             cart : Carts]

\* The shape of the committed tables; no piece is ever sold that is not there.
AtomicTypeOK ==
    /\ orders \in [Orders -> OrderRow \union {NoRow}]
    /\ stock \in [Variants -> Nat]

\* A key of a user names at most one order, for ever.
OneOrderPerKey == \A a, b \in Placed :
    orders[a].user = orders[b].user /\ orders[a].key = orders[b].key => a = b
=============================================================================
