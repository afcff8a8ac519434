---------------------------- MODULE CheckoutProofs ----------------------------
(***************************************************************************)
(* What TLAPS proves about Checkout, for any number of customers, devices, *)
(* keys, carts and overlapping calls: that the transactions amount to the  *)
(* atomic steps of AtomicCheckout, and that no order is lost by the app.   *)
(***************************************************************************)
EXTENDS Checkout, FiniteSetTheorems, TLAPS

-----------------------------------------------------------------------------
(* What holds of the transactions. *)

Running(c) == calls[c].step \in {"take", "lookup", "read", "insert", "lines"}

CallerInv(c) ==
    ~At(c, "idle") => /\ calls[c].user \in Users
                      /\ calls[c].key \in Keys
                      /\ calls[c].cart \in Carts

\* A transaction that inserted its order has an id and a key of its own, and the
\* pieces it took are there: whoever wants the same rows waits.
LinesInv(c) ==
    At(c, "lines") =>
      /\ calls[c].order \in Orders \ Placed
      /\ OrdersOf(calls[c].user, calls[c].key) = {}
      /\ calls[c].line \in 1..(Len(calls[c].cart) + 1)
      /\ \A v \in HeldBy(c) : Taken(c, v) <= stock[v]

LinesApart ==
    \A c, d \in Calls : c # d /\ At(c, "lines") /\ At(d, "lines") =>
      /\ calls[c].order # calls[d].order
      /\ calls[c].user # calls[d].user \/ calls[c].key # calls[d].key
      /\ HeldBy(c) \intersect HeldBy(d) = {}

\* An answer is about the order of the call's key.
AnswerInv(c) ==
    At(c, "answered") /\ calls[c].answer \in {"pending", "closed"} =>
      /\ calls[c].order \in OrdersOf(calls[c].user, calls[c].key)
      /\ calls[c].answer = "closed" => orders[calls[c].order].status # "pending"

WorkerInv ==
    /\ worker.order = NoOrder => worker = NoWork
    /\ worker.order # NoOrder => orders[worker.order].status = "pending"

TransactionInv ==
    /\ TypeOK
    /\ OneOrderPerKey
    /\ \A c \in Calls : CallerInv(c) /\ LinesInv(c) /\ AnswerInv(c)
    /\ LinesApart
    /\ WorkerInv

-----------------------------------------------------------------------------
(* What holds of the clients, when customers wait for their page. *)

\* Of a customer's calls one is awaited, by the page that made it; a transaction that may
\* still place an order does so under the key on the device.
CustomerInv(u) ==
    /\ \A c \in Calls : Awaited(c) /\ calls[c].user = u =>
         /\ calls[c].side = "page"
         /\ pages[u].status = "creating"
         /\ stored[u] = calls[c].key
         /\ \A d \in Calls : Awaited(d) /\ calls[d].user = u => d = c
    /\ \A c \in Calls : Running(c) /\ calls[c].user = u =>
         stored[u] = calls[c].key \/ OrdersOf(u, calls[c].key) # {}
    /\ pages[u].status = "open" /\ pages[u].key # NoKey => stored[u] = pages[u].key
    /\ \A o \in Placed \ answered :
         orders[o].status = "pending" /\ orders[o].user = u => stored[u] = orders[o].key

AnsweredInv(c) == At(c, "answered") => calls[c].side # "gone"

ClientInv ==
    /\ \A u \in Users : CustomerInv(u)
    /\ \A c \in Calls : AnsweredInv(c)

-----------------------------------------------------------------------------
(* The lines of a cart. *)

LEMMA CartTypes ==
  ASSUME NEW cart \in Carts
  PROVE  /\ Len(cart) \in Nat /\ Len(cart) >= 1
         /\ \A i \in 1..Len(cart) : cart[i] \in Variants
  BY CartsAssumption

\* Pieces counts lines.
LEMMA PiecesType ==
  ASSUME NEW cart, NEW n \in Nat, NEW v
  PROVE  Pieces(cart, n, v) \in Nat
<1>1. {i \in 1..n : cart[i] = v} \in SUBSET (1..n)
  OBVIOUS
<1>2. IsFiniteSet(1..n)
  BY FS_Interval
<1>3. IsFiniteSet({i \in 1..n : cart[i] = v})
  BY <1>1, <1>2, FS_Subset
<1> QED BY <1>3, FS_CardinalityType DEF Pieces

LEMMA PiecesNone ==
  ASSUME NEW cart, NEW n \in Nat, NEW v, \A i \in 1..n : cart[i] # v
  PROVE  Pieces(cart, n, v) = 0
<1>1. {i \in 1..n : cart[i] = v} = {}
  OBVIOUS
<1> QED BY <1>1, FS_EmptySet DEF Pieces

LEMMA PiecesNext ==
  ASSUME NEW cart, NEW n \in Nat, NEW v
  PROVE  Pieces(cart, n + 1, v) = Pieces(cart, n, v) + (IF cart[n + 1] = v THEN 1 ELSE 0)
<1> DEFINE S == {i \in 1..n : cart[i] = v}
           T == {i \in 1..(n + 1) : cart[i] = v}
<1>1. IsFiniteSet(S) /\ Cardinality(S) \in Nat
  <2>1. S \in SUBSET (1..n)
    OBVIOUS
  <2>2. IsFiniteSet(1..n)
    BY FS_Interval
  <2>3. IsFiniteSet(S)
    BY <2>1, <2>2, FS_Subset
  <2> QED BY <2>3, FS_CardinalityType
<1>2. CASE cart[n + 1] = v
  <2>1. T = S \union {n + 1} /\ n + 1 \notin S
    BY <1>2
  <2>2. Cardinality(T) = Cardinality(S) + 1
    BY <1>1, <2>1, FS_AddElement
  <2> QED BY <1>2, <2>2 DEF Pieces
<1>3. CASE cart[n + 1] # v
  <2>1. T = S
    BY <1>3
  <2> QED BY <1>1, <1>3, <2>1 DEF Pieces
<1> QED BY <1>2, <1>3

-----------------------------------------------------------------------------
(* What AtomicCheckout promises. *)

AtomicInv == AtomicTypeOK /\ OneOrderPerKey

LEMMA NoRowFields == NoRow.status = "none"
  BY DEF NoRow

LEMMA AtomicInit == AInit => AtomicInv
<1> SUFFICES ASSUME AInit PROVE AtomicInv
  OBVIOUS
<1>1. Placed = {}
  BY NoRowFields DEF AInit, Placed
<1> QED BY <1>1, CartsAssumption DEF AInit, AtomicInv, AtomicTypeOK, OneOrderPerKey

LEMMA PlaceAtomic ==
  ASSUME AtomicInv, NEW o \in Orders, NEW u \in Users, NEW k \in Keys, NEW cart \in Carts,
         Place(o, u, k, cart)
  PROVE  AtomicInv'
<1> DEFINE r == [status |-> "pending", user |-> u, key |-> k, cart |-> cart]
<1>1. /\ orders'[o] = r /\ r \in OrderRow
      /\ \A a \in Orders \ {o} : orders'[a] = orders[a]
  BY DEF Place, AtomicInv, AtomicTypeOK, OrderRow
<1>2. orders' \in [Orders -> OrderRow \union {NoRow}]
  BY <1>1 DEF Place, AtomicInv, AtomicTypeOK
<1>3. \A v \in Variants : stock[v] - Wanted(cart, v) \in Nat
  <2> SUFFICES ASSUME NEW v \in Variants PROVE stock[v] - Wanted(cart, v) \in Nat
    OBVIOUS
  <2>1. Wanted(cart, v) \in Nat
    BY PiecesType, CartTypes DEF Wanted
  <2>2. stock[v] \in Nat /\ Wanted(cart, v) <= stock[v]
    BY DEF Place, AtomicInv, AtomicTypeOK
  <2> QED BY <2>1, <2>2
<1>4. stock' \in [Variants -> Nat]
  BY <1>3 DEF Place
<1>5. \A a \in Placed : orders[a].user # u \/ orders[a].key # k
  BY DEF Place, OrdersOf
<1>6. Placed' = Placed \union {o} /\ o \notin Placed
  BY <1>1 DEF Placed, Place
<1>7. orders'[o].user = u /\ orders'[o].key = k /\ \A a \in Placed : orders'[a] = orders[a]
  BY <1>1, <1>6 DEF Placed
<1>8. OneOrderPerKey'
  BY <1>5, <1>6, <1>7 DEF AtomicInv, OneOrderPerKey
<1> QED BY <1>2, <1>4, <1>8 DEF AtomicInv, AtomicTypeOK

\* An order that moves on keeps its user, its key and its cart.
MovedRows(o, s) ==
    /\ orders' \in [Orders -> OrderRow \union {NoRow}]
    /\ orders'[o].status = s
    /\ \A a \in Orders :
         /\ orders'[a].status = "none" <=> orders[a].status = "none"
         /\ orders[a].status # "none" => /\ orders[a] \in OrderRow
                                         /\ orders'[a].user = orders[a].user
                                         /\ orders'[a].key = orders[a].key
                                         /\ orders'[a].cart = orders[a].cart
         /\ a # o => orders'[a] = orders[a]

LEMMA MovedRow ==
  ASSUME AtomicInv, NEW o \in Orders, NEW s \in {"paid", "cancelled"},
         orders[o].status = "pending", orders' = [orders EXCEPT ![o].status = s]
  PROVE  MovedRows(o, s)
<1>1. orders[o] \in OrderRow
  BY NoRowFields DEF AtomicInv, AtomicTypeOK
<1>2. /\ orders'[o] = [orders[o] EXCEPT !.status = s]
      /\ \A a \in Orders \ {o} : orders'[a] = orders[a]
  BY DEF AtomicInv, AtomicTypeOK
<1>3. /\ orders'[o] \in OrderRow
      /\ orders'[o].status = s
      /\ orders'[o].user = orders[o].user
      /\ orders'[o].key = orders[o].key
      /\ orders'[o].cart = orders[o].cart
  BY <1>1, <1>2 DEF OrderRow
<1>4. orders' \in [Orders -> OrderRow \union {NoRow}]
  BY <1>3 DEF AtomicInv, AtomicTypeOK
<1>5. \A a \in Orders : orders[a].status # "none" => orders[a] \in OrderRow
  BY NoRowFields DEF AtomicInv, AtomicTypeOK
<1> QED BY <1>2, <1>3, <1>4, <1>5 DEF MovedRows

LEMMA MovedKeys ==
  ASSUME OneOrderPerKey, NEW o, NEW s, MovedRows(o, s)
  PROVE  OneOrderPerKey'
<1>1. Placed' = Placed
  BY DEF MovedRows, Placed
<1>2. \A a \in Placed : orders'[a].user = orders[a].user /\ orders'[a].key = orders[a].key
  BY DEF MovedRows, Placed
<1> QED BY <1>1, <1>2 DEF OneOrderPerKey

LEMMA SettleAtomic ==
  ASSUME AtomicInv, NEW o \in Orders, Settle(o)
  PROVE  AtomicInv'
<1>1. orders[o].status = "pending" /\ orders' = [orders EXCEPT ![o].status = "paid"]
  BY DEF Settle
<1>2. MovedRows(o, "paid")
  BY <1>1, MovedRow
<1> QED BY <1>2, MovedKeys DEF Settle, MovedRows, AtomicInv, AtomicTypeOK

LEMMA ReturnAtomic ==
  ASSUME AtomicInv, NEW o \in Orders, Return(o)
  PROVE  AtomicInv' /\ \A v \in Variants : stock[v] <= stock'[v]
<1>1. orders[o].status = "pending" /\ orders' = [orders EXCEPT ![o].status = "cancelled"]
  BY DEF Return
<1>2. MovedRows(o, "cancelled")
  BY <1>1, MovedRow
<1>3. orders[o].cart \in Carts
  BY <1>1, <1>2 DEF MovedRows, OrderRow
<1>4. \A v \in Variants : stock[v] \in Nat /\ Wanted(orders[o].cart, v) \in Nat
  BY <1>3, PiecesType, CartTypes DEF Wanted, AtomicInv, AtomicTypeOK
<1>5. stock' \in [Variants -> Nat] /\ \A v \in Variants : stock[v] <= stock'[v]
  BY <1>4 DEF Return
<1> QED BY <1>2, <1>5, MovedKeys DEF MovedRows, AtomicInv, AtomicTypeOK

LEMMA AtomicStep == AtomicInv /\ [ANext]_checkoutVars => AtomicInv'
<1> SUFFICES ASSUME AtomicInv, [ANext]_checkoutVars PROVE AtomicInv'
  OBVIOUS
<1>1. CASE UNCHANGED checkoutVars
  BY <1>1 DEF checkoutVars, AtomicInv, AtomicTypeOK, OneOrderPerKey, Placed
<1> QED BY <1>1, PlaceAtomic, SettleAtomic, ReturnAtomic DEF ANext

\* Of AtomicCheckout alone: no piece is sold that is not there, and a key names one order.
THEOREM AtomicInvariant == ASpec => []AtomicInv
<1> QED BY AtomicInit, AtomicStep, PTL DEF ASpec

-----------------------------------------------------------------------------
(* Calls whose transaction does nothing to the tables. *)

LEMMA CallFields ==
  ASSUME TypeOK, NEW c \in Calls
  PROVE  /\ calls[c] \in CallRecord
         /\ calls[c].step \in Steps
         /\ calls[c].side \in Sides
         /\ calls[c].user \in Users \union {Nobody}
         /\ calls[c].cart \in Carts \union {<<>>}
         /\ calls[c].line \in Nat
         /\ calls[c].order \in Orders \union {NoOrder}
  BY DEF TypeOK, CallRecord

LEMMA OneCall ==
  ASSUME TypeOK, NEW c \in Calls, NEW r \in CallRecord, calls' = [calls EXCEPT ![c] = r]
  PROVE  /\ calls' \in [Calls -> CallRecord]
         /\ calls'[c] = r
         /\ \A d \in Calls \ {c} : calls'[d] = calls[d]
  BY DEF TypeOK

LEMMA IdleCallFields == ASSUME TypeOK PROVE IdleCall \in CallRecord /\ IdleCall.step = "idle"
  BY CheckoutAssumption DEF TypeOK, IdleCall, CallRecord, Steps, Sides, Answers

FirstCall(u, k, cart) == NewCall(u, k, cart, FALSE)
SecondCall(u, k, cart) == NewCall(u, k, cart, TRUE)

LEMMA NewCallFields ==
  ASSUME TypeOK, NEW u \in Users, NEW k \in Keys, NEW cart \in Carts,
         NEW n \in {FirstCall(u, k, cart), SecondCall(u, k, cart)}
  PROVE  /\ n \in CallRecord
         /\ n.step = "take" /\ n.side = "page" /\ n.user = u /\ n.key = k /\ n.cart = cart
<1>1. /\ n.step = "take" /\ n.side = "page" /\ n.user = u /\ n.key = k /\ n.cart = cart
  BY ZenonT(60) DEF FirstCall, SecondCall, NewCall, IdleCall
<1>2. CASE n = FirstCall(u, k, cart)
  <2>1. n \in CallRecord
    BY <1>2, IdleCallFields DEF FirstCall, NewCall, TypeOK, CallRecord, Steps, Sides, Answers
  <2> QED BY <1>1, <2>1
<1>3. CASE n = SecondCall(u, k, cart)
  <2>1. n \in CallRecord
    BY <1>3, IdleCallFields DEF SecondCall, NewCall, TypeOK, CallRecord, Steps, Sides, Answers
  <2> QED BY <1>1, <2>1
<1> QED BY <1>2, <1>3

\* who waits for a call is nothing to its transaction
LEMMA SidedCall ==
  ASSUME NEW r \in CallRecord, NEW side \in Sides
  PROVE  /\ [r EXCEPT !.side = side] \in CallRecord
         /\ [r EXCEPT !.side = side].step = r.step
         /\ [r EXCEPT !.side = side].side = side
         /\ [r EXCEPT !.side = side].user = r.user
         /\ [r EXCEPT !.side = side].key = r.key
         /\ [r EXCEPT !.side = side].cart = r.cart
  BY DEF CallRecord

\* the transaction of a call goes on unchanged, whoever waits for it
SameWork(c) ==
    /\ calls'[c].step = calls[c].step
    /\ calls'[c].user = calls[c].user
    /\ calls'[c].key = calls[c].key
    /\ calls'[c].cart = calls[c].cart
    /\ calls'[c].line = calls[c].line
    /\ calls'[c].order = calls[c].order
    /\ calls'[c].answer = calls[c].answer

Quiet(c) ==
    \/ SameWork(c)
    \/ calls'[c].step # "lines" /\ CallerInv(c)' /\ AnswerInv(c)'

LEMMA AbandonFields ==
  ASSUME TypeOK, NEW c \in Calls
  PROVE  /\ Abandon(c) \in CallRecord
         /\ calls'[c] = Abandon(c) => calls'[c].step = "idle" \/ SameWork(c)
         /\ Abandon(c).step = "idle" \/ Abandon(c).side = "gone"
<1>1. CASE At(c, "answered")
  BY <1>1, IdleCallFields DEF Abandon
<1>2. CASE ~At(c, "answered")
  <2>1. Abandon(c) = [calls[c] EXCEPT !.side = "gone"] /\ calls[c] \in CallRecord
    BY <1>2, CallFields DEF Abandon
  <2> QED BY <2>1 DEF CallRecord, Sides, SameWork
<1> QED BY <1>1, <1>2

LEMMA IdleIsQuiet ==
  ASSUME NEW c, calls'[c].step = "idle"
  PROVE  Quiet(c)
  BY DEF Quiet, CallerInv, AnswerInv, At

\* Calls that did not insert anything leave each other alone.
LEMMA QuietStep ==
  ASSUME TransactionInv, TypeOK', WorkerInv', UNCHANGED <<orders, stock>>,
         \A c \in Calls : Quiet(c)
  PROVE  TransactionInv'
<1>1. Placed' = Placed /\ OneOrderPerKey' /\ \A u, k : OrdersOf(u, k)' = OrdersOf(u, k)
  BY DEF Placed, OneOrderPerKey, TransactionInv, OrdersOf
<1>2. ASSUME NEW c \in Calls, SameWork(c)
      PROVE  /\ HeldBy(c)' = HeldBy(c)
             /\ \A v : Taken(c, v)' = Taken(c, v)
  BY <1>2 DEF SameWork, HeldBy, At, Taken, Pieces
<1>3. ASSUME NEW c \in Calls PROVE (CallerInv(c) /\ LinesInv(c) /\ AnswerInv(c))'
  <2>1. CASE SameWork(c)
    BY <1>1, <1>2, <2>1 DEF TransactionInv, SameWork, At, CallerInv, LinesInv, AnswerInv
  <2>2. CASE ~SameWork(c)
    BY <2>2 DEF Quiet, LinesInv, At
  <2> QED BY <2>1, <2>2
<1>4. \A c \in Calls : At(c, "lines")' => SameWork(c) /\ At(c, "lines")
  BY DEF Quiet, At, SameWork
<1>5. LinesApart'
  BY <1>2, <1>4 DEF TransactionInv, LinesApart, SameWork
<1> QED BY <1>1, <1>3, <1>5 DEF TransactionInv

LEMMA ShowType ==
  ASSUME TransactionInv, NEW c \in Calls, ~At(c, "idle"), NEW status \in {"open", "placing"},
         Show(c, status, calls[c].key)
  PROVE  pages' \in [Users -> PageRecord]
<1>1. calls[c].user \in Users /\ calls[c].key \in Keys
  BY DEF TransactionInv, CallerInv
<1>2. pages[calls[c].user] \in PageRecord
  BY <1>1 DEF TransactionInv, TypeOK
<1>3. [pages[calls[c].user] EXCEPT !.status = status, !.key = calls[c].key] \in PageRecord
  BY <1>1, <1>2 DEF PageRecord
<1> QED BY <1>3 DEF Show, TransactionInv, TypeOK

-----------------------------------------------------------------------------
(* The client. *)

LEMMA SubmitKeeps ==
  ASSUME TransactionInv, NEW u \in Users, NEW c \in Calls, Submit(u, c)
  PROVE  TransactionInv'
<1>1. TypeOK /\ pages[u] \in PageRecord
  BY DEF TransactionInv, TypeOK
<1>2. PICK k \in KeysFor(u) :
        /\ stored' = [stored EXCEPT ![u] = k]
        /\ drawn' = drawn \union {k}
        /\ calls' = [calls EXCEPT ![c] = FirstCall(u, k, pages[u].cart)]
  BY DEF Submit, FirstCall
<1>3. k \in Keys /\ pages[u].cart \in Carts
  BY <1>1 DEF KeysFor, TypeOK, PageRecord
<1>4. /\ FirstCall(u, k, pages[u].cart) \in CallRecord
      /\ FirstCall(u, k, pages[u].cart).step = "take"
      /\ FirstCall(u, k, pages[u].cart).user = u
      /\ FirstCall(u, k, pages[u].cart).key = k
      /\ FirstCall(u, k, pages[u].cart).cart = pages[u].cart
  BY <1>1, <1>3, NewCallFields
<1>5. /\ calls' \in [Calls -> CallRecord]
      /\ calls'[c] = FirstCall(u, k, pages[u].cart)
      /\ \A d \in Calls \ {c} : calls'[d] = calls[d]
  BY <1>1, <1>2, <1>4, OneCall
<1>6. Quiet(c)
  BY <1>3, <1>4, <1>5 DEF Quiet, CallerInv, AnswerInv, At
<1>7. \A d \in Calls \ {c} : Quiet(d)
  BY <1>5 DEF Quiet, SameWork
<1>8. [pages[u] EXCEPT !.status = "creating"] \in PageRecord
  BY <1>1 DEF PageRecord
<1>9. TypeOK'
  BY <1>1, <1>2, <1>3, <1>5, <1>8 DEF Submit, workVars, TypeOK, AtomicTypeOK
<1>10. WorkerInv' /\ UNCHANGED <<orders, stock>>
  BY DEF Submit, workVars, TransactionInv, WorkerInv
<1> QED BY <1>6, <1>7, <1>9, <1>10, QuietStep

LEMMA ReceiveKeeps ==
  ASSUME TransactionInv, NEW c \in Calls,
         ReceiveOrder(c) \/ ReceiveFailure(c) \/ LoseAnswer(c)
  PROVE  TransactionInv'
<1>1. TypeOK /\ calls[c].user \in Users
  BY DEF TransactionInv, ReceiveOrder, ReceiveFailure, LoseAnswer, Awaited, At, CallerInv
<1>2. PICK r \in {IdleCall, Abandon(c)} : calls' = [calls EXCEPT ![c] = r]
  BY DEF ReceiveOrder, ReceiveFailure, LoseAnswer
<1>3. /\ calls' \in [Calls -> CallRecord]
      /\ calls'[c] = r
      /\ \A d \in Calls \ {c} : calls'[d] = calls[d]
  BY <1>1, <1>2, OneCall, IdleCallFields, AbandonFields
<1>4. Quiet(c)
  BY <1>1, <1>2, <1>3, IdleCallFields, AbandonFields, IdleIsQuiet DEF Quiet
<1>5. \A d \in Calls \ {c} : Quiet(d)
  BY <1>3 DEF Quiet, SameWork
<1>6. pages' \in [Users -> PageRecord]
  BY ShowType DEF ReceiveOrder, ReceiveFailure, LoseAnswer, Awaited, At
<1>7. stored' \in [Users -> Keys \union {NoKey}]
  BY <1>1 DEF ReceiveOrder, ReceiveFailure, LoseAnswer, TypeOK
<1>8. answered' \in SUBSET Orders
  <2>1. CASE ReceiveOrder(c)
    <3>1. calls[c].order \in Orders
      BY <2>1 DEF ReceiveOrder, TransactionInv, AnswerInv, OrdersOf, Placed
    <3> QED BY <1>1, <2>1, <3>1 DEF ReceiveOrder, TypeOK
  <2> QED BY <1>1, <2>1 DEF ReceiveFailure, LoseAnswer, TypeOK
<1>9. UNCHANGED <<orders, stock, worker, minute, drawn>>
  BY DEF ReceiveOrder, ReceiveFailure, LoseAnswer, workVars
<1>10. TypeOK' /\ WorkerInv'
  BY <1>1, <1>3, <1>6, <1>7, <1>8, <1>9 DEF TypeOK, AtomicTypeOK, TransactionInv, WorkerInv
<1> QED BY <1>4, <1>5, <1>9, <1>10, QuietStep

LEMMA ReceiveClosedKeeps ==
  ASSUME TransactionInv, NEW c \in Calls, ReceiveClosed(c)
  PROVE  TransactionInv'
<1>1. TypeOK /\ calls[c].user \in Users /\ calls[c].cart \in Carts /\ calls[c].side \in Sides
  BY CallFields DEF TransactionInv, ReceiveClosed, At, CallerInv
<1> DEFINE r(k) == [SecondCall(calls[c].user, k, calls[c].cart) EXCEPT !.side = calls[c].side]
<1>2. PICK k \in Keys \ drawn :
        /\ stored' = [stored EXCEPT ![calls[c].user] = k]
        /\ drawn' = drawn \union {k}
        /\ calls' = [calls EXCEPT ![c] = r(k)]
  BY DEF ReceiveClosed, SecondCall
<1>3. /\ r(k) \in CallRecord
      /\ r(k).step = "take" /\ r(k).user = calls[c].user /\ r(k).key = k
      /\ r(k).cart = calls[c].cart
  <2> DEFINE n == SecondCall(calls[c].user, k, calls[c].cart)
  <2>1. n \in CallRecord /\ n.step = "take" /\ n.user = calls[c].user /\ n.key = k
        /\ n.cart = calls[c].cart
    BY <1>1, NewCallFields
  <2> QED BY <1>1, <2>1, SidedCall
<1> HIDE DEF r
<1>4. /\ calls' \in [Calls -> CallRecord]
      /\ calls'[c] = r(k)
      /\ \A d \in Calls \ {c} : calls'[d] = calls[d]
  BY <1>1, <1>2, <1>3, OneCall
<1>5. Quiet(c)
  BY <1>1, <1>3, <1>4 DEF Quiet, CallerInv, AnswerInv, At
<1>6. \A d \in Calls \ {c} : Quiet(d)
  BY <1>4 DEF Quiet, SameWork
<1>7. UNCHANGED <<orders, stock, worker, minute, pages, answered>>
  BY DEF ReceiveClosed, workVars
<1>8. TypeOK' /\ WorkerInv'
  BY <1>1, <1>2, <1>4, <1>7 DEF TypeOK, AtomicTypeOK, TransactionInv, WorkerInv
<1> QED BY <1>5, <1>6, <1>7, <1>8, QuietStep

LEMMA LeaveKeeps ==
  ASSUME TransactionInv, NEW u \in Users, LeavePage(u) \/ Restart(u)
  PROVE  TransactionInv'
<1>1. TypeOK
  BY DEF TransactionInv
<1>2. UNCHANGED <<orders, stock, worker, minute, stored, drawn, answered>>
  BY DEF LeavePage, Restart, workVars
<1>3. pages' \in [Users -> PageRecord]
  BY <1>1 DEF LeavePage, Restart, NewPage, TypeOK, PageRecord
<1>4. ASSUME NEW c \in Calls PROVE calls'[c] \in CallRecord /\ Quiet(c)
  <2>1. PICK r \in {calls[c], Abandon(c), [calls[c] EXCEPT !.side = "background"]} :
          calls'[c] = r
    BY DEF LeavePage, Restart
  <2>2. CASE r = Abandon(c)
    BY <1>1, <2>1, <2>2, AbandonFields, IdleIsQuiet DEF Quiet
  <2>3. CASE r # Abandon(c)
    BY <1>1, <2>1, <2>3, CallFields DEF CallRecord, Sides, Quiet, SameWork
  <2> QED BY <2>2, <2>3
<1>5. calls' \in [Calls -> CallRecord]
  <2>1. \E f : calls' = [c \in Calls |-> f[c]]
    BY DEF LeavePage, Restart
  <2> QED BY <1>4, <2>1
<1>6. TypeOK' /\ WorkerInv'
  BY <1>1, <1>2, <1>3, <1>5 DEF TypeOK, AtomicTypeOK, TransactionInv, WorkerInv
<1> QED BY <1>2, <1>4, <1>6, QuietStep

-----------------------------------------------------------------------------
(* The transaction of a call. *)

LEMMA FinishFields ==
  ASSUME TypeOK, NEW c \in Calls, NEW answer \in Answers, NEW o \in Orders \union {NoOrder},
         Finish(c, answer, o)
  PROVE  /\ calls' \in [Calls -> CallRecord]
         /\ \A d \in Calls \ {c} : calls'[d] = calls[d]
         /\ \/ calls'[c] = IdleCall
            \/ /\ calls[c].side # "gone"
               /\ calls'[c].step = "answered"
               /\ calls'[c].answer = answer
               /\ calls'[c].order = o
               /\ calls'[c].user = calls[c].user
               /\ calls'[c].key = calls[c].key
               /\ calls'[c].cart = calls[c].cart
               /\ calls'[c].side = calls[c].side
<1>1. calls[c] \in CallRecord
  BY CallFields
<1>2. CASE calls[c].side = "gone"
  <2>1. calls' = [calls EXCEPT ![c] = IdleCall]
    BY <1>2 DEF Finish
  <2> QED BY <2>1, OneCall, IdleCallFields
<1>3. CASE calls[c].side # "gone"
  <2> DEFINE r == [calls[c] EXCEPT !.step = "answered", !.line = 1, !.order = o,
                                   !.answer = answer]
  <2>1. /\ r \in CallRecord
        /\ r.step = "answered" /\ r.answer = answer /\ r.order = o /\ r.user = calls[c].user
        /\ r.key = calls[c].key /\ r.cart = calls[c].cart /\ r.side = calls[c].side
    BY <1>1 DEF CallRecord, Steps
  <2>2. calls' = [calls EXCEPT ![c] = r]
    BY <1>3 DEF Finish
  <2> HIDE DEF r
  <2> QED BY <1>3, <2>1, <2>2, OneCall
<1> QED BY <1>2, <1>3

\* what a statement leaves alone
OnlyCalls == UNCHANGED <<orders, stock, worker, minute, pages, stored, drawn, answered>>

LEMMA OnlyCallsType ==
  ASSUME TransactionInv, OnlyCalls, calls' \in [Calls -> CallRecord]
  PROVE  TypeOK' /\ WorkerInv' /\ UNCHANGED <<orders, stock>>
  BY DEF OnlyCalls, TransactionInv, TypeOK, AtomicTypeOK, WorkerInv

\* An exception undoes the transaction.
LEMMA RefuseKeeps ==
  ASSUME TransactionInv, NEW c \in Calls, ~At(c, "idle"), Refuse(c)
  PROVE  TransactionInv'
<1>1. TypeOK /\ Finish(c, "refused", NoOrder) /\ OnlyCalls
  BY DEF TransactionInv, Refuse, OnlyCalls, workVars, clientVars
<1>2. /\ calls' \in [Calls -> CallRecord]
      /\ \A d \in Calls \ {c} : calls'[d] = calls[d]
      /\ \/ calls'[c] = IdleCall
         \/ /\ calls'[c].step = "answered" /\ calls'[c].answer = "refused"
            /\ calls'[c].user = calls[c].user
            /\ calls'[c].key = calls[c].key
            /\ calls'[c].cart = calls[c].cart
  BY <1>1, FinishFields DEF Answers
<1>3. CallerInv(c)
  BY DEF TransactionInv
<1>4. Quiet(c)
  BY <1>1, <1>2, <1>3, IdleCallFields, IdleIsQuiet DEF Quiet, CallerInv, AnswerInv, At
<1>5. \A d \in Calls \ {c} : Quiet(d)
  BY <1>2 DEF Quiet, SameWork
<1> QED BY <1>1, <1>2, <1>4, <1>5, OnlyCallsType, QuietStep

LEMMA AnswerKeeps ==
  ASSUME TransactionInv, NEW c \in Calls, ~At(c, "idle"), AnswerExisting(c)
  PROVE  TransactionInv'
<1>1. TypeOK /\ OnlyCalls /\ CallerInv(c)
  BY DEF TransactionInv, AnswerExisting, OnlyCalls, workVars, clientVars
<1>2. PICK o \in OrdersOf(calls[c].user, calls[c].key) :
        Finish(c, IF orders[o].status = "pending" THEN "pending" ELSE "closed", o)
  BY DEF AnswerExisting
<1>3. PICK answer \in {"pending", "closed"} :
        /\ answer = "closed" => orders[o].status # "pending"
        /\ Finish(c, answer, o)
  BY <1>2
<1>4. o \in Orders
  BY DEF OrdersOf, Placed
<1>5. /\ calls' \in [Calls -> CallRecord]
      /\ \A d \in Calls \ {c} : calls'[d] = calls[d]
      /\ \/ calls'[c] = IdleCall
         \/ /\ calls'[c].step = "answered" /\ calls'[c].answer = answer
            /\ calls'[c].order = o
            /\ calls'[c].user = calls[c].user
            /\ calls'[c].key = calls[c].key
            /\ calls'[c].cart = calls[c].cart
  BY <1>1, <1>3, <1>4, FinishFields DEF Answers
<1>6. OrdersOf(calls[c].user, calls[c].key)' = OrdersOf(calls'[c].user, calls'[c].key)
  BY <1>1 DEF OnlyCalls, OrdersOf, Placed
<1>7. Quiet(c)
  <2>1. CASE calls'[c] = IdleCall
    BY <1>1, <2>1, IdleCallFields, IdleIsQuiet
  <2>2. CASE calls'[c] # IdleCall
    <3>1. CallerInv(c)' /\ calls'[c].step # "lines"
      BY <1>1, <1>5, <2>2 DEF CallerInv
    <3>2. AnswerInv(c)'
      BY <1>1, <1>3, <1>5, <1>6, <2>2 DEF AnswerInv, OnlyCalls
    <3> QED BY <3>1, <3>2 DEF Quiet
  <2> QED BY <2>1, <2>2
<1>8. \A d \in Calls \ {c} : Quiet(d)
  BY <1>5 DEF Quiet, SameWork
<1> QED BY <1>1, <1>5, <1>7, <1>8, OnlyCallsType, QuietStep

\* A transaction that reads, and counts its lines as it does.
LEMMA ReadingKeeps ==
  ASSUME TransactionInv, NEW c \in Calls, ~At(c, "idle"), OnlyCalls,
         NEW step \in {"lookup", "read", "insert"}, NEW n \in Nat,
         calls' = [calls EXCEPT ![c] = [calls[c] EXCEPT !.step = step, !.line = n]]
  PROVE  TransactionInv'
<1>1. TypeOK /\ CallerInv(c) /\ calls[c] \in CallRecord
  BY CallFields DEF TransactionInv
<1> DEFINE r == [calls[c] EXCEPT !.step = step, !.line = n]
<1>2. /\ r \in CallRecord
      /\ r.step = step /\ r.user = calls[c].user /\ r.key = calls[c].key
      /\ r.cart = calls[c].cart
  BY <1>1 DEF CallRecord, Steps
<1> HIDE DEF r
<1>3. /\ calls' \in [Calls -> CallRecord]
      /\ calls'[c] = r
      /\ \A d \in Calls \ {c} : calls'[d] = calls[d]
  BY <1>1, <1>2, OneCall DEF r
<1>4. Quiet(c)
  BY <1>1, <1>2, <1>3 DEF Quiet, CallerInv, AnswerInv, At
<1>5. \A d \in Calls \ {c} : Quiet(d)
  BY <1>3 DEF Quiet, SameWork
<1> QED BY <1>3, <1>4, <1>5, OnlyCallsType, QuietStep

\* The same, as the statements say it.
LEMMA ProceedKeeps ==
  ASSUME TransactionInv, NEW c \in Calls, ~At(c, "idle"),
         NEW step \in {"lookup", "read", "insert"}, Proceed(c, step)
  PROVE  TransactionInv'
<1>1. calls' = [calls EXCEPT ![c] = [calls[c] EXCEPT !.step = step, !.line = 1]] /\ OnlyCalls
  BY DEF Proceed, OnlyCalls, workVars, clientVars, TransactionInv, TypeOK
<1> QED BY <1>1, ReadingKeeps

LEMMA StatementKeeps ==
  ASSUME TransactionInv, NEW c \in Calls, Take(c) \/ Lookup(c) \/ ReadLine(c)
  PROVE  TransactionInv'
<1>1. ~At(c, "idle")
  BY DEF Take, Lookup, ReadLine, At
<1>2. CASE Take(c)
  BY <1>1, <1>2, ProceedKeeps, RefuseKeeps DEF Take
<1>3. CASE Lookup(c)
  BY <1>1, <1>3, ProceedKeeps, AnswerKeeps DEF Lookup
<1>4. CASE ReadLine(c)
  <2>1. CASE calls' = [calls EXCEPT ![c].line = @ + 1]
               /\ UNCHANGED <<orders, stock, workVars, clientVars>>
    <3>1. calls[c] \in CallRecord /\ calls[c].line \in Nat /\ calls[c].step = "read"
      BY <1>4, CallFields DEF TransactionInv, ReadLine, At
    <3>2. [calls[c] EXCEPT !.line = @ + 1]
            = [calls[c] EXCEPT !.step = "read", !.line = calls[c].line + 1]
      BY <3>1 DEF CallRecord
    <3>3. calls' = [calls EXCEPT ![c] = [calls[c] EXCEPT !.line = @ + 1]] /\ OnlyCalls
      BY <2>1 DEF OnlyCalls, workVars, clientVars, TransactionInv, TypeOK
    <3>4. calls[c].line + 1 \in Nat
      BY <3>1
    <3>5. calls' = [calls EXCEPT ![c] =
                      [calls[c] EXCEPT !.step = "read", !.line = calls[c].line + 1]]
      BY <3>2, <3>3
    <3> QED BY <1>1, <3>3, <3>4, <3>5, ReadingKeeps
  <2> QED BY <1>1, <1>4, <2>1, ProceedKeeps, RefuseKeeps DEF ReadLine
<1> QED BY <1>2, <1>3, <1>4

-----------------------------------------------------------------------------
(* Inserting the order, and taking the pieces line by line. *)

\* A call whose order, key and rows are nobody else's may go on with its lines.
LEMMA LinesKeep ==
  ASSUME TransactionInv, OnlyCalls, NEW c \in Calls,
         calls' \in [Calls -> CallRecord],
         \A d \in Calls \ {c} : calls'[d] = calls[d],
         At(c, "lines")', CallerInv(c)', LinesInv(c)',
         \A d \in Calls \ {c} : At(d, "lines") =>
           /\ calls'[c].order # calls[d].order
           /\ calls'[c].user # calls[d].user \/ calls'[c].key # calls[d].key
           /\ HeldBy(c)' \intersect HeldBy(d) = {}
  PROVE  TransactionInv'
<1>1. TypeOK' /\ WorkerInv' /\ UNCHANGED <<orders, stock>>
  BY OnlyCallsType
<1>2. Placed' = Placed /\ OneOrderPerKey' /\ \A u, k : OrdersOf(u, k)' = OrdersOf(u, k)
  BY <1>1 DEF Placed, OneOrderPerKey, TransactionInv, OrdersOf
<1>3. \A d \in Calls \ {c} : /\ HeldBy(d)' = HeldBy(d)
                             /\ \A v : Taken(d, v)' = Taken(d, v)
  BY ZenonT(60) DEF HeldBy, At, Taken, Pieces
<1>4. ASSUME NEW d \in Calls \ {c} PROVE (CallerInv(d) /\ LinesInv(d) /\ AnswerInv(d))'
  BY <1>1, <1>2, <1>3, ZenonT(60) DEF TransactionInv, At, CallerInv, LinesInv, AnswerInv
<1>5. AnswerInv(c)'
  BY DEF AnswerInv, At
<1>6. LinesApart'
  BY <1>3 DEF TransactionInv, LinesApart, At
<1> QED BY <1>1, <1>2, <1>4, <1>5, <1>6 DEF TransactionInv

LEMMA InsertKeeps ==
  ASSUME TransactionInv, NEW c \in Calls, Insert(c)
  PROVE  TransactionInv'
<1>1. TypeOK /\ calls[c] \in CallRecord /\ ~At(c, "idle") /\ CallerInv(c) /\ KeyHolders(c) = {}
  BY CallFields DEF TransactionInv, Insert, At
<1>2. CASE OrdersOf(calls[c].user, calls[c].key) # {}
  BY <1>1, <1>2, AnswerKeeps DEF Insert
<1>3. CASE OrdersOf(calls[c].user, calls[c].key) = {}
  <2>1. PICK o \in NewOrders :
          /\ calls' = [calls EXCEPT ![c] =
                         [calls[c] EXCEPT !.step = "lines", !.line = 1, !.order = o]]
          /\ OnlyCalls
    BY <1>1, <1>3 DEF Insert, OnlyCalls, workVars, clientVars, TypeOK
  <2> DEFINE r == [calls[c] EXCEPT !.step = "lines", !.line = 1, !.order = o]
  <2>2. o \in Orders \ Placed /\ \A d \in Calls : At(d, "lines") => calls[d].order # o
    BY DEF NewOrders, Inserted
  <2>3. /\ r \in CallRecord
        /\ r.step = "lines" /\ r.line = 1 /\ r.order = o /\ r.user = calls[c].user
        /\ r.key = calls[c].key /\ r.cart = calls[c].cart
    BY <1>1, <2>2 DEF CallRecord, Steps
  <2> HIDE DEF r
  <2>4. /\ calls' \in [Calls -> CallRecord]
        /\ calls'[c] = r
        /\ \A d \in Calls \ {c} : calls'[d] = calls[d]
    BY <1>1, <2>1, <2>3, OneCall DEF r
  <2>5. At(c, "lines")' /\ CallerInv(c)'
    BY <1>1, <2>3, <2>4 DEF At, CallerInv
  <2>6. HeldBy(c)' = {}
    BY <2>3, <2>4 DEF HeldBy
  <2>7. calls[c].cart \in Carts
    BY <1>1 DEF CallerInv
  <2>8. 1 \in 1..(Len(calls[c].cart) + 1)
    BY <2>7, CartTypes
  <2>9. /\ OrdersOf(calls[c].user, calls[c].key)' = OrdersOf(calls'[c].user, calls'[c].key)
        /\ Placed' = Placed
        /\ OrdersOf(calls'[c].user, calls'[c].key) = {}
    BY <1>3, <2>1, <2>3, <2>4 DEF OnlyCalls, OrdersOf, Placed
  <2>10. LinesInv(c)'
    BY <2>2, <2>3, <2>4, <2>6, <2>8, <2>9 DEF LinesInv
  <2>11. \A d \in Calls \ {c} : At(d, "lines") =>
           calls[c].user # calls[d].user \/ calls[c].key # calls[d].key
    BY <1>1 DEF KeyHolders, Inserted
  <2> QED BY <2>1, <2>2, <2>3, <2>4, <2>5, <2>6, <2>10, <2>11, LinesKeep
<1> QED BY <1>2, <1>3

LEMMA DecrementKeeps ==
  ASSUME TransactionInv, NEW c \in Calls, Decrement(c)
  PROVE  TransactionInv'
<1>0. PICK v0, n, cart : v0 = NextLine(c) /\ n = calls[c].line /\ cart = calls[c].cart
  OBVIOUS
<1>1. /\ TypeOK /\ calls[c] \in CallRecord /\ At(c, "lines") /\ ~At(c, "idle")
      /\ CallerInv(c) /\ LinesInv(c)
  BY CallFields DEF TransactionInv, Decrement, At
<1>2. cart \in Carts /\ n \in 1..Len(cart) /\ Len(cart) \in Nat
  BY <1>0, <1>1, CartTypes DEF CallerInv, LinesInv, Decrement, MoreLines
<1>3. v0 \in Variants /\ v0 = cart[n]
  BY <1>0, <1>2, CartTypes DEF NextLine
<1>4. CASE ~(stock[v0] - Taken(c, v0) >= 1)
  BY <1>0, <1>1, <1>4, RefuseKeeps DEF Decrement
<1>5. CASE stock[v0] - Taken(c, v0) >= 1
  <2>1. /\ calls' = [calls EXCEPT ![c] = [calls[c] EXCEPT !.line = n + 1]]
        /\ OnlyCalls
    BY <1>0, <1>1, <1>5 DEF Decrement, OnlyCalls, workVars, clientVars, TypeOK
  <2>0. PICK r : r = [calls[c] EXCEPT !.line = n + 1]
    OBVIOUS
  <2>2. /\ r \in CallRecord
        /\ r.step = calls[c].step /\ r.line = n + 1 /\ r.order = calls[c].order
        /\ r.user = calls[c].user /\ r.key = calls[c].key /\ r.cart = cart
    BY <1>0, <1>1, <1>2, <2>0 DEF CallRecord
  <2>3. /\ calls' \in [Calls -> CallRecord]
        /\ calls'[c] = r
        /\ \A d \in Calls \ {c} : calls'[d] = calls[d]
    BY <1>1, <2>0, <2>1, <2>2, OneCall
  <2>4. At(c, "lines")' /\ CallerInv(c)'
    BY <1>0, <1>1, <2>2, <2>3 DEF At, CallerInv
  <2>5. HeldBy(c)' = HeldBy(c) \union {v0}
    <3>1. HeldBy(c) = {cart[i] : i \in 1..(n - 1)} /\ HeldBy(c)' = {cart[i] : i \in 1..n}
      BY <1>0, <1>1, <1>2, <2>2, <2>3, <2>4 DEF HeldBy
    <3> QED BY <1>2, <1>3, <3>1
  <2>6. \A v : Taken(c, v)' = Taken(c, v) + (IF v = v0 THEN 1 ELSE 0)
    <3> SUFFICES ASSUME NEW v PROVE Taken(c, v)' = Taken(c, v) + (IF v = v0 THEN 1 ELSE 0)
      OBVIOUS
    <3>1. Taken(c, v)' = Pieces(cart, n, v)
      <4>1. calls'[c].line - 1 = n /\ calls'[c].cart = cart
        BY <1>2, <2>2, <2>3
      <4> QED BY <4>1 DEF Taken
    <3>2. n - 1 \in Nat /\ (n - 1) + 1 = n
      BY <1>2
    <3>3. Pieces(cart, (n - 1) + 1, v) =
            Pieces(cart, n - 1, v) + (IF cart[(n - 1) + 1] = v THEN 1 ELSE 0)
      BY <3>2, PiecesNext
    <3> QED BY <1>0, <1>3, <3>1, <3>2, <3>3 DEF Taken
  <2>7. n - 1 \in Nat /\ \A v : Taken(c, v) \in Nat
    <3>1. n - 1 \in Nat
      BY <1>2
    <3> QED BY <1>0, <3>1, PiecesType DEF Taken
  <2>8. \A v \in HeldBy(c)' : Taken(c, v)' <= stock[v]
    <3>1. Taken(c, v0)' <= stock[v0]
      <4>1. stock[v0] \in Nat /\ Taken(c, v0) \in Nat
        BY <1>1, <1>3, <2>7 DEF TypeOK, AtomicTypeOK
      <4> QED BY <1>5, <2>6, <4>1
    <3>2. \A v \in HeldBy(c) : v # v0 => Taken(c, v)' = Taken(c, v)
      BY <2>6, <2>7
    <3> QED BY <1>1, <2>5, <3>1, <3>2 DEF LinesInv
  <2>9. /\ OrdersOf(calls[c].user, calls[c].key)' = OrdersOf(calls'[c].user, calls'[c].key)
        /\ Placed' = Placed
        /\ OrdersOf(calls'[c].user, calls'[c].key) = {}
    BY <1>0, <1>1, <2>1, <2>2, <2>3 DEF OnlyCalls, OrdersOf, Placed, LinesInv
  <2>10. LinesInv(c)'
    BY <1>0, <1>1, <1>2, <2>1, <2>2, <2>3, <2>8, <2>9 DEF LinesInv, OnlyCalls
  <2>11. \A d \in Calls \ {c} : v0 \notin HeldBy(d)
    BY <1>0 DEF Decrement, RowHolders
  <2>12. ASSUME NEW d \in Calls \ {c}, At(d, "lines")
         PROVE  /\ calls'[c].order # calls[d].order
                /\ calls'[c].user # calls[d].user \/ calls'[c].key # calls[d].key
                /\ HeldBy(c)' \intersect HeldBy(d) = {}
    BY <1>1, <2>2, <2>3, <2>5, <2>11, <2>12 DEF TransactionInv, LinesApart
  <2> QED BY <2>1, <2>3, <2>4, <2>10, <2>12, LinesKeep
<1> QED BY <1>4, <1>5

-----------------------------------------------------------------------------
(* Commits, payments and the expiry worker. *)

LEMMA HeldVariants ==
  ASSUME TransactionInv, NEW c \in Calls
  PROVE  HeldBy(c) \subseteq Variants
<1>1. CASE At(c, "lines")
  <2>1. calls[c].cart \in Carts /\ calls[c].line \in 1..(Len(calls[c].cart) + 1)
    BY <1>1 DEF TransactionInv, CallerInv, LinesInv, At
  <2>2. \A i \in 1..(calls[c].line - 1) : calls[c].cart[i] \in Variants
    BY <2>1, CartTypes
  <2> QED BY <1>1, <2>2 DEF HeldBy
<1>2. CASE ~At(c, "lines")
  BY <1>2 DEF HeldBy
<1> QED BY <1>1, <1>2

\* A commit is the placing of the order, out of stock that is there.
LEMMA CommitPlaces ==
  ASSUME TransactionInv, NEW c \in Calls, Commit(c)
  PROVE  /\ calls[c].order \in Orders /\ calls[c].user \in Users /\ calls[c].key \in Keys
         /\ calls[c].cart \in Carts
         /\ Place(calls[c].order, calls[c].user, calls[c].key, calls[c].cart)
         /\ \A v \in Variants : v \notin HeldBy(c) => stock'[v] = stock[v]
<1>1. /\ TypeOK /\ At(c, "lines") /\ CallerInv(c) /\ LinesInv(c)
  BY DEF TransactionInv, Commit
<1>2. calls[c].user \in Users /\ calls[c].key \in Keys /\ calls[c].cart \in Carts
  BY <1>1 DEF CallerInv, At
<1>3. calls[c].line - 1 = Len(calls[c].cart) /\ Len(calls[c].cart) \in Nat
  <2>1. Len(calls[c].cart) \in Nat
    BY <1>2, CartTypes
  <2>2. calls[c].line \in 1..(Len(calls[c].cart) + 1) /\ ~(calls[c].line <= Len(calls[c].cart))
    BY <1>1 DEF LinesInv, Commit, MoreLines
  <2> QED BY <2>1, <2>2
<1>4. \A v : Taken(c, v) = Wanted(calls[c].cart, v)
  BY <1>3 DEF Taken, Wanted
<1>5. \A v : v \notin HeldBy(c) => Taken(c, v) = 0
  <2> SUFFICES ASSUME NEW v, v \notin HeldBy(c) PROVE Taken(c, v) = 0
    OBVIOUS
  <2>1. \A i \in 1..(calls[c].line - 1) : calls[c].cart[i] # v
    BY <1>1 DEF HeldBy
  <2> QED BY <1>3, <2>1, PiecesNone DEF Taken
<1>6. \A v \in Variants : stock[v] \in Nat
  BY <1>1 DEF TypeOK, AtomicTypeOK
<1>7. \A v \in Variants : Wanted(calls[c].cart, v) <= stock[v]
  BY <1>1, <1>4, <1>5, <1>6 DEF LinesInv
<1>8. \A v \in Variants : v \notin HeldBy(c) => stock'[v] = stock[v]
  BY <1>5, <1>6 DEF Commit
<1>9. calls[c].order \in Orders \ Placed /\ OrdersOf(calls[c].user, calls[c].key) = {}
  BY <1>1 DEF LinesInv
<1>10. orders[calls[c].order].status = "none"
  BY <1>9 DEF Placed
<1>11. stock' = [v \in Variants |-> stock[v] - Wanted(calls[c].cart, v)]
  BY <1>4 DEF Commit
<1> QED BY <1>2, <1>7, <1>8, <1>9, <1>10, <1>11 DEF Commit, Place

LEMMA CommitKeeps ==
  ASSUME TransactionInv, NEW c \in Calls, Commit(c)
  PROVE  TransactionInv'
<1>1. PICK o, u, k : o = calls[c].order /\ u = calls[c].user /\ k = calls[c].key
  OBVIOUS
<1>2. /\ TypeOK /\ AtomicInv /\ o \in Orders \ Placed /\ u \in Users /\ k \in Keys
      /\ calls[c].cart \in Carts /\ At(c, "lines")
  BY <1>1, CommitPlaces DEF TransactionInv, TypeOK, AtomicInv, Commit, Place, Placed
<1>3. AtomicInv'
  BY <1>1, <1>2, CommitPlaces, PlaceAtomic
<1>4. /\ orders'[o].status = "pending" /\ orders'[o].user = u /\ orders'[o].key = k
      /\ \A a \in Orders \ {o} : orders'[a] = orders[a]
  BY <1>1, <1>2 DEF Commit, TypeOK, AtomicTypeOK
<1>5. Placed' = Placed \union {o}
  BY <1>2, <1>4 DEF Placed
<1>6. \A w, l : OrdersOf(w, l)' = OrdersOf(w, l) \union (IF w = u /\ l = k THEN {o} ELSE {})
  BY <1>2, <1>4, <1>5 DEF OrdersOf, Placed
<1>7. /\ calls' \in [Calls -> CallRecord]
      /\ \A d \in Calls \ {c} : calls'[d] = calls[d]
      /\ \/ calls'[c] = IdleCall
         \/ /\ calls'[c].step = "answered" /\ calls'[c].answer = "pending"
            /\ calls'[c].order = o
            /\ calls'[c].user = u /\ calls'[c].key = k
            /\ calls'[c].cart = calls[c].cart
  BY <1>1, <1>2, FinishFields DEF Commit, Answers
<1>8. TypeOK' /\ OneOrderPerKey'
  BY <1>2, <1>3, <1>7 DEF AtomicInv, TypeOK, Commit, workVars, clientVars
<1>9. (CallerInv(c) /\ LinesInv(c) /\ AnswerInv(c))'
  <2>1. CASE calls'[c] = IdleCall
    BY <1>2, <2>1, IdleCallFields DEF CallerInv, LinesInv, AnswerInv, At
  <2>2. CASE calls'[c] # IdleCall
    <3>1. o \in OrdersOf(u, k)'
      BY <1>6
    <3>2. OrdersOf(calls[c].user, calls[c].key)' = OrdersOf(u, k)'
      BY <1>7, <2>2 DEF OrdersOf, Placed
    <3> QED BY <1>2, <1>7, <2>2, <3>1, <3>2 DEF CallerInv, LinesInv, AnswerInv, At
  <2> QED BY <2>1, <2>2
<1>10. \A d \in Calls \ {c} : /\ HeldBy(d)' = HeldBy(d)
                              /\ \A v : Taken(d, v)' = Taken(d, v)
  BY <1>7 DEF HeldBy, At, Taken, Pieces
<1>11. ASSUME NEW d \in Calls \ {c} PROVE (CallerInv(d) /\ LinesInv(d) /\ AnswerInv(d))'
  <2>1. PICK w, l : w = calls[d].user /\ l = calls[d].key
    OBVIOUS
  <2>2. /\ CallerInv(d) /\ LinesInv(d) /\ AnswerInv(d)
        /\ calls'[d] = calls[d]
    BY <1>7 DEF TransactionInv
  <2>3. /\ OrdersOf(calls[d].user, calls[d].key)' = OrdersOf(w, l)'
        /\ OrdersOf(calls[d].user, calls[d].key) = OrdersOf(w, l)
    BY <2>1, <2>2 DEF OrdersOf, Placed
  <2>4. LinesInv(d)'
    <3> SUFFICES ASSUME At(d, "lines") PROVE LinesInv(d)'
      BY <2>2 DEF LinesInv, At
    <3>1. /\ calls[d].order # o
          /\ w # u \/ l # k
          /\ HeldBy(c) \intersect HeldBy(d) = {}
      BY <1>1, <1>2, <2>1 DEF TransactionInv, LinesApart
    <3>2. \A v \in HeldBy(d) : stock'[v] = stock[v]
      BY <3>1, CommitPlaces, HeldVariants
    <3>3. OrdersOf(w, l)' = OrdersOf(w, l)
      BY <1>6, <3>1
    <3> QED BY <1>5, <1>10, <2>2, <2>3, <3>1, <3>2, <3>3 DEF LinesInv
  <2>5. AnswerInv(d)'
    <3>1. OrdersOf(w, l) \subseteq OrdersOf(w, l)' /\ o \notin OrdersOf(w, l)
      BY <1>2, <1>6 DEF OrdersOf
    <3>2. \A a \in OrdersOf(w, l) : orders'[a] = orders[a]
      BY <1>4, <3>1 DEF OrdersOf, Placed
    <3> QED BY <2>2, <2>3, <3>1, <3>2 DEF AnswerInv, At
  <2>6. CallerInv(d)'
    BY <2>2 DEF CallerInv, At
  <2> QED BY <2>4, <2>5, <2>6
<1>12. ~At(c, "lines")'
  BY <1>2, <1>7, IdleCallFields DEF At
<1>13. LinesApart'
  BY <1>7, <1>10, <1>12 DEF TransactionInv, LinesApart, At
<1>14. WorkerInv'
  <2>1. worker' = worker /\ WorkerInv
    BY DEF Commit, workVars, TransactionInv
  <2>2. worker.order # NoOrder => worker.order # o
    BY <1>2, <2>1 DEF WorkerInv, Placed
  <2>3. worker.order # NoOrder => worker.order \in Orders
    BY <1>2 DEF TypeOK
  <2> QED BY <1>4, <2>1, <2>2, <2>3 DEF WorkerInv
<1> QED BY <1>8, <1>9, <1>11, <1>13, <1>14 DEF TransactionInv

\* An order that moves on frees or settles what it holds, and disturbs no call.
LEMMA MovedKeeps ==
  ASSUME TransactionInv, TypeOK', WorkerInv', NEW o \in Orders, NEW s \in {"paid", "cancelled"},
         MovedRows(o, s), calls' = calls,
         \A v \in Variants : stock[v] <= stock'[v]
  PROVE  TransactionInv'
<1>1. /\ Placed' = Placed
      /\ \A u, k : OrdersOf(u, k)' = OrdersOf(u, k)
  BY DEF MovedRows, Placed, OrdersOf
<1>2. OneOrderPerKey'
  BY MovedKeys DEF TransactionInv
<1>3. \A c \in Calls : /\ HeldBy(c)' = HeldBy(c)
                       /\ \A v : Taken(c, v)' = Taken(c, v)
                       /\ OrdersOf(calls[c].user, calls[c].key)' =
                            OrdersOf(calls[c].user, calls[c].key)
  BY <1>1 DEF HeldBy, At, Taken, Pieces, OrdersOf
<1>4. ASSUME NEW c \in Calls PROVE (CallerInv(c) /\ LinesInv(c) /\ AnswerInv(c))'
  <2>1. CallerInv(c) /\ LinesInv(c) /\ AnswerInv(c)
    BY DEF TransactionInv
  <2>2. LinesInv(c)'
    <3> SUFFICES ASSUME At(c, "lines") PROVE LinesInv(c)'
      BY DEF LinesInv, At
    <3>1. \A v \in HeldBy(c) : Taken(c, v) <= stock'[v]
      <4> SUFFICES ASSUME NEW v \in HeldBy(c) PROVE Taken(c, v) <= stock'[v]
        OBVIOUS
      <4>1. Taken(c, v) \in Nat
        <5>1. calls[c].line - 1 \in Nat
          BY <2>1 DEF LinesInv
        <5> QED BY <5>1, PiecesType DEF Taken
      <4>2. v \in Variants /\ stock[v] \in Nat /\ stock'[v] \in Nat
        BY HeldVariants DEF TransactionInv, TypeOK, AtomicTypeOK
      <4> QED BY <2>1, <4>1, <4>2 DEF LinesInv
    <3> QED BY <1>1, <1>3, <2>1, <3>1 DEF LinesInv
  <2>3. AnswerInv(c)'
    <3>1. \A a \in Orders : orders[a].status \notin {"none", "pending"} => orders'[a].status # "pending"
      BY DEF MovedRows
    <3>2. \A u, k : \A a \in OrdersOf(u, k) : a \in Orders /\ orders[a].status # "none"
      BY DEF OrdersOf, Placed
    <3> QED BY <1>3, <2>1, <3>1, <3>2 DEF AnswerInv, At
  <2>4. CallerInv(c)'
    BY <2>1 DEF CallerInv, At
  <2> QED BY <2>2, <2>3, <2>4
<1>5. LinesApart'
  BY <1>3 DEF TransactionInv, LinesApart, At
<1> QED BY <1>2, <1>4, <1>5 DEF TransactionInv

LEMMA PayKeeps ==
  ASSUME TransactionInv, NEW o \in Orders, Pay(o)
  PROVE  TransactionInv'
<1>1. AtomicInv /\ TypeOK /\ WorkerInv
  BY DEF TransactionInv, TypeOK, AtomicInv
<1>2. MovedRows(o, "paid")
  BY <1>1, MovedRow DEF Pay, Settle
<1>3. /\ UNCHANGED <<stock, calls, worker, minute, pages, stored, drawn, answered>>
      /\ worker.order # o
  BY DEF Pay, Settle, workVars, clientVars
<1>4. \A v \in Variants : stock[v] <= stock'[v]
  BY <1>1, <1>3 DEF AtomicInv, AtomicTypeOK
<1>5. TypeOK'
  BY <1>1, <1>3, SettleAtomic DEF Pay, AtomicInv, TypeOK
<1>6. WorkerInv'
  BY <1>1, <1>2, <1>3 DEF WorkerInv, MovedRows, TypeOK
<1> QED BY <1>2, <1>3, <1>4, <1>5, <1>6, MovedKeeps

\* The worker holds the order's row from its first statement to its commit.
LEMMA WorkerKeeps ==
  ASSUME TransactionInv,
         RestoreLine \/ AbortExpiry \/ \E o \in Orders : Expire(o)
  PROVE  TransactionInv'
<1>1. TypeOK /\ WorkerInv
  BY DEF TransactionInv
<1>2. UNCHANGED <<orders, stock, calls, minute, pages, stored, drawn, answered>>
  BY DEF RestoreLine, AbortExpiry, Expire, clientVars
<1>3. worker' \in [order : Orders \union {NoOrder}, line : Nat] /\ WorkerInv'
  <2>1. CASE RestoreLine
    <3>1. worker' = [worker EXCEPT !.line = @ + 1] /\ worker # NoWork
      BY <2>1 DEF RestoreLine
    <3>2. /\ worker' \in [order : Orders \union {NoOrder}, line : Nat]
          /\ worker'.order = worker.order
      BY <1>1, <3>1 DEF TypeOK
    <3> QED BY <1>1, <1>2, <3>1, <3>2 DEF WorkerInv
  <2>2. CASE AbortExpiry
    BY <2>2 DEF AbortExpiry, NoWork, WorkerInv
  <2>3. ASSUME NEW o \in Orders, Expire(o)
        PROVE  worker' \in [order : Orders \union {NoOrder}, line : Nat] /\ WorkerInv'
    BY <1>2, <2>3, CheckoutAssumption DEF Expire, WorkerInv
  <2> QED BY <2>1, <2>2, <2>3
<1>4. \A c \in Calls : Quiet(c)
  BY <1>2 DEF Quiet, SameWork
<1>5. TypeOK'
  BY <1>1, <1>2, <1>3 DEF TypeOK, AtomicTypeOK
<1> QED BY <1>2, <1>3, <1>4, <1>5, QuietStep

LEMMA CommitExpiryReturns ==
  ASSUME TransactionInv, CommitExpiry
  PROVE  worker.order \in Orders /\ Return(worker.order)
  BY DEF CommitExpiry, TransactionInv, WorkerInv, TypeOK

LEMMA CommitExpiryKeeps ==
  ASSUME TransactionInv, CommitExpiry
  PROVE  TransactionInv'
<1>1. PICK o \in Orders : Return(o)
  BY CommitExpiryReturns
<1>2. AtomicInv /\ TypeOK
  BY DEF TransactionInv, TypeOK, AtomicInv
<1>3. MovedRows(o, "cancelled")
  BY <1>1, <1>2, MovedRow DEF Return
<1>4. AtomicInv' /\ \A v \in Variants : stock[v] <= stock'[v]
  BY <1>1, <1>2, ReturnAtomic
<1>5. UNCHANGED <<calls, minute, pages, stored, drawn, answered>> /\ worker' = NoWork
  BY DEF CommitExpiry, clientVars
<1>6. TypeOK' /\ WorkerInv'
  BY <1>2, <1>4, <1>5 DEF AtomicInv, TypeOK, WorkerInv, NoWork
<1> QED BY <1>3, <1>4, <1>5, <1>6, MovedKeeps

LEMMA MinuteKeeps ==
  ASSUME TransactionInv, NextMinute
  PROVE  TransactionInv'
<1>1. TypeOK /\ WorkerInv
  BY DEF TransactionInv
<1>2. UNCHANGED <<orders, stock, calls, worker, pages, stored, drawn, answered>>
  BY DEF NextMinute, clientVars
<1>3. minute' \in 0..MaxMinute
  BY <1>1, CheckoutAssumption DEF NextMinute, TypeOK
<1>4. \A c \in Calls : Quiet(c)
  BY <1>2 DEF Quiet, SameWork
<1>5. TypeOK' /\ WorkerInv'
  BY <1>1, <1>2, <1>3 DEF TypeOK, AtomicTypeOK, WorkerInv
<1> QED BY <1>2, <1>4, <1>5, QuietStep

LEMMA AbortKeeps ==
  ASSUME TransactionInv, NEW c \in Calls, AbortCall(c)
  PROVE  TransactionInv'
<1>1. Refuse(c)
  BY DEF AbortCall
<1>2. ~At(c, "idle")
  <2>1. WaitsFor(c) # {}
    BY DEF AbortCall, Deadlocked
  <2> QED BY <2>1, WorkerAssumption DEF WaitsFor, At
<1> QED BY <1>1, <1>2, RefuseKeeps

-----------------------------------------------------------------------------
LEMMA TransactionInit == Init => TransactionInv
<1> SUFFICES ASSUME Init PROVE TransactionInv
  OBVIOUS
<1>1. AtomicInv
  BY AtomicInit DEF Init
<1>2. IdleCall \in CallRecord /\ IdleCall.step = "idle"
  BY CheckoutAssumption DEF IdleCall, CallRecord, Steps, Sides, Answers
<1>3. \A c \in Calls : calls[c] = IdleCall
  BY DEF Init
<1>4. \A cart \in Carts : NewPage(cart) \in PageRecord
  BY DEF NewPage, PageRecord
<1>5. pages \in [Users -> PageRecord]
  BY <1>4 DEF Init
<1>6. TypeOK /\ WorkerInv
  BY <1>1, <1>2, <1>5, CheckoutAssumption DEF Init, AtomicInv, TypeOK, NoWork, WorkerInv
<1> QED BY <1>1, <1>2, <1>3, <1>6
  DEF AtomicInv, TransactionInv, CallerInv, LinesInv, AnswerInv, LinesApart, At

LEMMA TransactionStep == TransactionInv /\ [Next]_vars => TransactionInv'
<1> SUFFICES ASSUME TransactionInv, [Next]_vars PROVE TransactionInv'
  OBVIOUS
<1>1. CASE UNCHANGED vars
  <2>1. TypeOK' /\ WorkerInv' /\ UNCHANGED <<orders, stock>>
    BY <1>1 DEF vars, TransactionInv, TypeOK, AtomicTypeOK, WorkerInv
  <2>2. \A c \in Calls : Quiet(c)
    BY <1>1 DEF vars, Quiet, SameWork
  <2> QED BY <2>1, <2>2, QuietStep
<1>2. ASSUME NEW u \in Users, NEW c \in Calls, Submit(u, c) PROVE TransactionInv'
  BY <1>2, SubmitKeeps
<1>3. ASSUME NEW c \in Calls,
             ReceiveOrder(c) \/ ReceiveClosed(c) \/ ReceiveFailure(c) \/ LoseAnswer(c)
      PROVE  TransactionInv'
  BY <1>3, ReceiveKeeps, ReceiveClosedKeeps
<1>4. ASSUME NEW u \in Users, LeavePage(u) \/ Restart(u) PROVE TransactionInv'
  BY <1>4, LeaveKeeps
<1>5. ASSUME NEW c \in Calls, Statement(c) \/ AbortCall(c) PROVE TransactionInv'
  BY <1>5, StatementKeeps, InsertKeeps, DecrementKeeps, CommitKeeps, AbortKeeps DEF Statement
<1>6. ASSUME NEW o \in Orders, Expire(o) \/ Pay(o) PROVE TransactionInv'
  BY <1>6, WorkerKeeps, PayKeeps
<1>7. CASE Restoration \/ AbortExpiry
  BY <1>7, WorkerKeeps, CommitExpiryKeeps DEF Restoration
<1>8. CASE NextMinute
  BY <1>8, MinuteKeeps
<1> QED BY <1>1, <1>2, <1>3, <1>4, <1>5, <1>6, <1>7, <1>8 DEF Next

\* The inductive invariant of the transactions: whoever inserted an order has its id, its
\* key and its stock rows for himself, and an answer names the order of its key.
THEOREM TransactionInvariant == Spec => []TransactionInv
<1> QED BY TransactionInit, TransactionStep, PTL DEF Spec

\* The tables, pages and calls of create_checkout_order's world keep their types; stock never
\* goes below zero.
THEOREM CheckoutTyped == Spec => []TypeOK
<1>1. TransactionInv => TypeOK
  BY DEF TransactionInv
<1> QED BY <1>1, TransactionInvariant, PTL

-----------------------------------------------------------------------------
(* The refinement. *)

LEMMA StatementImplements ==
  ASSUME TransactionInv, NEW c \in Calls, Statement(c) \/ AbortCall(c)
  PROVE  [ANext]_checkoutVars
<1>1. CASE Commit(c)
  BY <1>1, CommitPlaces DEF ANext
<1>2. CASE ~Commit(c)
  <2>1. UNCHANGED <<orders, stock>>
    BY <1>2 DEF Statement, AbortCall, Take, Lookup, ReadLine, Insert, Decrement, Proceed, Refuse,
                AnswerExisting
  <2> QED BY <2>1 DEF checkoutVars
<1> QED BY <1>1, <1>2

LEMMA EveryStepImplements ==
  ASSUME TransactionInv, [Next]_vars
  PROVE  [ANext]_checkoutVars
<1>1. ASSUME NEW c \in Calls, Statement(c) \/ AbortCall(c) PROVE [ANext]_checkoutVars
  BY <1>1, StatementImplements
<1>2. CASE CommitExpiry
  BY <1>2, CommitExpiryReturns DEF ANext
<1>3. ASSUME NEW o \in Orders, Pay(o) PROVE [ANext]_checkoutVars
  BY <1>3 DEF Pay, ANext
<1>4. ASSUME NEW o \in Orders, Expire(o) PROVE [ANext]_checkoutVars
  BY <1>4 DEF Expire, checkoutVars
<1>5. ASSUME NEW u \in Users, LeavePage(u) \/ Restart(u) \/ \E c \in Calls : Submit(u, c)
      PROVE  [ANext]_checkoutVars
  BY <1>5 DEF LeavePage, Restart, Submit, checkoutVars
<1>6. ASSUME NEW c \in Calls,
             ReceiveOrder(c) \/ ReceiveClosed(c) \/ ReceiveFailure(c) \/ LoseAnswer(c)
      PROVE  [ANext]_checkoutVars
  BY <1>6 DEF ReceiveOrder, ReceiveClosed, ReceiveFailure, LoseAnswer, checkoutVars
<1>7. CASE RestoreLine \/ AbortExpiry \/ NextMinute \/ UNCHANGED vars
  BY <1>7 DEF RestoreLine, AbortExpiry, NextMinute, vars, checkoutVars
<1> QED BY <1>1, <1>2, <1>3, <1>4, <1>5, <1>6, <1>7 DEF Next, Restoration

\* create_checkout_order and the worker's restoration, statement by statement, are the
\* atomic steps of AtomicCheckout.
THEOREM AtomicImplemented == Spec => ImplementsAtomic
<1>1. Init => AInit
  BY DEF Init
<1>2. TransactionInv /\ [Next]_vars => [ANext]_checkoutVars
  BY EveryStepImplements
<1> QED BY <1>1, <1>2, TransactionInvariant, PTL DEF Spec, ImplementsAtomic, ASpec

\* A promise of AtomicCheckout, and so of whatever implements it: no retry of an
\* attempt places a second order.
THEOREM OneOrderAlways == Spec => []OneOrderPerAttempt
<1>1. AtomicInv => OneOrderPerAttempt
  BY DEF AtomicInv, OneOrderPerAttempt
<1> QED BY <1>1, AtomicImplemented, AtomicInvariant, PTL DEF ImplementsAtomic

-----------------------------------------------------------------------------
(* The client's keys. *)

LEMMA OrderFields ==
  ASSUME TypeOK
  PROVE  /\ \A o \in Placed : orders[o].user \in Users /\ orders[o].key \in Keys
         /\ \A u, k : \A o \in OrdersOf(u, k) : o \in Placed /\ orders[o].user = u /\ orders[o].key = k
  BY NoRowFields DEF TypeOK, AtomicTypeOK, OrderRow, Placed, OrdersOf

\* a call of which less is expected than before
Calmer(c) ==
    /\ Awaited(c)' => Awaited(c) /\ calls'[c].side = calls[c].side
    /\ Running(c)' => Running(c)
    /\ Awaited(c)' \/ Running(c)' => /\ calls'[c].user = calls[c].user
                                     /\ calls'[c].key = calls[c].key
    /\ AnsweredInv(c)'

\* What the database does leaves the clients alone, unless it places an order.
LEMMA TablesKeepClients ==
  ASSUME TransactionInv, ClientInv, UNCHANGED <<pages, stored, answered>>,
         \A c \in Calls : Calmer(c),
         \A o \in Placed : o \in Placed' /\ orders'[o].user = orders[o].user
                                        /\ orders'[o].key = orders[o].key,
         \A o \in Placed' : orders'[o].status = "pending" =>
           \/ o \in Placed /\ orders[o].status = "pending"
           \/ stored[orders'[o].user] = orders'[o].key
  PROVE  ClientInv'
<1>1. ASSUME NEW u, NEW k, OrdersOf(u, k) # {} PROVE OrdersOf(u, k)' # {}
  <2>1. PICK o \in OrdersOf(u, k) : TRUE
    BY <1>1
  <2>2. o \in OrdersOf(u, k)'
    BY DEF OrdersOf
  <2> QED BY <2>2
<1>2. ASSUME NEW u \in Users PROVE CustomerInv(u)'
  <2>1. CustomerInv(u)
    BY DEF ClientInv
  <2>2. ASSUME NEW c \in Calls, Awaited(c)', calls'[c].user = u
        PROVE  /\ calls'[c].side = "page"
               /\ pages'[u].status = "creating"
               /\ stored'[u] = calls'[c].key
               /\ \A d \in Calls : Awaited(d)' /\ calls'[d].user = u => d = c
    BY <2>1, <2>2 DEF CustomerInv, Calmer
  <2>3. ASSUME NEW c \in Calls, Running(c)', calls'[c].user = u
        PROVE  stored'[u] = calls'[c].key \/ OrdersOf(u, calls[c].key)' # {}
    BY <1>1, <2>1, <2>3 DEF CustomerInv, Calmer
  <2>4. ASSUME NEW o \in Placed' \ answered', orders'[o].status = "pending", orders'[o].user = u
        PROVE  stored'[u] = orders'[o].key
    BY <2>1, <2>4 DEF CustomerInv
  <2>5. pages'[u].status = "open" /\ pages'[u].key # NoKey => stored'[u] = pages'[u].key
    BY <2>1 DEF CustomerInv
  <2> QED BY <2>2, <2>3, <2>4, <2>5 DEF CustomerInv
<1> QED BY <1>2 DEF ClientInv, Calmer

\* What a client does concerns its customer.
LEMMA ClientStep ==
  ASSUME ClientInv, NEW u \in Users, orders' = orders,
         \A w \in Users \ {u} : pages'[w] = pages[w] /\ stored'[w] = stored[w],
         answered \subseteq answered',
         \A c \in Calls : \/ calls'[c].user = u
                          \/ calls'[c] = calls[c]
                          \/ calls'[c].step = "idle",
         CustomerInv(u)', \A c \in Calls : AnsweredInv(c)'
  PROVE  ClientInv'
<1>1. ASSUME NEW w \in Users \ {u} PROVE CustomerInv(w)'
  <2>1. CustomerInv(w)
    BY DEF ClientInv
  <2>2. Placed' = Placed /\ \A k : OrdersOf(w, k)' = OrdersOf(w, k)
    BY DEF Placed, OrdersOf
  <2>3. \A c \in Calls : (Awaited(c) \/ Running(c))' /\ calls'[c].user = w => calls'[c] = calls[c]
    BY DEF Awaited, Running, At
  <2> QED BY <2>1, <2>2, <2>3 DEF CustomerInv, Awaited, Running, At
<1> QED BY <1>1 DEF ClientInv

\* A transaction ends, or goes on, for whoever waits for it.
LEMMA FinishCalms ==
  ASSUME TypeOK, NEW c \in Calls, ~At(c, "idle"), NEW answer \in Answers,
         NEW o \in Orders \union {NoOrder}, Finish(c, answer, o)
  PROVE  Calmer(c) /\ \A d \in Calls \ {c} : calls'[d] = calls[d]
  BY FinishFields, IdleCallFields DEF Calmer, Awaited, Running, AnsweredInv, At

LEMMA WorkCalms ==
  ASSUME TypeOK, NEW c \in Calls, Running(c),
         NEW step \in {"lookup", "read", "insert", "lines"}, NEW n \in Nat,
         NEW o \in Orders \union {NoOrder},
         calls' = [calls EXCEPT ![c] = [calls[c] EXCEPT !.step = step, !.line = n, !.order = o]]
  PROVE  Calmer(c) /\ \A d \in Calls \ {c} : calls'[d] = calls[d]
<1> DEFINE r == [calls[c] EXCEPT !.step = step, !.line = n, !.order = o]
<1>1. /\ r \in CallRecord
      /\ r.step = step /\ r.side = calls[c].side /\ r.user = calls[c].user
      /\ r.key = calls[c].key
  BY CallFields DEF CallRecord, Steps
<1> HIDE DEF r
<1>2. calls'[c] = r /\ \A d \in Calls \ {c} : calls'[d] = calls[d]
  BY <1>1, OneCall DEF r
<1> QED BY <1>1, <1>2 DEF Calmer, Awaited, Running, AnsweredInv, At

LEMMA StatementCalms ==
  ASSUME TransactionInv, NEW c \in Calls, Statement(c) \/ AbortCall(c)
  PROVE  /\ Calmer(c)
         /\ \A d \in Calls \ {c} : calls'[d] = calls[d]
         /\ UNCHANGED <<pages, stored, answered>>
<1>1. TypeOK /\ calls[c] \in CallRecord
  BY CallFields DEF TransactionInv
<1>2. UNCHANGED <<pages, stored, answered>>
  BY DEF Statement, AbortCall, Take, Lookup, ReadLine, Insert, Decrement, Commit, Proceed, Refuse,
         AnswerExisting, clientVars
<1> DEFINE Goal == Calmer(c) /\ \A d \in Calls \ {c} : calls'[d] = calls[d]
<1> SUFFICES Goal
  BY <1>2
<1>3. ASSUME ~At(c, "idle"), Refuse(c) PROVE Goal
  BY <1>1, <1>3, FinishCalms DEF Refuse, Answers
<1>4. ASSUME ~At(c, "idle"), AnswerExisting(c) PROVE Goal
  <2>1. PICK o \in OrdersOf(calls[c].user, calls[c].key) :
          Finish(c, IF orders[o].status = "pending" THEN "pending" ELSE "closed", o)
    BY <1>4 DEF AnswerExisting
  <2>2. PICK answer \in Answers : Finish(c, answer, o)
    BY <2>1 DEF Answers
  <2>3. o \in Orders
    BY DEF OrdersOf, Placed
  <2> QED BY <1>1, <1>4, <2>2, <2>3, FinishCalms
<1>5. ASSUME Running(c), NEW step \in {"lookup", "read", "insert"}, Proceed(c, step) PROVE Goal
  <2>1. [calls[c] EXCEPT !.step = step, !.line = 1]
          = [calls[c] EXCEPT !.step = step, !.line = 1, !.order = calls[c].order]
    BY <1>1 DEF CallRecord
  <2>2. calls' = [calls EXCEPT ![c] = [calls[c] EXCEPT !.step = step, !.line = 1]]
    BY <1>1, <1>5 DEF Proceed, TypeOK
  <2>3. calls[c].order \in Orders \union {NoOrder}
    BY <1>1, CallFields
  <2>4. calls' = [calls EXCEPT ![c] =
                    [calls[c] EXCEPT !.step = step, !.line = 1, !.order = calls[c].order]]
    BY <2>1, <2>2
  <2> QED BY <1>1, <1>5, <2>3, <2>4, WorkCalms
<1>6. ASSUME NEW step \in {"read", "lines"}, At(c, step),
             calls' = [calls EXCEPT ![c].line = @ + 1]
      PROVE  Goal
  <2>1. [calls[c] EXCEPT !.line = @ + 1]
          = [calls[c] EXCEPT !.step = step, !.line = calls[c].line + 1,
                             !.order = calls[c].order]
    BY <1>1, <1>6 DEF CallRecord, At
  <2>2. calls' = [calls EXCEPT ![c] = [calls[c] EXCEPT !.line = @ + 1]]
    BY <1>1, <1>6 DEF TypeOK
  <2>3. calls[c].order \in Orders \union {NoOrder} /\ calls[c].line + 1 \in Nat /\ Running(c)
    BY <1>1, <1>6, CallFields DEF Running, At
  <2>4. calls' = [calls EXCEPT ![c] =
                    [calls[c] EXCEPT !.step = step, !.line = calls[c].line + 1,
                                     !.order = calls[c].order]]
    BY <2>1, <2>2
  <2> QED BY <1>1, <2>3, <2>4, WorkCalms
<1>7. CASE Take(c) \/ Lookup(c)
  BY <1>3, <1>4, <1>5, <1>7 DEF Take, Lookup, Running, At
<1>8. CASE ReadLine(c)
  BY <1>3, <1>5, <1>6, <1>8 DEF ReadLine, Running, At
<1>9. CASE Decrement(c)
  BY <1>3, <1>6, <1>9 DEF Decrement, At
<1>10. CASE Insert(c)
  <2>1. CASE OrdersOf(calls[c].user, calls[c].key) # {}
    BY <1>4, <1>10, <2>1 DEF Insert, At
  <2>2. CASE OrdersOf(calls[c].user, calls[c].key) = {}
    <3>1. PICK o \in NewOrders :
            calls' = [calls EXCEPT ![c] =
                        [calls[c] EXCEPT !.step = "lines", !.line = 1, !.order = o]]
      BY <1>1, <1>10, <2>2 DEF Insert, TypeOK
    <3>2. o \in Orders /\ Running(c)
      BY <1>10 DEF NewOrders, Insert, Running, At
    <3> QED BY <1>1, <3>1, <3>2, WorkCalms
  <2> QED BY <2>1, <2>2
<1>11. CASE Commit(c)
  <2>1. calls[c].order \in Orders /\ ~At(c, "idle")
    BY <1>11, CommitPlaces DEF Commit, At
  <2> QED BY <1>1, <1>11, <2>1, FinishCalms DEF Commit, Answers
<1>12. CASE AbortCall(c)
  <2>1. WaitsFor(c) # {} /\ Refuse(c)
    BY <1>12 DEF AbortCall, Deadlocked
  <2>2. ~At(c, "idle")
    BY <2>1, WorkerAssumption DEF WaitsFor, At
  <2> QED BY <1>3, <2>1, <2>2
<1> QED BY <1>7, <1>8, <1>9, <1>10, <1>11, <1>12 DEF Statement

\* The order a commit makes visible has the key on its customer's device.
LEMMA StatementKeepsClients ==
  ASSUME TransactionInv, ClientInv, NEW c \in Calls, Statement(c) \/ AbortCall(c)
  PROVE  ClientInv'
<1>1. /\ \A d \in Calls : Calmer(d)
      /\ UNCHANGED <<pages, stored, answered>>
  <2>1. /\ Calmer(c) /\ UNCHANGED <<pages, stored, answered>>
        /\ \A d \in Calls \ {c} : calls'[d] = calls[d]
    BY StatementCalms
  <2>2. \A d \in Calls \ {c} : Calmer(d)
    BY <2>1 DEF Calmer, Awaited, Running, AnsweredInv, At, ClientInv
  <2> QED BY <2>1, <2>2
<1>2. CASE Commit(c)
  <2>1. PICK o, u, k : o = calls[c].order /\ u = calls[c].user /\ k = calls[c].key
    OBVIOUS
  <2>2. /\ o \in Orders \ Placed /\ u \in Users
        /\ OrdersOf(u, k) = {}
    BY <1>2, <2>1, CommitPlaces DEF Place, Placed
  <2>3. /\ orders'[o].user = u /\ orders'[o].key = k
        /\ orders'[o].status = "pending"
        /\ \A a \in Orders \ {o} : orders'[a] = orders[a]
    BY <1>2, <2>1, <2>2 DEF Commit, TransactionInv, TypeOK, AtomicTypeOK
  <2>4. stored[u] = k
    BY <1>2, <2>1, <2>2 DEF ClientInv, CustomerInv, Running, Commit, At
  <2>5. Placed' = Placed \union {o}
    BY <2>2, <2>3 DEF Placed
  <2>6. \A a \in Placed : a \in Placed' /\ orders'[a].user = orders[a].user
                                       /\ orders'[a].key = orders[a].key
    BY <2>2, <2>3, <2>5 DEF Placed
  <2>7. \A a \in Placed' : orders'[a].status = "pending" =>
          \/ a \in Placed /\ orders[a].status = "pending"
          \/ stored[orders'[a].user] = orders'[a].key
    BY <2>2, <2>3, <2>4, <2>5 DEF Placed
  <2> QED BY <1>1, <2>6, <2>7, TablesKeepClients
<1>3. CASE ~Commit(c)
  <2>1. orders' = orders
    BY <1>3 DEF Statement, AbortCall, Take, Lookup, ReadLine, Insert, Decrement, Proceed, Refuse,
                AnswerExisting
  <2>2. Placed' = Placed
    BY <2>1 DEF Placed
  <2> QED BY <1>1, <2>1, <2>2, TablesKeepClients
<1> QED BY <1>2, <1>3

\* Payments, the worker and the clock place no order.
LEMMA BackendKeepsClients ==
  ASSUME TransactionInv, ClientInv,
         \/ \E o \in Orders : Expire(o) \/ Pay(o)
         \/ Restoration \/ AbortExpiry \/ NextMinute \/ UNCHANGED vars
  PROVE  ClientInv'
<1>1. UNCHANGED <<calls, pages, stored, answered>>
  BY DEF Expire, Pay, Restoration, RestoreLine, CommitExpiry, AbortExpiry, NextMinute, vars,
         clientVars, workVars
<1>2. \A c \in Calls : Calmer(c)
  BY <1>1 DEF Calmer, Awaited, Running, AnsweredInv, At, ClientInv
<1>3. \/ orders' = orders
      \/ \E o \in Orders, s \in {"paid", "cancelled"} : MovedRows(o, s)
  <2>1. AtomicInv
    BY DEF TransactionInv, TypeOK, AtomicInv
  <2>2. ASSUME NEW o \in Orders, Pay(o) PROVE MovedRows(o, "paid")
    BY <2>1, <2>2, MovedRow DEF Pay, Settle
  <2>3. ASSUME CommitExpiry PROVE \E o \in Orders : MovedRows(o, "cancelled")
    BY <2>1, <2>3, CommitExpiryReturns, MovedRow DEF Return
  <2> QED BY <2>2, <2>3 DEF Expire, Restoration, RestoreLine, AbortExpiry, NextMinute, vars
<1> DEFINE Moved == /\ \A a \in Placed : a \in Placed' /\ orders'[a].user = orders[a].user
                                                   /\ orders'[a].key = orders[a].key
                    /\ \A a \in Placed' : orders'[a].status = "pending" =>
                         a \in Placed /\ orders[a].status = "pending"
<1>4. Moved
  <2>1. CASE orders' = orders
    BY <2>1 DEF Placed
  <2>2. ASSUME NEW o \in Orders, NEW s \in {"paid", "cancelled"}, MovedRows(o, s)
        PROVE  Moved
    BY <2>2 DEF MovedRows, Placed
  <2> QED BY <1>3, <2>1, <2>2
<1> QED BY <1>1, <1>2, <1>4, TablesKeepClients

-----------------------------------------------------------------------------
(* What the client does with its key. *)

\* An attempt goes on with the key that is stored, if one is.
LEMMA SubmitKeepsClients ==
  ASSUME TransactionInv, ClientInv, NEW u \in Users, NEW c \in Calls, Submit(u, c)
  PROVE  ClientInv'
<1>1. TypeOK /\ pages[u] \in PageRecord /\ CustomerInv(u)
  BY DEF TransactionInv, TypeOK, ClientInv
<1>2. PICK k \in KeysFor(u) :
        /\ stored' = [stored EXCEPT ![u] = k]
        /\ calls' = [calls EXCEPT ![c] = FirstCall(u, k, pages[u].cart)]
  BY DEF Submit, FirstCall
<1>3. k \in Keys /\ pages[u].cart \in Carts
  BY <1>1 DEF KeysFor, TypeOK, PageRecord
<1>4. /\ FirstCall(u, k, pages[u].cart) \in CallRecord
      /\ FirstCall(u, k, pages[u].cart).step = "take"
      /\ FirstCall(u, k, pages[u].cart).side = "page"
      /\ FirstCall(u, k, pages[u].cart).user = u
      /\ FirstCall(u, k, pages[u].cart).key = k
  BY <1>1, <1>3, NewCallFields
<1>5. /\ calls'[c] = FirstCall(u, k, pages[u].cart)
      /\ \A d \in Calls \ {c} : calls'[d] = calls[d]
  BY <1>1, <1>2, <1>4, OneCall
<1>6. /\ stored'[u] = k
      /\ \A w \in Users \ {u} : stored'[w] = stored[w] /\ pages'[w] = pages[w]
      /\ pages'[u].status = "creating"
      /\ UNCHANGED <<orders, answered>>
  BY <1>1, <1>2 DEF Submit, TypeOK, PageRecord
<1>7. stored[u] # NoKey => k = stored[u]
  BY <1>1 DEF Submit, CustomerInv, KeysFor
<1>8. Placed' = Placed /\ \A l : OrdersOf(u, l)' = OrdersOf(u, l)
  BY <1>6 DEF Placed, OrdersOf
<1>9. \A d \in Calls : Awaited(d)' /\ calls'[d].user = u => d = c
  BY <1>1, <1>5 DEF Submit, CustomerInv, Awaited, At
<1>10. ASSUME NEW d \in Calls, Running(d)', calls'[d].user = u
       PROVE  stored'[u] = calls'[d].key \/ OrdersOf(u, calls'[d].key) # {}
  <2>1. CASE d = c
    BY <1>4, <1>5, <1>6, <2>1
  <2>2. CASE d # c
    <3>1. Running(d) /\ calls[d].user = u /\ calls'[d].key = calls[d].key
      BY <1>5, <1>10, <2>2 DEF Running
    <3>2. calls[d].key # NoKey
      BY <3>1, CheckoutAssumption DEF TransactionInv, CallerInv, Running, At
    <3> QED BY <1>1, <1>6, <1>7, <3>1, <3>2 DEF CustomerInv
  <2> QED BY <2>1, <2>2
<1>11. ASSUME NEW o \in Placed \ answered, orders[o].status = "pending", orders[o].user = u
       PROVE  stored'[u] = orders[o].key
  <2>1. orders[o].key # NoKey
    BY <1>1, OrderFields, CheckoutAssumption
  <2> QED BY <1>1, <1>6, <1>7, <1>11, <2>1 DEF CustomerInv
<1>12. CustomerInv(u)'
  <2>1. \A d \in Calls : OrdersOf(u, calls[d].key)' = OrdersOf(u, calls'[d].key)
    BY <1>6 DEF OrdersOf, Placed
  <2> QED BY <1>4, <1>5, <1>6, <1>8, <1>9, <1>10, <1>11, <2>1 DEF CustomerInv
<1>13. \A d \in Calls : AnsweredInv(d)'
  BY <1>4, <1>5 DEF ClientInv, AnsweredInv, At
<1> QED BY <1>4, <1>5, <1>6, <1>12, <1>13, ClientStep

\* Whoever waits for a call, does so in the page, with its key on the device.
LEMMA AwaitedCall ==
  ASSUME TransactionInv, ClientInv, NEW c \in Calls, Awaited(c) \/ At(c, "answered")
  PROVE  /\ Awaited(c) /\ ~At(c, "idle")
         /\ calls[c].user \in Users /\ calls[c].key \in Keys
         /\ CustomerInv(calls[c].user)
         /\ calls[c].side = "page"
         /\ pages[calls[c].user].status = "creating"
         /\ stored[calls[c].user] = calls[c].key
         /\ \A d \in Calls \ {c} : ~(Awaited(d) /\ calls[d].user = calls[c].user)
<1>1. Awaited(c) /\ ~At(c, "idle")
  BY DEF ClientInv, AnsweredInv, Awaited, At
<1>2. calls[c].user \in Users /\ calls[c].key \in Keys
  BY <1>1 DEF TransactionInv, CallerInv
<1>3. CustomerInv(calls[c].user)
  BY <1>2 DEF ClientInv
<1> QED BY <1>1, <1>2, <1>3 DEF CustomerInv

\* the page shows the outcome of the call it waits for
LEMMA ShowPages ==
  ASSUME TransactionInv, ClientInv, NEW c \in Calls, Awaited(c) \/ At(c, "answered"),
         NEW status \in {"open", "placing"}, Show(c, status, calls[c].key)
  PROVE  /\ pages'[calls[c].user].status = status
         /\ pages'[calls[c].user].key = calls[c].key
         /\ \A w \in Users \ {calls[c].user} : pages'[w] = pages[w]
<1>1. /\ calls[c].user \in Users /\ calls[c].side = "page"
      /\ pages[calls[c].user] \in PageRecord
      /\ pages \in [Users -> PageRecord]
  BY AwaitedCall DEF TransactionInv, TypeOK
<1> QED BY <1>1 DEF Show, PageRecord

\* A call whose answer is about an order, or that failed, or that was abandoned, leaves
\* the other calls of its customer as they were.
LEMMA ReceiveKeepsClients ==
  ASSUME TransactionInv, ClientInv, NEW c \in Calls,
         ReceiveOrder(c) \/ ReceiveFailure(c) \/ LoseAnswer(c)
  PROVE  ClientInv'
<1>1. PICK u, k : u = calls[c].user /\ k = calls[c].key
  OBVIOUS
<1>2. /\ Awaited(c) \/ At(c, "answered")
      /\ TypeOK
  BY DEF ReceiveOrder, ReceiveFailure, LoseAnswer, TransactionInv
<1>3. /\ Awaited(c) /\ u \in Users /\ k \in Keys /\ CustomerInv(u)
      /\ stored[u] = k
      /\ \A d \in Calls \ {c} : ~(Awaited(d) /\ calls[d].user = u)
  BY <1>1, <1>2, AwaitedCall
<1>4. PICK r \in {IdleCall, Abandon(c)} :
        /\ calls' = [calls EXCEPT ![c] = r]
        /\ r = Abandon(c) \/ ReceiveOrder(c) \/ ReceiveFailure(c)
  BY DEF ReceiveOrder, ReceiveFailure, LoseAnswer
<1>5. /\ calls'[c] = r
      /\ \A d \in Calls \ {c} : calls'[d] = calls[d]
      /\ r.step = "idle" \/ (SameWork(c) /\ r.side = "gone" /\ r.step # "answered")
  <2>1. r \in CallRecord
    BY <1>2, IdleCallFields, AbandonFields
  <2>2. calls'[c] = r /\ \A d \in Calls \ {c} : calls'[d] = calls[d]
    BY <1>2, <1>4, <2>1, OneCall
  <2>3. Abandon(c).step # "answered"
    BY <1>2, IdleCallFields, CallFields DEF Abandon, At, CallRecord
  <2> QED BY <1>2, <2>2, <2>3, IdleCallFields, AbandonFields
<1>6. \A d \in Calls : AnsweredInv(d)'
  BY <1>5 DEF ClientInv, AnsweredInv, At
<1>7. \A d \in Calls : ~(Awaited(d)' /\ calls'[d].user = u)
  BY <1>3, <1>5 DEF Awaited, At
<1>8. \A d \in Calls : Running(d)' => Running(d) /\ calls'[d].user = calls[d].user
                                                /\ calls'[d].key = calls[d].key
  BY <1>5 DEF Running, SameWork
<1>9. orders' = orders /\ Placed' = Placed
  BY DEF ReceiveOrder, ReceiveFailure, LoseAnswer, Placed
<1>10. \A d \in Calls : /\ OrdersOf(u, calls[d].key)' = OrdersOf(u, calls'[d].key)
  BY <1>9 DEF OrdersOf
<1>11. /\ CustomerInv(u)'
       /\ answered \subseteq answered'
       /\ \A w \in Users \ {u} : pages'[w] = pages[w] /\ stored'[w] = stored[w]
  <2>1. CASE ReceiveOrder(c)
    <3>1. PICK o : o = calls[c].order
      OBVIOUS
    <3>2. o \in OrdersOf(u, k) /\ o \in Placed /\ orders[o].user = u /\ orders[o].key = k
      BY <1>1, <2>1, <3>1 DEF ReceiveOrder, TransactionInv, AnswerInv, OrdersOf
    <3>3. /\ pages'[u].status = "placing"
          /\ stored'[u] = NoKey
          /\ answered' = answered \union {o}
          /\ \A w \in Users \ {u} : pages'[w] = pages[w] /\ stored'[w] = stored[w]
      <4>1. /\ Show(c, "placing", calls[c].key)
            /\ stored' = [stored EXCEPT ![u] = NoKey]
            /\ answered' = answered \union {o}
        BY <1>1, <2>1, <3>1 DEF ReceiveOrder
      <4>2. /\ pages'[u].status = "placing"
            /\ \A w \in Users \ {u} : pages'[w] = pages[w]
        BY <1>1, <1>2, <4>1, ShowPages
      <4> QED BY <1>2, <1>3, <4>1, <4>2 DEF TypeOK
    <3>4. \A d \in Calls : Running(d)' /\ calls'[d].user = u =>
            OrdersOf(u, calls'[d].key) # {}
      BY <1>3, <1>8, <3>2 DEF CustomerInv
    <3>5. \A a \in Placed \ answered' : ~(orders[a].status = "pending" /\ orders[a].user = u)
      BY <1>3, <3>2, <3>3 DEF CustomerInv, TransactionInv, OneOrderPerKey
    <3> QED BY <1>7, <1>9, <1>10, <3>3, <3>4, <3>5 DEF CustomerInv
  <2>2. CASE ReceiveFailure(c) \/ LoseAnswer(c)
    <3>1. /\ Show(c, "open", calls[c].key)
          /\ UNCHANGED <<stored, answered>>
      BY <2>2 DEF ReceiveFailure, LoseAnswer
    <3>2. /\ pages'[u].key = k
          /\ \A w \in Users \ {u} : pages'[w] = pages[w]
      BY <1>1, <1>2, <3>1, ShowPages
    <3>3. \A d \in Calls : Running(d)' /\ calls'[d].user = u =>
            stored'[u] = calls'[d].key \/ OrdersOf(u, calls'[d].key) # {}
      BY <1>3, <1>8, <3>1 DEF CustomerInv
    <3>4. \A a \in Placed \ answered : orders[a].status = "pending" /\ orders[a].user = u =>
            stored'[u] = orders[a].key
      BY <1>3, <3>1 DEF CustomerInv
    <3>5. stored'[u] = k
      BY <1>3, <3>1
    <3> QED BY <1>7, <1>9, <1>10, <3>1, <3>2, <3>3, <3>4, <3>5 DEF CustomerInv
  <2> QED BY <2>1, <2>2
<1>12. \A d \in Calls : calls'[d] = calls[d] \/ calls'[d].user = u \/ calls'[d].step = "idle"
  BY <1>1, <1>5 DEF SameWork
<1> QED BY <1>3, <1>6, <1>9, <1>11, <1>12, ClientStep

\* The order behind a key that is given up is closed, and was answered for.
LEMMA ReceiveClosedKeepsClients ==
  ASSUME TransactionInv, ClientInv, NEW c \in Calls, ReceiveClosed(c)
  PROVE  ClientInv'
<1>1. PICK u, l, o : u = calls[c].user /\ l = calls[c].key /\ o = calls[c].order
  OBVIOUS
<1>2. /\ At(c, "answered") /\ TypeOK
      /\ calls[c].cart \in Carts /\ calls[c].side \in Sides
  BY CallFields DEF ReceiveClosed, TransactionInv, CallerInv, At
<1>3. /\ Awaited(c) /\ u \in Users /\ l \in Keys /\ CustomerInv(u)
      /\ stored[u] = l /\ pages[u].status = "creating" /\ calls[c].side = "page"
      /\ \A d \in Calls \ {c} : ~(Awaited(d) /\ calls[d].user = u)
  BY <1>1, <1>2, AwaitedCall
<1>4. /\ o \in OrdersOf(u, l) /\ o \in Placed /\ orders[o].user = u /\ orders[o].key = l
      /\ orders[o].status # "pending"
  BY <1>1 DEF ReceiveClosed, TransactionInv, AnswerInv, OrdersOf
<1> DEFINE r(k) == [SecondCall(u, k, calls[c].cart) EXCEPT !.side = calls[c].side]
<1>5. PICK k \in Keys \ drawn :
        /\ stored' = [stored EXCEPT ![u] = k]
        /\ calls' = [calls EXCEPT ![c] = r(k)]
  BY <1>1 DEF ReceiveClosed, SecondCall
<1>6. r(k) \in CallRecord /\ r(k).step = "take" /\ r(k).side = "page" /\ r(k).user = u
      /\ r(k).key = k
  <2> DEFINE n == SecondCall(u, k, calls[c].cart)
  <2>1. n \in CallRecord /\ n.step = "take" /\ n.user = u /\ n.key = k
    BY <1>2, <1>3, NewCallFields
  <2> QED BY <1>2, <1>3, <2>1, SidedCall
<1> HIDE DEF r
<1>7. /\ calls'[c] = r(k)
      /\ \A d \in Calls \ {c} : calls'[d] = calls[d]
  BY <1>2, <1>5, <1>6, OneCall
<1>8. /\ UNCHANGED <<orders, pages, answered>> /\ Placed' = Placed
      /\ stored'[u] = k
      /\ \A w \in Users \ {u} : stored'[w] = stored[w]
  BY <1>2, <1>3, <1>5 DEF ReceiveClosed, Placed, TypeOK
<1>9. \A d \in Calls : Awaited(d)' /\ calls'[d].user = u => d = c
  BY <1>3, <1>7 DEF Awaited, At
<1>10. ASSUME NEW d \in Calls, Running(d)', calls'[d].user = u
       PROVE  stored'[u] = calls'[d].key \/ OrdersOf(u, calls'[d].key) # {}
  <2>1. CASE d = c
    BY <1>6, <1>7, <1>8, <2>1
  <2>2. CASE d # c
    <3>1. Running(d) /\ calls'[d] = calls[d]
      BY <1>7, <1>10, <2>2 DEF Running
    <3> QED BY <1>3, <1>4, <1>10, <3>1 DEF CustomerInv
  <2> QED BY <2>1, <2>2
<1>11. \A a \in Placed \ answered : ~(orders[a].status = "pending" /\ orders[a].user = u)
  BY <1>3, <1>4 DEF CustomerInv, TransactionInv, OneOrderPerKey
<1>12. CustomerInv(u)'
  <2>1. \A d \in Calls : OrdersOf(u, calls[d].key)' = OrdersOf(u, calls'[d].key)
    BY <1>8 DEF OrdersOf
  <2> QED BY <1>3, <1>6, <1>7, <1>8, <1>9, <1>10, <1>11, <2>1 DEF CustomerInv
<1>13. \A d \in Calls : AnsweredInv(d)'
  BY <1>6, <1>7 DEF ClientInv, AnsweredInv, At
<1> QED BY <1>3, <1>6, <1>7, <1>8, <1>12, <1>13, ClientStep

\* A page that waits is not left, and a restart abandons every call.
LEMMA LeaveKeepsClients ==
  ASSUME TransactionInv, ClientInv, ~Impatient, NEW u \in Users, LeavePage(u) \/ Restart(u)
  PROVE  ClientInv'
<1>1. TypeOK /\ CustomerInv(u)
  BY DEF TransactionInv, ClientInv
<1>2. /\ UNCHANGED <<orders, stored, answered>> /\ Placed' = Placed
      /\ pages'[u].key = NoKey
      /\ \A w \in Users \ {u} : pages'[w] = pages[w]
  BY <1>1 DEF LeavePage, Restart, NewPage, Placed, TypeOK
<1>3. ASSUME NEW c \in Calls
      PROVE  calls'[c] = IF Awaited(c) /\ calls[c].user = u THEN Abandon(c) ELSE calls[c]
  BY <1>1, <1>3 DEF LeavePage, Restart, CustomerInv
<1>4. ASSUME NEW c \in Calls
      PROVE  /\ calls'[c].step = "idle" \/ SameWork(c)
             /\ AnsweredInv(c)'
             /\ ~(Awaited(c)' /\ calls'[c].user = u)
             /\ calls'[c] = calls[c] \/ calls'[c].user = u \/ calls'[c].step = "idle"
  <2>1. CASE Awaited(c) /\ calls[c].user = u
    <3>1. calls'[c] = Abandon(c)
      BY <1>3, <2>1
    <3>2. Abandon(c).step # "answered"
      BY <1>1, IdleCallFields, CallFields DEF Abandon, At, CallRecord
    <3>3. /\ calls'[c].step = "idle" \/ SameWork(c)
          /\ Abandon(c).step = "idle" \/ Abandon(c).side = "gone"
      BY <1>1, <3>1, AbandonFields
    <3> QED BY <2>1, <3>1, <3>2, <3>3 DEF AnsweredInv, Awaited, At, SameWork
  <2>2. CASE ~(Awaited(c) /\ calls[c].user = u)
    <3>1. calls'[c] = calls[c]
      BY <1>3, <2>2
    <3> QED BY <2>2, <3>1 DEF AnsweredInv, Awaited, At, SameWork, ClientInv
  <2> QED BY <2>1, <2>2
<1>5. \A c \in Calls : Running(c)' => Running(c) /\ calls'[c].user = calls[c].user
                                                /\ calls'[c].key = calls[c].key
  BY <1>4 DEF Running, SameWork
<1>6. CustomerInv(u)'
  <2>1. \A c \in Calls : OrdersOf(u, calls[c].key)' = OrdersOf(u, calls'[c].key)
    BY <1>2 DEF OrdersOf
  <2>2. \A c \in Calls : Running(c)' /\ calls'[c].user = u =>
          stored'[u] = calls'[c].key \/ OrdersOf(u, calls'[c].key) # {}
    BY <1>1, <1>2, <1>5 DEF CustomerInv
  <2>3. \A o \in Placed \ answered : orders[o].status = "pending" /\ orders[o].user = u =>
          stored'[u] = orders[o].key
    BY <1>1, <1>2 DEF CustomerInv
  <2> QED BY <1>2, <1>4, <2>1, <2>2, <2>3 DEF CustomerInv
<1> QED BY <1>2, <1>4, <1>6, ClientStep

-----------------------------------------------------------------------------
LEMMA ClientInit == Init => ClientInv
<1> SUFFICES ASSUME Init PROVE ClientInv
  OBVIOUS
<1>1. \A c \in Calls : calls[c].step = "idle"
  BY DEF Init, IdleCall
<1>2. Placed = {}
  BY NoRowFields DEF Init, AInit, Placed
<1>3. \A u \in Users : pages[u].key = NoKey
  BY DEF Init, NewPage
<1> QED BY <1>1, <1>2, <1>3 DEF ClientInv, CustomerInv, AnsweredInv, Awaited, Running, At

LEMMA ClientNext == ~Impatient /\ TransactionInv /\ ClientInv /\ [Next]_vars => ClientInv'
<1> SUFFICES ASSUME ~Impatient, TransactionInv, ClientInv, [Next]_vars PROVE ClientInv'
  OBVIOUS
<1>1. ASSUME NEW u \in Users, LeavePage(u) \/ Restart(u) \/ \E c \in Calls : Submit(u, c)
      PROVE  ClientInv'
  BY <1>1, SubmitKeepsClients, LeaveKeepsClients
<1>2. ASSUME NEW c \in Calls,
             ReceiveOrder(c) \/ ReceiveClosed(c) \/ ReceiveFailure(c) \/ LoseAnswer(c)
      PROVE  ClientInv'
  BY <1>2, ReceiveKeepsClients, ReceiveClosedKeepsClients
<1>3. ASSUME NEW c \in Calls, Statement(c) \/ AbortCall(c) PROVE ClientInv'
  BY <1>3, StatementKeepsClients
<1>4. CASE \/ \E o \in Orders : Expire(o) \/ Pay(o)
           \/ Restoration \/ AbortExpiry \/ NextMinute \/ UNCHANGED vars
  BY <1>4, BackendKeepsClients
<1> QED BY <1>1, <1>2, <1>3, <1>4 DEF Next

\* The inductive invariant of the client: of a customer's calls one is awaited, and what may
\* still place an order does so under the key on the device.
LEMMA ClientInvariant ==
  ASSUME ~Impatient
  PROVE  Spec => []ClientInv
<1>1. TransactionInv /\ ClientInv /\ [Next]_vars => ClientInv'
  BY ClientNext
<1> QED BY <1>1, ClientInit, TransactionInvariant, PTL DEF Spec

\* As long as nobody leaves the page while its call is running, an order the app never heard
\* of is found again by the key on the device.
THEOREM UnheardAlwaysKeepKey ==
  ASSUME ~Impatient
  PROVE  Spec => []UnheardOrdersKeepTheirKey
<1>1. TransactionInv /\ ClientInv => UnheardOrdersKeepTheirKey
  BY OrderFields DEF TransactionInv, ClientInv, CustomerInv, UnheardOrdersKeepTheirKey
<1> QED BY <1>1, TransactionInvariant, ClientInvariant, PTL

\* As long as nobody leaves the page while its call is running, the key a failed attempt
\* returns to the page is the stored one.
THEOREM FailedKeysAlwaysStored ==
  ASSUME ~Impatient
  PROVE  Spec => []FailedKeysStayStored
<1>1. ClientInv => FailedKeysStayStored
  BY DEF ClientInv, CustomerInv, FailedKeysStayStored
<1> QED BY <1>1, ClientInvariant, PTL
=============================================================================
