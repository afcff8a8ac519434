-------------------------- MODULE PaymobInitiateProofs --------------------------
(***************************************************************************)
(* What TLAPS proves about PaymobInitiate, for any number of orders, rows, *)
(* provider orders and calls, which overlap, time out, lose answers and    *)
(* die at any of their steps.                                              *)
(***************************************************************************)
EXTENDS PaymobInitiate, OrderWindowProofs

-----------------------------------------------------------------------------
(* The database: rows whose order the provider may hold.                       *)

Sent(p) == payments[p].phase \in {"provider_submitted", "provider_persisted"}

\* A row that was sent settles with its order, and is the only one of its order.
SentInv ==
    /\ \A p \in Payments : payments[p].status = "none" => payments[p].phase = "none"
    /\ \A p \in Payments :
         payments[p].provider # NoProvider <=> payments[p].phase = "provider_persisted"
    /\ \A p \in Payments : Sent(p) /\ payments[p].status # "pending" =>
         /\ orders[payments[p].order].status \notin {"none", "pending"}
         /\ PendingOf(payments[p].order) = {}
    /\ \A p, q \in Payments :
         Sent(p) /\ Sent(q) /\ payments[p].order = payments[q].order => p = q
    /\ \A o \in Orders : orders[o].status \in Paid => PendingOf(o) = {}
    /\ \A p \in Payments :
         Sent(p) /\ orders[payments[p].order].status \in Paid => payments[p].status = "success"

\* what a row says of its initiation stays
Untouched(q) ==
    /\ payments'[q].phase = payments[q].phase
    /\ payments'[q].provider = payments[q].provider
    /\ payments'[q].token = payments[q].token
    /\ payments'[q].order = payments[q].order
    /\ payments'[q].status = "none" => payments[q].status = "none"

\* a row that was sent leaves pending with its order only
SettlesWithOrder(q) ==
    Sent(q) /\ payments[q].status = "pending" =>
      \/ payments'[q].status = "pending"
      \/ orders'[payments[q].order].status \notin {"none", "pending"}

Inserted(q) ==
    /\ payments[q].status = "none"
    /\ payments'[q].status = "pending"
    /\ payments'[q].phase = "none"
    /\ payments'[q].provider = NoProvider
    /\ payments'[q].token = 0

Undisturbed ==
    /\ tokens' = tokens
    /\ \A q \in Payments : (Untouched(q) /\ SettlesWithOrder(q)) \/ Inserted(q)

LEMMA SameRowsUndisturbed ==
  ASSUME payments' = payments, tokens' = tokens
  PROVE  Undisturbed
  BY DEF Undisturbed, Untouched, SettlesWithOrder

\* Rows that get another status: those that were sent, only with their order.
LEMMA MarkedUndisturbed ==
  ASSUME TypeOK, NEW ps, NEW s \in PaymentStatuses \ {"none"},
         payments' = MarkAll(ps, s), tokens' = tokens,
         \A q \in ps : Sent(q) => orders'[payments[q].order].status \notin {"none", "pending"}
  PROVE  Undisturbed
<1> SUFFICES ASSUME NEW q \in Payments PROVE Untouched(q) /\ SettlesWithOrder(q)
  BY DEF Undisturbed
<1>1. payments[q] \in PaymentRecord
  BY DEF TypeOK
<1>2. payments'[q] = IF q \in ps THEN [payments[q] EXCEPT !.status = s] ELSE payments[q]
  BY DEF MarkAll
<1>3. Untouched(q)
  BY <1>1, <1>2 DEF Untouched, PaymentRecord
<1> QED BY <1>1, <1>2, <1>3 DEF SettlesWithOrder

LEMMA SettledUndisturbed ==
  ASSUME TypeOK, NEW p \in Payments, NEW s \in PaymentStatuses \ {"none"},
         payments' = [payments EXCEPT ![p].status = s], tokens' = tokens,
         Sent(p) => orders'[payments[p].order].status \notin {"none", "pending"}
  PROVE  Undisturbed
<1>1. payments' = MarkAll({p}, s)
  BY DEF MarkAll, TypeOK
<1> QED BY <1>1, MarkedUndisturbed

LEMMA CreateOrderUndisturbed ==
  ASSUME PaymentInv, NEW o \in Orders, NEW m \in Methods, CreateOrder(o, m)
  PROVE  Undisturbed
<1>1. CASE m # "cod"
  BY <1>1, SameRowsUndisturbed DEF CreateOrder
<1>2. CASE m = "cod"
  <2>1. PICK p \in FreeRows : payments' = [payments EXCEPT ![p] = NewPayment(o, "cod", "none", 0)]
    BY <1>2 DEF CreateOrder
  <2>2. /\ payments'[p] = NewPayment(o, "cod", "none", 0)
        /\ \A q \in Payments \ {p} : payments'[q] = payments[q]
        /\ payments[p].status = "none"
    BY <2>1 DEF FreeRows, PaymentInv, TypeOK
  <2>3. Inserted(p)
    BY <2>2 DEF Inserted, NewPayment
  <2>4. \A q \in Payments \ {p} : Untouched(q) /\ SettlesWithOrder(q)
    BY <2>2 DEF Untouched, SettlesWithOrder
  <2> QED BY <2>3, <2>4 DEF Undisturbed, CreateOrder
<1> QED BY <1>1, <1>2

\* A change of method gives up no row that was sent.
LEMMA SetMethodUndisturbed ==
  ASSUME PaymentInv, NEW o \in Orders, NEW m \in Methods, SetMethod(o, m)
  PROVE  Undisturbed
<1> DEFINE kept == MarkAll(Superseded(o, m), "cancelled")
<1>1. \A q \in Superseded(o, m) : q \in Payments /\ ~Sent(q)
  BY DEF Superseded, PendingOf, InFlight, Sent
<1>2. kept \in [Payments -> PaymentRecord]
  BY MarkAllType DEF PaymentInv, PaymentStatuses
<1>3. CASE payments' = kept
  BY <1>1, <1>3, MarkedUndisturbed DEF PaymentInv, PaymentStatuses, SetMethod
<1>4. ASSUME NEW p \in FreeRows,
             payments' = [kept EXCEPT ![p] = NewPayment(o, m, "none", 0)]
      PROVE  Undisturbed
  <2>1. p \in Payments /\ payments[p].status = "none"
    BY DEF FreeRows
  <2>2. /\ payments'[p] = NewPayment(o, m, "none", 0)
        /\ \A q \in Payments \ {p} : payments'[q] = kept[q]
    BY <1>2, <1>4, <2>1
  <2>3. Inserted(p)
    BY <2>1, <2>2 DEF Inserted, NewPayment
  <2>4. ASSUME NEW q \in Payments \ {p} PROVE Untouched(q) /\ SettlesWithOrder(q)
    <3>1. payments[q] \in PaymentRecord
      BY DEF PaymentInv, TypeOK
    <3>2. payments'[q] = IF q \in Superseded(o, m)
                         THEN [payments[q] EXCEPT !.status = "cancelled"] ELSE payments[q]
      BY <2>2 DEF MarkAll
    <3>3. Untouched(q)
      BY <3>1, <3>2 DEF Untouched, PaymentRecord
    <3>4. SettlesWithOrder(q)
      BY <1>1, <3>2 DEF SettlesWithOrder
    <3> QED BY <3>3, <3>4
  <2> QED BY <2>3, <2>4 DEF Undisturbed, SetMethod
<1> QED BY <1>3, <1>4 DEF SetMethod

\* A result of the provider, a confirmation and an expiry settle rows with their order.
LEMMA SettlingUndisturbed ==
  ASSUME PaymentInv,
         \/ \E x \in Providers : CallbackSuccess(x) \/ CallbackFailure(x)
         \/ \E o \in Orders : ConfirmCod(o) \/ ExpireOrder(o)
  PROVE  Undisturbed
<1>1. ASSUME NEW o \in Orders, PayOrder(o), orders[o].status = "pending"
      PROVE  orders'[o].status = "paid"
  BY <1>1 DEF PayOrder, PaymentInv, TypeOK, OrderRecord
<1>2. ASSUME NEW o \in Orders, CancelOrder(o) PROVE orders'[o].status = "cancelled"
  BY <1>2 DEF CancelOrder, PaymentInv, TypeOK, OrderRecord
<1>3. ASSUME NEW x \in Providers, CallbackSuccess(x) PROVE Undisturbed
  <2>1. PICK p \in Payments :
          /\ AcceptsCallback(p)
          /\ payments' = [payments EXCEPT ![p].status = "success"]
          /\ PayOrder(payments[p].order)
          /\ tokens' = tokens
    BY <1>3 DEF CallbackSuccess
  <2>2. payments[p].order \in Orders /\ orders[payments[p].order].status = "pending"
    BY <2>1, RowFields DEF PaymentInv, AcceptsCallback, Live
  <2> QED BY <1>1, <2>1, <2>2, SettledUndisturbed DEF PaymentInv, PaymentStatuses
<1>4. ASSUME NEW x \in Providers, CallbackFailure(x) PROVE Undisturbed
  <2>1. PICK p \in Payments :
          /\ payments' = [payments EXCEPT ![p].status = "failed"]
          /\ CancelOrder(payments[p].order)
          /\ tokens' = tokens
    BY <1>4 DEF CallbackFailure
  <2>2. payments[p].order \in Orders
    BY RowFields DEF PaymentInv
  <2> QED BY <1>2, <2>1, <2>2, SettledUndisturbed DEF PaymentInv, PaymentStatuses
<1>5. ASSUME NEW o \in Orders, ConfirmCod(o) PROVE Undisturbed
  <2>1. PICK p \in Payments :
          /\ payments[p].order = o
          /\ payments' = [payments EXCEPT ![p].status = "success"]
    BY <1>5 DEF ConfirmCod
  <2>2. PayOrder(o) /\ orders[o].status = "pending" /\ tokens' = tokens
    BY <1>5 DEF ConfirmCod
  <2> QED BY <1>1, <2>1, <2>2, SettledUndisturbed DEF PaymentInv, PaymentStatuses
<1>6. ASSUME NEW o \in Orders, ExpireOrder(o) PROVE Undisturbed
  <2>1. CancelOrder(o) /\ payments' = MarkAll(PendingOf(o), "expired") /\ tokens' = tokens
    BY <1>6 DEF ExpireOrder
  <2> QED BY <1>2, <2>1, MarkedUndisturbed DEF PaymentInv, PaymentStatuses, PendingOf
<1> QED BY <1>3, <1>4, <1>5, <1>6

\* What a settling or inserting step leaves of the rows that wait for an order.
LEMMA PendingShrinks ==
  ASSUME PaymentInv, [Next]_vars, NEW o \in Orders,
         orders'[o].status \notin {"none", "pending"}
  PROVE  /\ PendingOf(o)' \subseteq PendingOf(o)
         /\ orders'[o].status \in Paid =>
              \/ orders[o].status \in Paid
              \/ \E q \in PendingOf(o) : payments'[q].status = "success"
<1>1. CASE Settling
  <2>1. PendingOf(o)' \subseteq PendingOf(o)
    BY <1>1, RowFields DEF Settling, PendingOf, PaymentInv
  <2> QED BY <1>1, <2>1 DEF Settling
<1>2. ASSUME NEW a \in Orders, NEW p \in Payments, NEW m \in Methods, Inserting(a, p, m)
      PROVE  PendingOf(o)' = PendingOf(o) /\ orders'[o] = orders[o]
  <2>1. o # a
    BY <1>2 DEF Inserting
  <2>2. orders'[o] = orders[o]
    BY <1>2, <2>1 DEF Inserting
  <2>3. PendingOf(o)' = PendingOf(o)
    BY <1>2, <2>1 DEF Inserting, PendingOf
  <2> QED BY <2>2, <2>3
<1> QED BY <1>1, <1>2, StepKinds DEF Inserts

\* No order goes back to where it may still be paid.
LEMMA SettledOrdersStay ==
  ASSUME PaymentInv, [Next]_vars, NEW o \in Orders,
         orders[o].status \notin {"none", "pending"}
  PROVE  orders'[o].status \notin {"none", "pending"}
  BY StepKinds DEF Inserts, Settling, Inserting

LEMMA SettledRowsStay ==
  ASSUME PaymentInv, [Next]_vars, NEW p \in Payments,
         payments[p].status \notin {"none", "pending"}
  PROVE  payments'[p] = payments[p]
<1>1. CASE Settling
  BY <1>1 DEF Settling
<1>2. CASE Inserts
  BY <1>2 DEF Inserts, Inserting, PendingOf
<1> QED BY <1>1, <1>2, StepKinds

\* What a step has to keep of SentInv beyond the rows that were sent before.
LEMMA SentRowsSettle ==
  ASSUME PaymentInv, SentInv, [Next]_vars, NEW p \in Payments, Sent(p),
         SettlesWithOrder(p), payments'[p].order = payments[p].order
  PROVE  /\ payments'[p].status # "pending" =>
              /\ orders'[payments[p].order].status \notin {"none", "pending"}
              /\ PendingOf(payments[p].order)' = {}
         /\ orders'[payments[p].order].status \in Paid => payments'[p].status = "success"
<1> DEFINE o == payments[p].order
<1>1. o \in Orders /\ payments[p].status # "none"
  BY RowFields DEF PaymentInv, SentInv, Sent
<1>2. CASE payments[p].status = "pending"
  <2>1. PendingOf(o) = {p}
    BY <1>1, <1>2 DEF PaymentInv, OnePendingPayment, PendingOf
  <2>2. ASSUME payments'[p].status # "pending"
        PROVE  orders'[o].status \notin {"none", "pending"} /\ PendingOf(o)' = {}
    <3>1. orders'[o].status \notin {"none", "pending"}
      BY <1>2, <2>2 DEF SettlesWithOrder
    <3>2. PendingOf(o)' \subseteq {p}
      BY <1>1, <2>1, <3>1, PendingShrinks
    <3> QED BY <2>2, <3>1, <3>2 DEF PendingOf
  <2>3. ASSUME orders'[o].status \in Paid PROVE payments'[p].status = "success"
    <3>1. orders[o].status \notin Paid
      BY <1>1, <2>1 DEF SentInv
    <3> QED BY <1>1, <2>1, <2>3, <3>1, PendingShrinks DEF Paid
  <2> QED BY <2>2, <2>3
<1>3. CASE payments[p].status # "pending"
  <2>1. orders[o].status \notin {"none", "pending"} /\ PendingOf(o) = {}
    BY <1>3 DEF SentInv
  <2>2. orders'[o].status \notin {"none", "pending"}
    BY <1>1, <2>1, SettledOrdersStay
  <2>3. PendingOf(o)' = {}
    BY <1>1, <2>1, <2>2, PendingShrinks
  <2>4. payments'[p] = payments[p]
    BY <1>1, <1>3, SettledRowsStay
  <2>5. orders'[o].status \in Paid => orders[o].status \in Paid
    BY <1>1, <2>1, <2>2, PendingShrinks
  <2>6. orders[o].status \in Paid => payments[p].status = "success"
    BY DEF SentInv
  <2> QED BY <2>2, <2>3, <2>4, <2>5, <2>6
<1> QED BY <1>2, <1>3

LEMMA PaidHaveNoPending ==
  ASSUME PaymentInv, SentInv, [Next]_vars, NEW o \in Orders, orders'[o].status \in Paid
  PROVE  PendingOf(o)' = {}
<1>1. PendingOf(o)' \subseteq PendingOf(o)
  BY PendingShrinks DEF Paid
<1>2. CASE orders[o].status \in Paid
  BY <1>1, <1>2 DEF SentInv
<1>3. ASSUME NEW q \in PendingOf(o), payments'[q].status = "success" PROVE PendingOf(o)' = {}
  <2>1. \A r \in PendingOf(o) : r = q
    BY DEF PaymentInv, OnePendingPayment
  <2>2. q \notin PendingOf(o)'
    BY <1>3 DEF PendingOf
  <2> QED BY <1>1, <2>1, <2>2
<1> QED BY <1>2, <1>3, PendingShrinks DEF Paid

LEMMA SentInvUndisturbed ==
  ASSUME PaymentInv, SentInv, [Next]_vars, Undisturbed
  PROVE  SentInv'
<1>1. ASSUME NEW p \in Payments
      PROVE  /\ payments'[p].status = "none" => payments'[p].phase = "none"
             /\ payments'[p].provider # NoProvider <=> payments'[p].phase = "provider_persisted"
  BY DEF Undisturbed, Untouched, Inserted, SentInv
<1>2. \A p \in Payments : Sent(p)' =>
        Sent(p) /\ SettlesWithOrder(p) /\ payments'[p].order = payments[p].order
  BY DEF Undisturbed, Untouched, Inserted, Sent
<1>3. ASSUME NEW p \in Payments, Sent(p)'
      PROVE  /\ payments'[p].status # "pending" =>
                  /\ orders'[payments'[p].order].status \notin {"none", "pending"}
                  /\ PendingOf(payments[p].order)' = {}
             /\ orders'[payments'[p].order].status \in Paid => payments'[p].status = "success"
  <2>1. Sent(p) /\ SettlesWithOrder(p) /\ payments'[p].order = payments[p].order
    BY <1>2, <1>3
  <2>2. /\ payments'[p].status # "pending" =>
             /\ orders'[payments[p].order].status \notin {"none", "pending"}
             /\ PendingOf(payments[p].order)' = {}
        /\ orders'[payments[p].order].status \in Paid => payments'[p].status = "success"
    BY <2>1, SentRowsSettle
  <2> QED BY <2>1, <2>2
<1>4. ASSUME NEW p \in Payments, NEW q \in Payments, Sent(p)', Sent(q)',
             payments'[p].order = payments'[q].order
      PROVE  p = q
  <2>1. /\ Sent(p) /\ payments'[p].order = payments[p].order
        /\ Sent(q) /\ payments'[q].order = payments[q].order
    BY <1>2, <1>4
  <2> QED BY <1>4, <2>1 DEF SentInv
<1>5. \A o \in Orders : orders'[o].status \in Paid => PendingOf(o)' = {}
  BY PaidHaveNoPending
<1> QED BY <1>1, <1>3, <1>4, <1>5 DEF SentInv

-----------------------------------------------------------------------------
(* The calls: what each knows of the row it claimed, and what the provider has. *)

Holding == {"authenticate", "submit", "register", "persist", "release"}

\* A call works on a row of its order, under a token of its own.  While it is about to
\* register, the row says so under that token.
CallInv(r) ==
    LET call == requests[r]
        row == payments[requests[r].payment]
    IN /\ call.step # "idle" => call.order \in Orders
       /\ call.step \in Holding =>
            /\ call.payment \in Payments
            /\ call.token \in 1..tokens
            /\ row.status # "none"
            /\ row.order = call.order
       /\ call.step = "register" =>
            row.phase = "provider_submitted" /\ row.token = call.token
       /\ call.step = "persist" =>
            [provider |-> call.provider, order |-> call.order] \in registered
       /\ call.step = "key" =>
            call.provider # NoProvider /\ \E p \in Payments : payments[p].provider = call.provider

TokensDistinct ==
    \A r, s \in Requests :
      requests[r].step \in Holding /\ requests[s].step \in Holding
        /\ requests[r].token = requests[s].token => r = s

Registering(p) == \E r \in Requests : At(r, "register") /\ requests[r].payment = p

\* The provider has an order only for a row that was sent and that nobody is about to
\* register, and a row names an order of the provider only when that was made for it.
RegisteredInv ==
    /\ \A made \in registered : \E p \in Payments :
         Sent(p) /\ payments[p].order = made.order /\ ~Registering(p)
    /\ \A a, b \in registered : a.provider = b.provider => a = b
    /\ \A p \in Payments : payments[p].provider # NoProvider =>
         [provider |-> payments[p].provider, order |-> payments[p].order] \in registered

ResultsOfKeys == \A x \in Providers, success \in BOOLEAN : <<x, success>> \in results => x \in keys

CallsInv ==
    /\ PaymentInv
    /\ SentInv
    /\ ProcessTypeOK
    /\ \A r \in Requests : CallInv(r)
    /\ TokensDistinct
    /\ RegisteredInv
    /\ OneProviderOrder
    /\ KeysArePersisted
    /\ ResultsOfKeys

-----------------------------------------------------------------------------
(* What the steps of a claim keep of the rows that were sent. *)

\* A step that rewrites one row, which waits or is taken into use for an order that waits.
LEMMA OneRowSent ==
  ASSUME PaymentInv, SentInv, NEW p \in Payments, NEW o \in Orders, orders' = orders,
         \A q \in Payments \ {p} : payments'[q] = payments[q],
         payments'[p].status = "pending", payments'[p].order = o,
         \/ payments[p].status = "none" /\ orders[o].status = "pending" /\ ~Sent(p)'
         \/ payments[p].status = "pending" /\ payments[p].order = o,
         payments'[p].provider # NoProvider <=> payments'[p].phase = "provider_persisted"
  PROVE  SentInv'
<1>1. \A a \in Orders : PendingOf(a)' \subseteq PendingOf(a) \union {p}
  BY DEF PendingOf
<1>2. PendingOf(o) # {} \/ orders[o].status = "pending"
  BY DEF PendingOf
<1>3. \A a \in Orders : p \in PendingOf(a)' => a = o
  BY DEF PendingOf
<1>4. orders[o].status \notin Paid
  BY <1>2 DEF SentInv, Paid
<1>5. \A a \in Orders : orders'[a].status \in Paid => PendingOf(a)' = {}
  BY <1>1, <1>3, <1>4 DEF SentInv
<1>6. ASSUME NEW q \in Payments, Sent(q)', payments'[q].status # "pending"
      PROVE  /\ orders'[payments'[q].order].status \notin {"none", "pending"}
             /\ PendingOf(payments[q].order)' = {}
  <2>1. q # p /\ payments'[q] = payments[q] /\ payments[q].order \in Orders
    BY <1>6, RowFields DEF PaymentInv
  <2>2. /\ orders[payments[q].order].status \notin {"none", "pending"}
        /\ PendingOf(payments[q].order) = {}
    BY <1>6, <2>1 DEF SentInv, Sent
  <2>3. payments[q].order # o
    BY <1>2, <2>2
  <2>4. \A r \in Payments : payments'[r].order = payments[q].order => payments'[r].status # "pending"
    BY <2>2, <2>3 DEF PendingOf
  <2> QED BY <2>1, <2>2, <2>4 DEF PendingOf
<1>7. ASSUME NEW q \in Payments \ {p}, Sent(q)', Sent(p)', payments'[q].order = o
      PROVE  FALSE
  <2>1. Sent(q) /\ payments[q].order = o /\ p \in PendingOf(o)
    BY <1>7 DEF Sent, PendingOf
  <2>2. q \in PendingOf(o)
    BY <2>1 DEF SentInv, PendingOf
  <2> QED BY <2>1, <2>2 DEF PaymentInv, OnePendingPayment
<1>8. \A q, r \in Payments :
        Sent(q)' /\ Sent(r)' /\ payments'[q].order = payments'[r].order => q = r
  BY <1>7 DEF SentInv, Sent
<1>9. \A q \in Payments :
        Sent(q)' /\ orders'[payments'[q].order].status \in Paid => payments'[q].status = "success"
  BY <1>4 DEF SentInv, Sent
<1>10. \A q \in Payments :
         /\ payments'[q].status = "none" => payments'[q].phase = "none"
         /\ payments'[q].provider # NoProvider <=> payments'[q].phase = "provider_persisted"
  BY DEF SentInv
<1> QED BY <1>5, <1>6, <1>8, <1>9, <1>10 DEF SentInv

\* A row in use stays in use for its order, a row that was sent stays sent, and a row
\* keeps the order the provider has for it.
RowLasts(q) ==
    /\ payments[q].status # "none" =>
         payments'[q].status # "none" /\ payments'[q].order = payments[q].order
    /\ Sent(q) => Sent(q)'
    /\ payments[q].provider # NoProvider => payments'[q].provider = payments[q].provider

SubmissionLasts(q) ==
    payments[q].phase = "provider_submitted" =>
      payments'[q].phase = "provider_submitted" /\ payments'[q].token = payments[q].token

\* no row learns of another order of the provider
NothingPersisted ==
    \A q \in Payments : payments'[q].provider # NoProvider =>
      payments'[q].provider = payments[q].provider /\ payments'[q].order = payments[q].order

TablesLast ==
    /\ tokens' \in Nat /\ tokens <= tokens'
    /\ \A q \in Payments : RowLasts(q)

LEMMA UndisturbedLasts ==
  ASSUME PaymentInv, SentInv, Undisturbed
  PROVE  TablesLast /\ NothingPersisted /\ \A q \in Payments : SubmissionLasts(q)
<1>1. tokens \in Nat
  BY DEF PaymentInv, TypeOK
<1>2. ASSUME NEW q \in Payments
      PROVE  /\ RowLasts(q) /\ SubmissionLasts(q)
             /\ payments'[q].provider # NoProvider =>
                  payments'[q].provider = payments[q].provider /\ payments'[q].order = payments[q].order
  BY DEF Undisturbed, Untouched, Inserted, SentInv, RowLasts, SubmissionLasts, Sent
<1> QED BY <1>1, <1>2 DEF TablesLast, NothingPersisted, Undisturbed

LEMMA GetOrClaimSent ==
  ASSUME PaymentInv, SentInv, NEW o \in Orders, NEW p \in Payments, GetOrClaim(o, p)
  PROVE  /\ SentInv' /\ TablesLast /\ NothingPersisted
         /\ \A q \in Payments : SubmissionLasts(q)
         /\ payments'[p].order = o /\ payments'[p].status # "none"
         /\ payments'[p].token = tokens + 1 /\ tokens' = tokens + 1
<1>1. orders[o].status = "pending" /\ orders' = orders
  BY DEF GetOrClaim, ClaimCode
<1>2. payments \in [Payments -> PaymentRecord] /\ tokens \in Nat
  BY DEF PaymentInv, TypeOK
<1>3. CASE p \in FreeRows /\
           payments' = [payments EXCEPT ![p] = NewPayment(o, "card", "pre_provider", tokens + 1)]
  <2>1. payments[p].status = "none" /\ ~Sent(p) /\ payments[p].provider = NoProvider
    BY <1>3 DEF FreeRows, SentInv, Sent
  <2>2. /\ payments'[p] = NewPayment(o, "card", "pre_provider", tokens + 1)
        /\ \A q \in Payments \ {p} : payments'[q] = payments[q]
    BY <1>2, <1>3
  <2>3. /\ payments'[p].status = "pending" /\ payments'[p].order = o
        /\ payments'[p].phase = "pre_provider" /\ payments'[p].provider = NoProvider
        /\ payments'[p].token = tokens + 1
    BY <2>2 DEF NewPayment
  <2>4. SentInv'
    BY <1>1, <2>1, <2>2, <2>3, OneRowSent DEF Sent
  <2>5. \A q \in Payments : RowLasts(q) /\ SubmissionLasts(q)
    BY <2>1, <2>2, <2>3 DEF RowLasts, SubmissionLasts, Sent
  <2>6. NothingPersisted
    BY <2>2, <2>3 DEF NothingPersisted
  <2> QED BY <1>2, <2>3, <2>4, <2>5, <2>6 DEF TablesLast, GetOrClaim
<1>4. CASE p \in PendingCards(o) /\
           payments' = [payments EXCEPT ![p].phase = "pre_provider", ![p].claimed = now,
                                        ![p].token = tokens + 1]
  <2>1. /\ payments[p].status = "pending" /\ payments[p].order = o
        /\ payments[p].provider = NoProvider /\ ~Sent(p)
    BY <1>4 DEF PendingCards, PendingOf, GetOrClaim, ClaimCode, ClaimHeld, SentInv, Sent
  <2>2. /\ payments'[p] = [payments[p] EXCEPT !.phase = "pre_provider", !.claimed = now,
                                              !.token = tokens + 1]
        /\ \A q \in Payments \ {p} : payments'[q] = payments[q]
    BY <1>2, <1>4
  <2>3. /\ payments'[p].status = "pending" /\ payments'[p].order = o
        /\ payments'[p].phase = "pre_provider" /\ payments'[p].provider = NoProvider
        /\ payments'[p].token = tokens + 1
    BY <1>2, <2>1, <2>2 DEF PaymentRecord
  <2>4. SentInv'
    BY <1>1, <2>1, <2>2, <2>3, OneRowSent DEF Sent
  <2>5. \A q \in Payments : RowLasts(q) /\ SubmissionLasts(q)
    BY <2>1, <2>2, <2>3 DEF RowLasts, SubmissionLasts, Sent
  <2>6. NothingPersisted
    BY <2>2, <2>3 DEF NothingPersisted
  <2> QED BY <1>2, <2>3, <2>4, <2>5, <2>6 DEF TablesLast, GetOrClaim
<1> QED BY <1>3, <1>4 DEF GetOrClaim

\* A submission, a release and the persisting of the provider's order; each rewrites the
\* row whose claim it holds.
LEMMA HeldClaimSent ==
  ASSUME PaymentInv, SentInv, NEW p \in Payments, NEW token,
         \/ MarkSubmitted(p, token)
         \/ ReleaseClaim(p, token)
         \/ \E x \in Providers : PersistProviderOrder(p, token, x)
  PROVE  SentInv' /\ TablesLast /\ \A q \in Payments \ {p} : SubmissionLasts(q)
<1>1. payments \in [Payments -> PaymentRecord] /\ payments[p] \in PaymentRecord /\ tokens \in Nat
  BY DEF PaymentInv, TypeOK
<1>2. /\ payments[p].status = "pending" /\ payments[p].provider = NoProvider
      /\ \A q \in Payments \ {p} : payments'[q] = payments[q]
      /\ orders' = orders /\ tokens' = tokens
  BY <1>1 DEF MarkSubmitted, ReleaseClaim, PersistProviderOrder, HoldsClaim, MayPersist
<1>3. /\ payments'[p].status = payments[p].status /\ payments'[p].order = payments[p].order
      /\ payments'[p].provider # NoProvider <=> payments'[p].phase = "provider_persisted"
      /\ Sent(p) => Sent(p)'
  <2>1. CASE MarkSubmitted(p, token)
    BY <1>1, <1>2, <2>1 DEF MarkSubmitted, PaymentRecord, Sent
  <2>2. CASE ReleaseClaim(p, token)
    BY <1>1, <1>2, <2>2 DEF ReleaseClaim, HoldsClaim, PaymentRecord, Sent
  <2>3. ASSUME NEW x \in Providers, PersistProviderOrder(p, token, x)
        PROVE  /\ payments'[p].status = payments[p].status /\ payments'[p].order = payments[p].order
               /\ payments'[p].provider = x /\ payments'[p].phase = "provider_persisted"
    BY <1>1, <2>3 DEF PersistProviderOrder, PaymentRecord
  <2> QED BY <2>1, <2>2, <2>3, NullAssumption DEF Sent
<1>4. SentInv'
  BY <1>1, <1>2, <1>3, OneRowSent DEF PaymentRecord
<1>5. \A q \in Payments : RowLasts(q)
  BY <1>2, <1>3 DEF RowLasts, Sent
<1>6. \A q \in Payments \ {p} : SubmissionLasts(q)
  BY <1>2 DEF SubmissionLasts
<1> QED BY <1>1, <1>2, <1>4, <1>5, <1>6 DEF TablesLast

\* A submission or a release persists nothing and was not sent before.
LEMMA ClaimNotSent ==
  ASSUME PaymentInv, SentInv, NEW p \in Payments, NEW token,
         MarkSubmitted(p, token) \/ ReleaseClaim(p, token)
  PROVE  NothingPersisted /\ ~Sent(p)
<1>1. payments \in [Payments -> PaymentRecord] /\ payments[p] \in PaymentRecord
  BY DEF PaymentInv, TypeOK
<1>2. \A q \in Payments : /\ payments'[q].provider = payments[q].provider
                          /\ payments'[q].order = payments[q].order
  BY <1>1 DEF MarkSubmitted, ReleaseClaim, PaymentRecord
<1> QED BY <1>2 DEF NothingPersisted, MarkSubmitted, ReleaseClaim, HoldsClaim, Sent

-----------------------------------------------------------------------------
(* The moves of a call. *)

\* One call moves; a token it works under is its own or a fresh one.
Moves(r) ==
    /\ requests' \in [Requests -> RequestRecord]
    /\ \A s \in Requests \ {r} : requests'[s] = requests[s]
    /\ requests'[r].step \in Holding =>
         \/ requests[r].step \in Holding /\ requests'[r].token = requests[r].token
         \/ requests'[r].token = tokens + 1

LEMMA ReturnMoves ==
  ASSUME ProcessTypeOK, NEW r \in Requests, Return(r)
  PROVE  Moves(r) /\ requests'[r].step = "idle" /\ CallInv(r)'
<1>1. Idle \in RequestRecord
  BY DEF Idle, RequestRecord, Steps
<1>2. requests'[r] = Idle /\ \A s \in Requests \ {r} : requests'[s] = requests[s]
  BY DEF Return, ProcessTypeOK
<1>3. requests'[r].step = "idle"
  BY <1>2 DEF Idle
<1> QED BY <1>1, <1>2, <1>3 DEF Moves, Holding, CallInv, Return, ProcessTypeOK

LEMMA GotoMoves ==
  ASSUME ProcessTypeOK, NEW r \in Requests, NEW step \in Steps, Goto(r, step),
         step \in Holding => requests[r].step \in Holding
  PROVE  /\ Moves(r)
         /\ requests'[r].step = step
         /\ requests'[r].order = requests[r].order
         /\ requests'[r].payment = requests[r].payment
         /\ requests'[r].token = requests[r].token
         /\ requests'[r].provider = requests[r].provider
<1>1. requests[r] \in RequestRecord
  BY DEF ProcessTypeOK
<1>2. /\ requests'[r] = [requests[r] EXCEPT !.step = step]
      /\ \A s \in Requests \ {r} : requests'[s] = requests[s]
  BY DEF Goto, ProcessTypeOK
<1>3. [requests[r] EXCEPT !.step = step] \in RequestRecord
  BY <1>1 DEF RequestRecord
<1>4. requests' \in [Requests -> RequestRecord]
  BY <1>3 DEF Goto, ProcessTypeOK
<1> QED BY <1>1, <1>2, <1>4 DEF Moves, RequestRecord

\* The calls that do not move keep what they know.
LEMMA OtherCallsKept ==
  ASSUME CallsInv, TablesLast, registered \subseteq registered',
         NEW s \in Requests, requests'[s] = requests[s],
         At(s, "register") => SubmissionLasts(requests[s].payment)
  PROVE  CallInv(s)'
<1>1. CallInv(s) /\ tokens \in Nat
  BY DEF CallsInv, PaymentInv, TypeOK
<1>2. requests[s].step # "idle" => requests[s].order \in Orders
  BY <1>1 DEF CallInv
<1>3. requests[s].step \in Holding =>
        /\ requests[s].payment \in Payments
        /\ requests[s].token \in 1..tokens'
        /\ payments'[requests[s].payment].status # "none"
        /\ payments'[requests[s].payment].order = requests[s].order
  BY <1>1 DEF CallInv, TablesLast, RowLasts
<1>4. requests[s].step = "register" =>
        /\ payments'[requests[s].payment].phase = "provider_submitted"
        /\ payments'[requests[s].payment].token = requests[s].token
  BY <1>1 DEF CallInv, SubmissionLasts, At
<1>5. requests[s].step = "persist" =>
        [provider |-> requests[s].provider, order |-> requests[s].order] \in registered'
  BY <1>1 DEF CallInv
<1>6. requests[s].step = "key" =>
        /\ requests[s].provider # NoProvider
        /\ \E p \in Payments : payments'[p].provider = requests[s].provider
  BY <1>1 DEF CallInv, TablesLast, RowLasts
<1> QED BY <1>2, <1>3, <1>4, <1>5, <1>6 DEF CallInv

LEMMA TokensStayDistinct ==
  ASSUME CallsInv, NEW r \in Requests, Moves(r)
  PROVE  TokensDistinct'
<1>1. ASSUME NEW s \in Requests, requests[s].step \in Holding
      PROVE  requests[s].token \in Nat /\ requests[s].token <= tokens
  <2>1. CallInv(s) /\ tokens \in Nat
    BY DEF CallsInv, PaymentInv, TypeOK
  <2>2. requests[s].token \in 1..tokens
    BY <1>1, <2>1 DEF CallInv
  <2> QED BY <2>1, <2>2
<1>2. \A s \in Requests \ {r} :
        requests[s].step \in Holding /\ requests'[r].step \in Holding =>
          requests'[r].token # requests[s].token
  BY <1>1 DEF Moves, CallsInv, TokensDistinct, PaymentInv, TypeOK
<1> QED BY <1>2 DEF CallsInv, TokensDistinct, Moves

\* What the provider has stays in step with the rows unless something is registered.
LEMMA RegisteredKept ==
  ASSUME CallsInv, TablesLast, registered' = registered,
         \A q \in Payments : Registering(q)' /\ Sent(q) => Registering(q),
         \A q \in Payments : payments'[q].provider # NoProvider =>
           [provider |-> payments'[q].provider, order |-> payments'[q].order] \in registered
  PROVE  RegisteredInv'
<1>1. ASSUME NEW made \in registered
      PROVE  \E p \in Payments : Sent(p)' /\ payments'[p].order = made.order /\ ~Registering(p)'
  <2>1. PICK p \in Payments : Sent(p) /\ payments[p].order = made.order /\ ~Registering(p)
    BY DEF CallsInv, RegisteredInv
  <2>2. payments[p].status # "none"
    BY <2>1 DEF CallsInv, SentInv, Sent
  <2> QED BY <2>1, <2>2 DEF TablesLast, RowLasts
<1>2. \A a, b \in registered : a.provider = b.provider => a = b
  BY DEF CallsInv, RegisteredInv
<1> QED BY <1>1, <1>2 DEF RegisteredInv

LEMMA KeysKept ==
  ASSUME CallsInv, TablesLast, keys' = keys
  PROVE  KeysArePersisted'
<1>1. \A x \in keys : x # NoProvider
  BY NullAssumption DEF CallsInv, ProcessTypeOK
<1> QED BY <1>1 DEF CallsInv, KeysArePersisted, TablesLast, RowLasts

\* Everything but what the step registers or gives to the customer.
LEMMA CallsStep ==
  ASSUME CallsInv, [Next]_vars, SentInv', TablesLast, NEW r \in Requests, Moves(r), CallInv(r)',
         \A s \in Requests \ {r} : At(s, "register") => SubmissionLasts(requests[s].payment),
         registered \subseteq registered', registered' \subseteq [provider : Providers, order : Orders],
         RegisteredInv', OneProviderOrder',
         keys \subseteq keys', keys' \subseteq Providers, KeysArePersisted', results' = results
  PROVE  CallsInv'
<1>1. PaymentInv'
  BY PaymentInvStep DEF CallsInv
<1>2. ProcessTypeOK'
  BY DEF CallsInv, ProcessTypeOK, Moves
<1>3. \A s \in Requests : CallInv(s)'
  BY OtherCallsKept DEF Moves
<1>4. TokensDistinct'
  BY TokensStayDistinct
<1>5. ResultsOfKeys'
  BY DEF CallsInv, ResultsOfKeys
<1> QED BY <1>1, <1>2, <1>3, <1>4, <1>5 DEF CallsInv

\* A move that registers nothing and gives no page away.
LEMMA QuietCallsStep ==
  ASSUME CallsInv, [Next]_vars, SentInv', TablesLast, NEW r \in Requests, Moves(r), CallInv(r)',
         \A s \in Requests \ {r} : At(s, "register") => SubmissionLasts(requests[s].payment),
         \A q \in Payments : Registering(q)' /\ Sent(q) => Registering(q),
         \A q \in Payments : payments'[q].provider # NoProvider =>
           [provider |-> payments'[q].provider, order |-> payments'[q].order] \in registered,
         registered' = registered, keys' = keys, results' = results
  PROVE  CallsInv'
<1>1. RegisteredInv'
  BY RegisteredKept
<1>2. KeysArePersisted'
  BY KeysKept
<1>3. OneProviderOrder'
  BY DEF CallsInv, OneProviderOrder
<1> QED BY <1>1, <1>2, <1>3, CallsStep DEF CallsInv, ProcessTypeOK

\* A call that does not enter "register" makes nobody register.
LEMMA RegisteringKept ==
  ASSUME NEW r \in Requests, Moves(r), requests'[r].step # "register", NEW q, Registering(q)'
  PROVE  Registering(q)
  BY DEF Moves, Registering, At

LEMMA RowsKnown ==
  ASSUME CallsInv, NothingPersisted, NEW q \in Payments, payments'[q].provider # NoProvider
  PROVE  [provider |-> payments'[q].provider, order |-> payments'[q].order] \in registered
  BY DEF CallsInv, RegisteredInv, NothingPersisted

\* The tables as they are, or another row of another call.
LEMMA SameTables ==
  ASSUME CallsInv, UNCHANGED vars
  PROVE  /\ SentInv' /\ TablesLast /\ NothingPersisted /\ \A q \in Payments : SubmissionLasts(q)
<1>1. Undisturbed /\ PaymentInv /\ SentInv
  BY SameRowsUndisturbed DEF CallsInv, vars
<1> QED BY <1>1, SentInvUndisturbed, UndisturbedLasts

\* A move of a call that leaves the tables alone and does not enter "register".
LEMMA TablelessStep ==
  ASSUME CallsInv, UNCHANGED vars, NEW r \in Requests, Moves(r), CallInv(r)',
         requests'[r].step # "register", registered' = registered, keys' = keys, results' = results
  PROVE  CallsInv'
<1>1. /\ SentInv' /\ TablesLast /\ NothingPersisted
      /\ \A s \in Requests \ {r} : At(s, "register") => SubmissionLasts(requests[s].payment)
  BY SameTables DEF SubmissionLasts, vars
<1>2. \A q \in Payments : Registering(q)' /\ Sent(q) => Registering(q)
  BY RegisteringKept
<1>3. \A q \in Payments : payments'[q].provider # NoProvider =>
        [provider |-> payments'[q].provider, order |-> payments'[q].order] \in registered
  BY <1>1, RowsKnown
<1> QED BY <1>1, <1>2, <1>3, QuietCallsStep

-----------------------------------------------------------------------------
(* The invariant, step by step. *)

LEMMA BeginStep ==
  ASSUME CallsInv, NEW r \in Requests, NEW o \in Orders, Begin(r, o)
  PROVE  CallsInv'
<1>1. requests[r] \in RequestRecord /\ ProcessTypeOK
  BY DEF CallsInv, ProcessTypeOK
<1>2. /\ requests'[r] = [requests[r] EXCEPT !.step = "claim", !.order = o]
      /\ \A s \in Requests \ {r} : requests'[s] = requests[s]
      /\ UNCHANGED vars /\ registered' = registered /\ keys' = keys /\ results' = results
  BY <1>1 DEF Begin, ProcessTypeOK
<1>3. [requests[r] EXCEPT !.step = "claim", !.order = o] \in RequestRecord
  BY <1>1 DEF RequestRecord, Steps
<1>4. requests' \in [Requests -> RequestRecord]
  BY <1>1, <1>3 DEF Begin, ProcessTypeOK
<1>5. requests'[r].step = "claim" /\ requests'[r].order = o
  BY <1>1, <1>2 DEF RequestRecord
<1>6. Moves(r) /\ CallInv(r)'
  BY <1>2, <1>4, <1>5 DEF Moves, CallInv, Holding
<1> QED BY <1>2, <1>5, <1>6, TablelessStep

LEMMA ReturnStep ==
  ASSUME CallsInv, UNCHANGED vars, NEW r \in Requests, Return(r),
         registered' = registered, keys' = keys, results' = results
  PROVE  CallsInv'
<1>1. Moves(r) /\ requests'[r].step = "idle" /\ CallInv(r)'
  BY ReturnMoves DEF CallsInv
<1> QED BY <1>1, TablelessStep

LEMMA ClaimReissueStep ==
  ASSUME CallsInv, NEW r \in Requests, ClaimReissue(r)
  PROVE  CallsInv'
<1>1. requests[r] \in RequestRecord /\ ProcessTypeOK /\ CallInv(r)
  BY DEF CallsInv, ProcessTypeOK
<1>2. PICK p \in Payments :
        /\ payments[p].provider # NoProvider
        /\ requests' = [requests EXCEPT ![r].step = "key", ![r].provider = payments[p].provider]
  BY DEF ClaimReissue, PendingCards, PendingOf
<1>3. /\ requests'[r] = [requests[r] EXCEPT !.step = "key", !.provider = payments[p].provider]
      /\ \A s \in Requests \ {r} : requests'[s] = requests[s]
      /\ UNCHANGED vars /\ registered' = registered /\ keys' = keys /\ results' = results
  BY <1>1, <1>2 DEF ClaimReissue, ProcessTypeOK
<1>4. payments[p].provider \in Providers \union {NoProvider}
  BY RowFields DEF CallsInv, PaymentInv, TypeOK, PaymentRecord
<1>5. [requests[r] EXCEPT !.step = "key", !.provider = payments[p].provider] \in RequestRecord
  BY <1>1, <1>4 DEF RequestRecord, Steps
<1>6. requests' \in [Requests -> RequestRecord]
  BY <1>1, <1>2, <1>5 DEF ProcessTypeOK
<1>7. /\ requests'[r].step = "key" /\ requests'[r].order = requests[r].order
      /\ requests'[r].provider = payments[p].provider
  BY <1>1, <1>3 DEF RequestRecord
<1>8. requests[r].order \in Orders
  BY <1>1 DEF ClaimReissue, At, CallInv
<1>9. Moves(r) /\ CallInv(r)'
  BY <1>2, <1>3, <1>6, <1>7, <1>8 DEF Moves, CallInv, Holding, vars
<1> QED BY <1>3, <1>7, <1>9, TablelessStep

LEMMA AuthenticateStep ==
  ASSUME CallsInv, NEW r \in Requests, Authenticate(r)
  PROVE  CallsInv'
<1>1. requests[r].step = "authenticate" /\ CallInv(r) /\ ProcessTypeOK
  BY DEF CallsInv, Authenticate, At
<1>2. PICK step \in {"submit", "release"} : Goto(r, step)
  BY DEF Authenticate
<1>3. /\ Moves(r)
      /\ requests'[r].step = step
      /\ requests'[r].order = requests[r].order
      /\ requests'[r].payment = requests[r].payment
      /\ requests'[r].token = requests[r].token
  BY <1>1, <1>2, GotoMoves DEF Steps, Holding
<1>4. UNCHANGED vars /\ registered' = registered /\ keys' = keys /\ results' = results
  BY DEF Authenticate
<1>5. CallInv(r)'
  BY <1>1, <1>3, <1>4 DEF CallInv, Holding, vars
<1> QED BY <1>3, <1>4, <1>5, TablelessStep

\* "create": the row is the caller's, under a token that nobody had.
LEMMA ClaimCreateStep ==
  ASSUME CallsInv, NEW r \in Requests, ClaimCreate(r)
  PROVE  CallsInv'
<1>1. requests[r] \in RequestRecord /\ ProcessTypeOK /\ CallInv(r) /\ PaymentInv /\ SentInv
  BY DEF CallsInv, ProcessTypeOK
<1>2. requests[r].order \in Orders
  BY <1>1 DEF ClaimCreate, At, CallInv
<1>3. PICK p \in Payments :
        /\ GetOrClaim(requests[r].order, p)
        /\ \/ requests' = [requests EXCEPT ![r].step = "authenticate", ![r].payment = p,
                                           ![r].token = tokens + 1]
           \/ Return(r)
  BY DEF ClaimCreate
<1>4. /\ SentInv' /\ TablesLast /\ NothingPersisted
      /\ \A q \in Payments : SubmissionLasts(q)
      /\ payments'[p].order = requests[r].order /\ payments'[p].status # "none"
      /\ tokens' = tokens + 1 /\ tokens \in Nat
  BY <1>1, <1>2, <1>3, GetOrClaimSent DEF PaymentInv, TypeOK
<1>5. Moves(r) /\ CallInv(r)' /\ requests'[r].step # "register"
  <2>1. CASE Return(r)
    BY <1>1, <2>1, ReturnMoves
  <2>2. CASE requests' = [requests EXCEPT ![r].step = "authenticate", ![r].payment = p,
                                          ![r].token = tokens + 1]
    <3>1. requests'[r] = [requests[r] EXCEPT !.step = "authenticate", !.payment = p,
                                             !.token = tokens + 1]
      BY <1>1, <2>2 DEF ProcessTypeOK
    <3>2. [requests[r] EXCEPT !.step = "authenticate", !.payment = p, !.token = tokens + 1]
            \in RequestRecord
      <4>1. tokens + 1 \in Nat
        BY <1>4
      <4>2. \A t \in Nat : [requests[r] EXCEPT !.step = "authenticate", !.payment = p, !.token = t]
                             \in RequestRecord
        BY <1>1 DEF RequestRecord, Steps
      <4> QED BY <4>1, <4>2
    <3>3. requests' \in [Requests -> RequestRecord] /\ \A s \in Requests \ {r} : requests'[s] = requests[s]
      BY <1>1, <2>2, <3>2 DEF ProcessTypeOK
    <3>4. /\ requests'[r].step = "authenticate" /\ requests'[r].order = requests[r].order
          /\ requests'[r].payment = p /\ requests'[r].token = tokens + 1
      BY <1>1, <3>1 DEF RequestRecord
    <3>5. tokens + 1 \in 1..tokens'
      BY <1>4
    <3>6. Moves(r)
      BY <3>3, <3>4 DEF Moves
    <3>7. CallInv(r)'
      BY <1>2, <1>4, <3>4, <3>5 DEF CallInv
    <3> QED BY <3>4, <3>6, <3>7
  <2> QED BY <1>3, <2>1, <2>2
<1>6. \A s \in Requests \ {r} : At(s, "register") => SubmissionLasts(requests[s].payment)
  <2>1. \A s \in Requests : At(s, "register") => requests[s].payment \in Payments
    BY DEF CallsInv, CallInv, At, Holding
  <2> QED BY <1>4, <2>1
<1>7. [Next]_vars
  BY <1>2, <1>3 DEF Next
<1>8. registered' = registered /\ keys' = keys /\ results' = results
  BY DEF ClaimCreate
<1>9. \A q \in Payments : Registering(q)' /\ Sent(q) => Registering(q)
  BY <1>5, RegisteringKept
<1>10. \A q \in Payments : payments'[q].provider # NoProvider =>
         [provider |-> payments'[q].provider, order |-> payments'[q].order] \in registered
  BY <1>4, RowsKnown
<1> QED BY <1>4, <1>5, <1>6, <1>7, <1>8, <1>9, <1>10, QuietCallsStep

\* A row a call works on, and that no other call has under its token.
LEMMA HeldRow ==
  ASSUME CallsInv, NEW r \in Requests, requests[r].step \in Holding
  PROVE  /\ requests[r].payment \in Payments /\ requests[r].token \in 1..tokens
         /\ requests[r].order \in Orders
         /\ payments[requests[r].payment].order = requests[r].order
         /\ payments[requests[r].payment].status # "none"
  BY DEF CallsInv, CallInv, Holding

\* While a call holds a claim under its token no other call is about to register its row.
LEMMA NobodyElseRegisters ==
  ASSUME CallsInv, NEW r \in Requests, requests[r].step \in Holding,
         payments[requests[r].payment].token = requests[r].token,
         NEW s \in Requests \ {r}, At(s, "register")
  PROVE  requests[s].payment \in Payments \ {requests[r].payment}
<1>1. requests[s].step \in Holding /\ CallInv(s)
  BY DEF CallsInv, At, Holding
<1>2. requests[s].payment \in Payments /\ payments[requests[s].payment].token = requests[s].token
  BY <1>1 DEF CallInv, At
<1> QED BY <1>1, <1>2 DEF CallsInv, TokensDistinct

\* The calls that wait for the provider lose nothing when another call rewrites its row.
LEMMA OtherSubmissionsLast ==
  ASSUME CallsInv, NEW r \in Requests, requests[r].step \in Holding,
         payments[requests[r].payment].token = requests[r].token,
         \A q \in Payments \ {requests[r].payment} : SubmissionLasts(q)
  PROVE  \A s \in Requests \ {r} : At(s, "register") => SubmissionLasts(requests[s].payment)
  BY NobodyElseRegisters

LEMMA SubmitStep ==
  ASSUME CallsInv, NEW r \in Requests, Submit(r)
  PROVE  CallsInv'
<1> DEFINE p == requests[r].payment
           token == requests[r].token
<1>1. /\ requests[r].step = "submit" /\ requests[r].step \in Holding
      /\ PaymentInv /\ SentInv /\ ProcessTypeOK /\ CallInv(r)
      /\ registered' = registered /\ keys' = keys /\ results' = results
  BY DEF CallsInv, Submit, At, Holding
<1>2. /\ p \in Payments /\ token \in 1..tokens /\ requests[r].order \in Orders
      /\ payments[p].order = requests[r].order /\ payments[p].status # "none"
  BY <1>1, HeldRow
<1>3. ASSUME NEW step \in {"register", "release"}, Goto(r, step)
      PROVE  /\ Moves(r) /\ requests'[r].step = step
             /\ requests'[r].order = requests[r].order
             /\ requests'[r].payment = p /\ requests'[r].token = token
  BY <1>1, <1>3, GotoMoves DEF Steps, Holding
<1>4. CASE UNCHANGED vars /\ Goto(r, "release")
  <2>1. CallInv(r)'
    BY <1>1, <1>2, <1>3, <1>4 DEF CallInv, vars, Holding
  <2> QED BY <1>1, <1>3, <1>4, <2>1, TablelessStep
<1>5. ASSUME MarkSubmitted(p, token), NEW step \in {"register", "release"}, Goto(r, step)
      PROVE  CallsInv'
  <2>1. /\ SentInv' /\ TablesLast /\ NothingPersisted /\ ~Sent(p)
        /\ \A q \in Payments \ {p} : SubmissionLasts(q)
    BY <1>1, <1>2, <1>5, HeldClaimSent, ClaimNotSent
  <2>2. payments[p].token = token
    BY <1>5 DEF MarkSubmitted, HoldsClaim
  <2>3. payments'[p].phase = "provider_submitted" /\ payments'[p].token = token
    <3>1. payments[p] \in PaymentRecord /\ payments \in [Payments -> PaymentRecord]
      BY <1>1, <1>2 DEF PaymentInv, TypeOK
    <3> QED BY <1>2, <1>5, <2>2, <3>1 DEF MarkSubmitted, PaymentRecord
  <2>4. payments'[p].order = requests[r].order /\ payments'[p].status # "none"
    BY <1>2, <2>1 DEF TablesLast, RowLasts
  <2>5. Moves(r) /\ CallInv(r)'
    <3>1. tokens' = tokens
      BY <1>5 DEF MarkSubmitted
    <3> QED BY <1>2, <1>3, <1>5, <2>3, <2>4, <3>1 DEF CallInv
  <2>6. \A s \in Requests \ {r} : At(s, "register") => SubmissionLasts(requests[s].payment)
    BY <1>1, <2>1, <2>2, OtherSubmissionsLast
  <2>7. \A q \in Payments : Registering(q)' /\ Sent(q) => Registering(q)
    BY <1>3, <1>5, <2>1 DEF Registering, At, Moves
  <2>8. \A q \in Payments : payments'[q].provider # NoProvider =>
          [provider |-> payments'[q].provider, order |-> payments'[q].order] \in registered
    BY <2>1, RowsKnown
  <2>9. [Next]_vars
    BY <1>2, <1>5 DEF Next
  <2> QED BY <1>1, <2>1, <2>5, <2>6, <2>7, <2>8, <2>9, QuietCallsStep
<1> QED BY <1>4, <1>5 DEF Submit

LEMMA ReleaseStep ==
  ASSUME CallsInv, NEW r \in Requests, Release(r)
  PROVE  CallsInv'
<1> DEFINE p == requests[r].payment
           token == requests[r].token
<1>1. /\ requests[r].step \in Holding /\ PaymentInv /\ SentInv /\ ProcessTypeOK
      /\ Return(r) /\ registered' = registered /\ keys' = keys /\ results' = results
  BY DEF CallsInv, Release, At, Holding
<1>2. p \in Payments /\ token \in 1..tokens
  BY <1>1, HeldRow
<1>3. CASE ReleaseClaim(p, token)
  <2>1. /\ SentInv' /\ TablesLast /\ NothingPersisted
        /\ \A q \in Payments \ {p} : SubmissionLasts(q)
    BY <1>1, <1>2, <1>3, HeldClaimSent, ClaimNotSent
  <2>2. payments[p].token = token
    BY <1>3 DEF ReleaseClaim, HoldsClaim
  <2>3. \A s \in Requests \ {r} : At(s, "register") => SubmissionLasts(requests[s].payment)
    BY <1>1, <2>1, <2>2, OtherSubmissionsLast
  <2>4. Moves(r) /\ CallInv(r)' /\ requests'[r].step # "register"
    BY <1>1, ReturnMoves
  <2>5. \A q \in Payments : Registering(q)' /\ Sent(q) => Registering(q)
    BY <2>4, RegisteringKept
  <2>6. \A q \in Payments : payments'[q].provider # NoProvider =>
          [provider |-> payments'[q].provider, order |-> payments'[q].order] \in registered
    BY <2>1, RowsKnown
  <2>7. [Next]_vars
    BY <1>2, <1>3 DEF Next
  <2> QED BY <1>1, <2>1, <2>3, <2>4, <2>5, <2>6, <2>7, QuietCallsStep
<1> QED BY <1>1, <1>3, ReturnStep DEF Release

\* The provider has a new order; the answer names it or is lost.
LEMMA RegisterStep ==
  ASSUME CallsInv, NEW r \in Requests, Register(r)
  PROVE  CallsInv'
<1>1. /\ requests[r].step = "register" /\ requests[r].step \in Holding
      /\ requests[r] \in RequestRecord /\ ProcessTypeOK /\ CallInv(r)
      /\ UNCHANGED vars /\ keys' = keys /\ results' = results
  BY DEF CallsInv, Register, At, Holding, ProcessTypeOK
<1>2. PICK p \in Payments :
      /\ requests[r].payment = p /\ requests[r].token \in 1..tokens /\ requests[r].order \in Orders
      /\ payments[p].order = requests[r].order /\ payments[p].status # "none"
      /\ payments[p].token = requests[r].token /\ payments[p].phase = "provider_submitted"
  BY <1>1, HeldRow DEF CallInv
<1>3. CASE Return(r) /\ registered' = registered
  BY <1>1, <1>3, ReturnStep
<1>4. ASSUME NEW x \in Unregistered,
             registered' = registered \union {[provider |-> x, order |-> requests[r].order]},
             \/ requests' = [requests EXCEPT ![r].step = "persist", ![r].provider = x]
             \/ Return(r)
      PROVE  CallsInv'
  <2> DEFINE new == [provider |-> x, order |-> requests[r].order]
  <2>1. x \in Providers /\ \A made \in registered : made.provider # x
    BY DEF Unregistered
  <2>2. Sent(p) /\ Registering(p)
    BY <1>1, <1>2 DEF Sent, Registering, At
  <2>3. \A made \in registered : made.order # requests[r].order
    <3>1. ASSUME NEW made \in registered, made.order = requests[r].order PROVE FALSE
      <4>1. PICK q \in Payments : Sent(q) /\ payments[q].order = made.order /\ ~Registering(q)
        BY DEF CallsInv, RegisteredInv
      <4>2. q = p
        BY <1>2, <2>2, <3>1, <4>1 DEF CallsInv, SentInv
      <4> QED BY <2>2, <4>1, <4>2
    <3> QED BY <3>1
  <2>4. Moves(r) /\ CallInv(r)' /\ requests'[r].step # "register"
    <3>1. CASE Return(r)
      BY <1>1, <3>1, ReturnMoves
    <3>2. CASE requests' = [requests EXCEPT ![r].step = "persist", ![r].provider = x]
      <4>1. requests'[r] = [requests[r] EXCEPT !.step = "persist", !.provider = x]
        BY <1>1, <3>2 DEF ProcessTypeOK
      <4>2. [requests[r] EXCEPT !.step = "persist", !.provider = x] \in RequestRecord
        BY <1>1, <2>1 DEF RequestRecord, Steps
      <4>3. requests' \in [Requests -> RequestRecord] /\ \A s \in Requests \ {r} : requests'[s] = requests[s]
        BY <1>1, <3>2, <4>2 DEF ProcessTypeOK
      <4>4. /\ requests'[r].step = "persist" /\ requests'[r].order = requests[r].order
            /\ requests'[r].payment = p /\ requests'[r].token = requests[r].token
            /\ requests'[r].provider = x
        BY <1>1, <1>2, <4>1 DEF RequestRecord
      <4>5. Moves(r)
        BY <1>1, <4>3, <4>4 DEF Moves
      <4>6. tokens' = tokens /\ payments' = payments
            /\ [provider |-> x, order |-> requests[r].order] \in registered'
        BY <1>1, <1>4 DEF vars
      <4>7. CallInv(r)'
        BY <1>2, <4>4, <4>6 DEF CallInv
      <4> QED BY <4>4, <4>5, <4>7
    <3> QED BY <1>4, <3>1, <3>2
  <2>5. /\ SentInv' /\ TablesLast
        /\ \A s \in Requests \ {r} : At(s, "register") => SubmissionLasts(requests[s].payment)
    BY <1>1, SameTables DEF SubmissionLasts, vars
  <2>6. ~Registering(p)'
    <3>1. \A s \in Requests \ {r} : At(s, "register") => requests[s].payment # p
      BY <1>1, <1>2, NobodyElseRegisters
    <3> QED BY <2>4, <3>1 DEF Registering, At, Moves
  <2>7. RegisteredInv'
    <3>1. ASSUME NEW made \in registered'
          PROVE  \E q \in Payments : Sent(q)' /\ payments'[q].order = made.order /\ ~Registering(q)'
      <4>1. CASE made = new
        BY <1>1, <1>2, <2>2, <2>6, <4>1 DEF Sent, vars
      <4>2. CASE made \in registered
        <5>1. PICK q \in Payments : Sent(q) /\ payments[q].order = made.order /\ ~Registering(q)
          BY <4>2 DEF CallsInv, RegisteredInv
        <5>2. ~Registering(q)'
          BY <2>4, <5>1, RegisteringKept
        <5>3. Sent(q)' /\ payments'[q].order = made.order
          BY <1>1, <5>1 DEF Sent, vars
        <5> QED BY <5>2, <5>3
      <4> QED BY <1>4, <4>1, <4>2
    <3>2. \A a, b \in registered' : a.provider = b.provider => a = b
      BY <1>4, <2>1 DEF CallsInv, RegisteredInv
    <3>3. \A q \in Payments : payments'[q].provider # NoProvider =>
            [provider |-> payments'[q].provider, order |-> payments'[q].order] \in registered'
      <4>1. payments' = payments /\ registered \subseteq registered'
        BY <1>1, <1>4 DEF vars
      <4> QED BY <4>1 DEF CallsInv, RegisteredInv
    <3> QED BY <3>1, <3>2, <3>3 DEF RegisteredInv
  <2>8. OneProviderOrder'
    BY <1>4, <2>3 DEF CallsInv, OneProviderOrder
  <2>9. KeysArePersisted' /\ registered' \subseteq [provider : Providers, order : Orders]
    BY <1>1, <1>2, <1>4, <2>1, <2>5, KeysKept DEF ProcessTypeOK
  <2> QED BY <1>1, <1>4, <2>4, <2>5, <2>7, <2>8, <2>9, CallsStep DEF CallsInv, ProcessTypeOK
<1> QED BY <1>3, <1>4 DEF Register

\* The row learns which order of the provider is its own.
LEMMA PersistStep ==
  ASSUME CallsInv, NEW r \in Requests, Persist(r)
  PROVE  CallsInv'
<1>1. /\ requests[r].step = "persist" /\ requests[r].step \in Holding
      /\ PaymentInv /\ SentInv /\ ProcessTypeOK /\ CallInv(r)
      /\ registered' = registered /\ keys' = keys /\ results' = results
  BY DEF CallsInv, Persist, At, Holding
<1>2. PICK p \in Payments :
      /\ requests[r].payment = p /\ requests[r].token \in 1..tokens /\ requests[r].order \in Orders
      /\ payments[p].order = requests[r].order
  BY <1>1, HeldRow
<1>3. CASE Return(r) /\ UNCHANGED vars
  BY <1>1, <1>3, ReturnStep
<1>4. ASSUME PersistProviderOrder(p, requests[r].token, requests[r].provider),
             Goto(r, "key") \/ Return(r)
      PROVE  CallsInv'
  <2>1. PICK x \in Providers :
          requests[r].provider = x /\ [provider |-> x, order |-> payments[p].order] \in registered
    BY <1>1, <1>2 DEF CallInv, ProcessTypeOK
  <2>2. PersistProviderOrder(p, requests[r].token, x)
    BY <1>4, <2>1
  <2>3. /\ SentInv' /\ TablesLast
        /\ \A q \in Payments \ {p} : SubmissionLasts(q)
    BY <1>1, <2>2, HeldClaimSent
  <2>4. payments[p].token = requests[r].token
    BY <2>2 DEF PersistProviderOrder, MayPersist
  <2>5. /\ payments'[p].provider = x /\ payments'[p].order = payments[p].order
        /\ \A q \in Payments \ {p} : payments'[q] = payments[q]
    BY <1>1, <2>2 DEF PersistProviderOrder, PaymentInv, TypeOK, PaymentRecord
  <2>6. Moves(r) /\ CallInv(r)' /\ requests'[r].step # "register"
    <3>1. CASE Return(r)
      BY <1>1, <3>1, ReturnMoves
    <3>2. CASE Goto(r, "key")
      <4>1. /\ Moves(r) /\ requests'[r].step = "key"
            /\ requests'[r].order = requests[r].order /\ requests'[r].provider = x
        BY <1>1, <2>1, <3>2, GotoMoves DEF Steps, Holding
      <4>2. CallInv(r)'
        BY <1>2, <2>5, <4>1, NullAssumption DEF CallInv, Holding
      <4> QED BY <4>1, <4>2
    <3> QED BY <1>4, <3>1, <3>2
  <2>7. \A s \in Requests \ {r} : At(s, "register") => SubmissionLasts(requests[s].payment)
    BY <1>1, <1>2, <2>3, <2>4, OtherSubmissionsLast
  <2>8. \A q \in Payments : Registering(q)' /\ Sent(q) => Registering(q)
    BY <2>6, RegisteringKept
  <2>9. \A q \in Payments : payments'[q].provider # NoProvider =>
          [provider |-> payments'[q].provider, order |-> payments'[q].order] \in registered
    BY <2>1, <2>5 DEF CallsInv, RegisteredInv
  <2>10. [Next]_vars
    BY <1>2, <2>2 DEF Next
  <2> QED BY <1>1, <2>3, <2>6, <2>7, <2>8, <2>9, <2>10, QuietCallsStep
<1> QED BY <1>2, <1>3, <1>4 DEF Persist

LEMMA GetKeyStep ==
  ASSUME CallsInv, NEW r \in Requests, GetKey(r)
  PROVE  CallsInv'
<1>1. /\ ProcessTypeOK /\ UNCHANGED vars /\ Return(r)
      /\ registered' = registered /\ results' = results
  BY DEF CallsInv, GetKey
<1>2. CASE keys' = keys
  BY <1>1, <1>2, ReturnStep
<1>3. CASE keys' = keys \union {requests[r].provider}
  <2>1. PICK p \in Payments : payments[p].provider = requests[r].provider
    BY DEF CallsInv, CallInv, GetKey, At
  <2>2. requests[r].provider \in Providers
    BY DEF CallsInv, CallInv, GetKey, At, ProcessTypeOK, RequestRecord
  <2>3. KeysArePersisted' /\ keys \subseteq keys' /\ keys' \subseteq Providers
    BY <1>1, <1>3, <2>1, <2>2 DEF CallsInv, KeysArePersisted, ProcessTypeOK, vars
  <2>4. Moves(r) /\ requests'[r].step # "register" /\ CallInv(r)'
    BY <1>1, ReturnMoves
  <2>5. /\ SentInv' /\ TablesLast /\ NothingPersisted
        /\ \A s \in Requests \ {r} : At(s, "register") => SubmissionLasts(requests[s].payment)
    BY <1>1, SameTables DEF SubmissionLasts, vars
  <2>6. RegisteredInv'
    BY <1>1, <2>4, <2>5, RegisteredKept, RegisteringKept, RowsKnown
  <2>7. OneProviderOrder' /\ registered' \subseteq [provider : Providers, order : Orders]
    BY <1>1 DEF CallsInv, OneProviderOrder, ProcessTypeOK
  <2> QED BY <1>1, <2>3, <2>4, <2>5, <2>6, <2>7, CallsStep
<1> QED BY <1>2, <1>3 DEF GetKey

-----------------------------------------------------------------------------
(* The provider, the customer and the rest of the store. *)

LEMMA StandStill ==
  ASSUME CallsInv, UNCHANGED requests, NEW r \in Requests
  PROVE  Moves(r)
  BY DEF CallsInv, ProcessTypeOK, Moves

\* No call moves; the tables change as they do without calls.
LEMMA NoCallStep ==
  ASSUME CallsInv, [Next]_vars, Undisturbed, UNCHANGED <<requests, registered, keys>>,
         results' \in SUBSET (Providers \X BOOLEAN), ResultsOfKeys'
  PROVE  CallsInv'
<1>1. PaymentInv /\ SentInv /\ PaymentInv'
  BY PaymentInvStep DEF CallsInv
<1>2. SentInv' /\ TablesLast /\ NothingPersisted /\ \A q \in Payments : SubmissionLasts(q)
  BY <1>1, SentInvUndisturbed, UndisturbedLasts
<1>3. ASSUME NEW s \in Requests PROVE CallInv(s)'
  <2>1. At(s, "register") => requests[s].payment \in Payments
    BY DEF CallsInv, CallInv, At, Holding
  <2> QED BY <1>2, <2>1, OtherCallsKept
<1>4. TokensDistinct' /\ OneProviderOrder' /\ ProcessTypeOK'
  BY DEF CallsInv, TokensDistinct, OneProviderOrder, ProcessTypeOK
<1>5. RegisteredInv'
  <2>1. \A q \in Payments : Registering(q)' => Registering(q)
    BY DEF Registering, At
  <2> QED BY <1>2, <2>1, RegisteredKept, RowsKnown
<1>6. KeysArePersisted'
  BY <1>2, KeysKept
<1> QED BY <1>1, <1>2, <1>3, <1>4, <1>5, <1>6 DEF CallsInv

LEMMA AttemptStep ==
  ASSUME CallsInv, NEW x \in Providers, NEW success \in BOOLEAN, Attempt(x, success)
  PROVE  CallsInv'
<1>1. UNCHANGED vars /\ UNCHANGED <<requests, registered, keys>>
  BY DEF Attempt
<1>2. results' \in SUBSET (Providers \X BOOLEAN) /\ ResultsOfKeys'
  BY DEF CallsInv, Attempt, ResultsOfKeys, ProcessTypeOK
<1> QED BY <1>1, <1>2, NoCallStep, SameRowsUndisturbed DEF vars

LEMMA StoreStep ==
  ASSUME CallsInv, UNCHANGED processVars,
         \/ \E x \in Providers, success \in BOOLEAN : Callback(x, success)
         \/ Elsewhere
  PROVE  CallsInv' /\ Undisturbed /\ [Next]_vars
<1>1. PaymentInv
  BY DEF CallsInv
<1>2. [Next]_vars
  BY DEF Callback, Elsewhere, Next
<1>3. Undisturbed
  <2>1. CASE \E x \in Providers, success \in BOOLEAN : Callback(x, success)
    BY <1>1, <2>1, SettlingUndisturbed DEF Callback
  <2>2. CASE Tick \/ \E o \in Orders, s \in OrderStatuses : AdminUpdate(o, s)
    BY <2>2, SameRowsUndisturbed DEF Tick, AdminUpdate
  <2>3. CASE \E o \in Orders, m \in Methods : CreateOrder(o, m) \/ SetMethod(o, m)
    BY <1>1, <2>3, CreateOrderUndisturbed, SetMethodUndisturbed
  <2>4. CASE \E o \in Orders : ConfirmCod(o) \/ ExpireOrder(o)
    BY <1>1, <2>4, SettlingUndisturbed
  <2> QED BY <2>1, <2>2, <2>3, <2>4 DEF Elsewhere
<1>4. results' \in SUBSET (Providers \X BOOLEAN) /\ ResultsOfKeys'
  BY DEF CallsInv, processVars, ResultsOfKeys, ProcessTypeOK
<1> QED BY <1>2, <1>3, <1>4, NoCallStep DEF processVars

LEMMA CallsInvInit == PInit => CallsInv
<1> SUFFICES ASSUME PInit PROVE CallsInv
  OBVIOUS
<1>1. PaymentInv
  BY PaymentInvInit DEF PInit
<1>2. /\ \A p \in Payments : /\ payments[p].status = "none" /\ payments[p].phase = "none"
                             /\ payments[p].provider = NoProvider
      /\ \A o \in Orders : orders[o].status = "none"
  BY DEF PInit, Init
<1>3. SentInv
  BY <1>2 DEF SentInv, Sent, Paid
<1>4. \A r \in Requests : requests[r] = Idle /\ requests[r].step = "idle"
  BY DEF PInit, Idle
<1>5. ProcessTypeOK
  BY DEF PInit, ProcessTypeOK, Idle, RequestRecord, Steps
<1>6. (\A r \in Requests : CallInv(r)) /\ TokensDistinct
  BY <1>4 DEF CallInv, Holding, TokensDistinct
<1>7. RegisteredInv /\ OneProviderOrder /\ KeysArePersisted /\ ResultsOfKeys
  BY <1>2 DEF PInit, RegisteredInv, OneProviderOrder, KeysArePersisted, ResultsOfKeys
<1> QED BY <1>1, <1>3, <1>5, <1>6, <1>7 DEF CallsInv

LEMMA CallsInvStep == CallsInv /\ [PNext]_allVars => CallsInv'
<1> SUFFICES ASSUME CallsInv, [PNext]_allVars PROVE CallsInv'
  OBVIOUS
<1>1. CASE UNCHANGED allVars
  <2>1. UNCHANGED vars /\ UNCHANGED <<requests, registered, keys, results>>
    BY <1>1 DEF allVars, processVars
  <2>2. results' \in SUBSET (Providers \X BOOLEAN) /\ ResultsOfKeys'
    BY <2>1 DEF CallsInv, ResultsOfKeys, ProcessTypeOK
  <2> QED BY <2>1, <2>2, NoCallStep, SameRowsUndisturbed DEF vars
<1>2. ASSUME NEW r \in Requests, ClaimReject(r) \/ Crash(r) PROVE CallsInv'
  BY <1>2, ReturnStep DEF ClaimReject, Crash
<1>3. CASE \/ \E x \in Providers, success \in BOOLEAN : Callback(x, success)
           \/ Elsewhere
  <2>1. UNCHANGED processVars
    BY <1>3 DEF Callback, Elsewhere
  <2> QED BY <1>3, <2>1, StoreStep
<1> QED
  BY <1>1, <1>2, <1>3, BeginStep, ClaimCreateStep, ClaimReissueStep, AuthenticateStep, SubmitStep,
     RegisterStep, PersistStep, GetKeyStep, ReleaseStep, AttemptStep DEF PNext

\* The inductive invariant of the calls and the provider, in every reachable state.
THEOREM CallsInvariant == PSpec => []CallsInv
<1> QED BY CallsInvInit, CallsInvStep, PTL DEF PSpec

-----------------------------------------------------------------------------
(* What follows from the invariant. *)

\* Every step of the composition is one of the store, and takes nothing back from a row.
LEMMA StepsLast ==
  ASSUME CallsInv, [PNext]_allVars
  PROVE  [Next]_vars /\ TablesLast
<1>1. PaymentInv /\ SentInv
  BY DEF CallsInv
<1>2. CASE UNCHANGED vars
  BY <1>2, SameTables
<1>3. ASSUME NEW r \in Requests, ClaimCreate(r) PROVE [Next]_vars /\ TablesLast
  <2>1. PICK p \in Payments : GetOrClaim(requests[r].order, p)
    BY <1>3 DEF ClaimCreate
  <2>2. requests[r].order \in Orders
    BY <1>3 DEF CallsInv, ClaimCreate, At, CallInv
  <2> QED BY <1>1, <2>1, <2>2, GetOrClaimSent DEF Next
<1>4. ASSUME NEW r \in Requests, NEW p, NEW token, requests[r].step \in Holding,
             requests[r].payment = p, requests[r].token = token,
             \/ MarkSubmitted(p, token)
             \/ ReleaseClaim(p, token)
             \/ \E x \in Providers : PersistProviderOrder(p, token, x)
      PROVE  [Next]_vars /\ TablesLast
  <2>1. p \in Payments /\ token \in 1..tokens
    BY <1>4, HeldRow
  <2> QED BY <1>1, <1>4, <2>1, HeldClaimSent DEF Next
<1>5. ASSUME NEW r \in Requests, Submit(r) \/ Release(r) PROVE [Next]_vars /\ TablesLast
  BY <1>2, <1>4, <1>5 DEF Submit, Release, At, Holding
<1>6. ASSUME NEW r \in Requests, Persist(r) PROVE [Next]_vars /\ TablesLast
  <2>1. CASE PersistProviderOrder(requests[r].payment, requests[r].token, requests[r].provider)
    <3>1. requests[r].step \in Holding /\ CallInv(r) /\ ProcessTypeOK
      BY <1>6 DEF CallsInv, Persist, At, Holding
    <3>2. requests[r].provider \in Providers
      BY <1>6, <3>1 DEF CallInv, ProcessTypeOK, Persist, At
    <3> QED BY <1>4, <2>1, <3>1, <3>2
  <2> QED BY <1>2, <1>6, <2>1 DEF Persist
<1>7. CASE \/ \E x \in Providers, success \in BOOLEAN : Callback(x, success)
           \/ Elsewhere
  <2>1. UNCHANGED processVars
    BY <1>7 DEF Callback, Elsewhere
  <2> QED BY <1>1, <1>7, <2>1, StoreStep, UndisturbedLasts
<1> QED
  BY <1>2, <1>3, <1>5, <1>6, <1>7 DEF PNext, allVars, Begin, ClaimReissue, ClaimReject,
     Authenticate, Register, GetKey, Crash, Attempt

\* The composition implements the store: its calls and the provider reach the tables
\* through the functions of OrderPayment only, in the states these allow.
THEOREM CallsUseTheStore == PSpec => Init /\ [][Next]_vars
<1>1. PInit => Init
  BY DEF PInit
<1>2. CallsInv /\ [PNext]_allVars => [Next]_vars
  BY StepsLast
<1> QED BY <1>1, <1>2, CallsInvariant, PTL DEF PSpec

\* The processes keep their types.
THEOREM ProcessesTyped == PSpec => []ProcessTypeOK
<1>1. CallsInv => ProcessTypeOK
  BY DEF CallsInv
<1> QED BY <1>1, CallsInvariant, PTL

\* paymob-initiate never makes the provider hold two orders for one order of the store.
THEOREM NeverTwoProviderOrders == PSpec => []OneProviderOrder
<1>1. CallsInv => OneProviderOrder
  BY DEF CallsInv
<1> QED BY <1>1, CallsInvariant, PTL

\* paymob-initiate gives a checkout page away only after the store knows its order.
THEOREM KeysAlwaysPersisted == PSpec => []KeysArePersisted
<1>1. CallsInv => KeysArePersisted
  BY DEF CallsInv
<1> QED BY <1>1, CallsInvariant, PTL

\* The row of an order the provider made and a customer was charged for.
LEMMA ChargedRow ==
  ASSUME CallsInv, NEW made \in registered, made.provider \in Captured
  PROVE  \E p \in Payments : /\ payments[p].provider = made.provider
                             /\ payments[p].order = made.order
                             /\ Sent(p)
<1>1. made.provider \in keys /\ made.provider # NoProvider
  BY NullAssumption DEF CallsInv, ResultsOfKeys, Captured
<1>2. PICK p \in Payments : payments[p].provider = made.provider
  BY <1>1 DEF CallsInv, KeysArePersisted
<1>3. [provider |-> payments[p].provider, order |-> payments[p].order] = made
  BY <1>1, <1>2 DEF CallsInv, RegisteredInv
<1>4. payments[p].order = made.order
  BY <1>3
<1>5. Sent(p)
  BY <1>1, <1>2 DEF CallsInv, SentInv, Sent
<1> QED BY <1>2, <1>4, <1>5

\* A charge of an order in fulfilment is what paid it (process_paymob_callback,
\* confirm_cod_payment and the change of method exclude one another).
THEOREM ChargesPayTheirOrder == PSpec => []ChargePaysItsOrder
<1>1. ASSUME CallsInv, NEW made \in registered, made.provider \in Captured,
             orders[made.order].status \in Paid, NEW p \in Successful(made.order)
      PROVE  payments[p].provider = made.provider
  <2>1. PICK q \in Payments : /\ payments[q].provider = made.provider
                              /\ payments[q].order = made.order /\ Sent(q)
    BY <1>1, ChargedRow
  <2>2. made.order \in Orders
    BY <1>1 DEF CallsInv, ProcessTypeOK
  <2>3. q \in Successful(made.order)
    BY <1>1, <2>1 DEF CallsInv, SentInv, Successful
  <2>4. p = q
    BY <1>1, <2>2, <2>3 DEF CallsInv, PaymentInv, PaidOrdersSettled
  <2> QED BY <2>1, <2>4
<1>2. CallsInv => ChargePaysItsOrder
  BY <1>1 DEF ChargePaysItsOrder
<1> QED BY <1>2, CallsInvariant, PTL

\* process_paymob_callback accepts a charge for as long as its order can be paid.
THEOREM LiveChargesAlwaysAccepted == PSpec => []LiveChargesAccepted
<1>1. ASSUME CallsInv, NEW made \in registered, made.provider \in Captured, Live(made.order)
      PROVE  \E p \in Payments : payments[p].provider = made.provider /\ AcceptsCallback(p)
  <2>1. PICK p \in Payments : /\ payments[p].provider = made.provider
                              /\ payments[p].order = made.order /\ Sent(p)
    BY <1>1, ChargedRow
  <2>2. payments[p].status = "pending"
    BY <1>1, <2>1 DEF CallsInv, SentInv, Live
  <2> QED BY <1>1, <2>1, <2>2 DEF AcceptsCallback
<1>2. CallsInv => LiveChargesAccepted
  BY <1>1 DEF LiveChargesAccepted
<1> QED BY <1>2, CallsInvariant, PTL

RankStep ==
    \A p \in Payments :
      Rank(payments[p].phase) >= 2 => Rank(payments'[p].phase) >= Rank(payments[p].phase)

\* release_paymob_initiation_claim and a new claim never take a submission back.
THEOREM SubmissionsStay == PSpec => SubmittedClaimsKept
<1>1. ASSUME CallsInv, CallsInv', [PNext]_allVars PROVE RankStep
  <2> SUFFICES ASSUME NEW p \in Payments, Rank(payments[p].phase) >= 2
               PROVE  Rank(payments'[p].phase) >= Rank(payments[p].phase)
    BY DEF RankStep
  <2>1. payments[p].phase \in Phases /\ payments'[p].phase \in Phases
    BY <1>1, RowFields DEF CallsInv, PaymentInv, TypeOK, PaymentRecord
  <2>2. Sent(p)
    BY <2>1 DEF Rank, Phases, Sent
  <2>3. RowLasts(p)
    BY <1>1, StepsLast DEF TablesLast
  <2>4. payments[p].phase = "provider_persisted" => payments'[p].phase = "provider_persisted"
    BY <1>1, <2>3 DEF CallsInv, SentInv, RowLasts
  <2>5. payments'[p].phase \in {"provider_submitted", "provider_persisted"}
    BY <2>2, <2>3 DEF RowLasts, Sent
  <2> QED BY <2>2, <2>4, <2>5 DEF Rank, Sent
<1>2. CallsInv /\ CallsInv' /\ [PNext]_allVars => [RankStep]_allVars
  BY <1>1
<1> QED BY <1>2, CallsInvariant, PTL DEF PSpec, SubmittedClaimsKept, RankStep
=============================================================================
