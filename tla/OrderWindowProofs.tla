-------------------------- MODULE OrderWindowProofs --------------------------
(***************************************************************************)
(* What TLAPS proves about OrderPayment's windows and about the payments   *)
(* the provider knows: late payments, the sweep and provider orders; and   *)
(* about the InstaPay proofs: one per payment, whose review decides it.    *)
(***************************************************************************)
EXTENDS OrderPaymentProofs

-----------------------------------------------------------------------------
(* What a step does to a row and to the reservation of an order. *)

\* a row in use keeps its age and its provider's order; a payment the provider
\* knows is not cancelled
RowKept(q) ==
    /\ payments'[q].created = payments[q].created
    /\ payments'[q].order = payments[q].order
    /\ payments'[q].method = payments[q].method
    /\ payments'[q].status = "pending" => payments[q].status = "pending"
    /\ payments[q].status = "none" => payments'[q].provider = payments[q].provider
    /\ payments'[q].status = "none" => payments[q].status = "none"
    /\ payments[q].provider # NoProvider =>
         /\ payments'[q].provider = payments[q].provider
         /\ payments'[q].status = "cancelled" => payments[q].status = "cancelled"

\* a free row is taken into use now
RowTaken(q) ==
    /\ payments[q].status = "none"
    /\ payments'[q].status = "pending"
    /\ payments'[q].created = now
    /\ payments'[q].provider = NoProvider

RowSteps == \A q \in Payments : RowKept(q) \/ RowTaken(q)

WindowKept(o) ==
    /\ orders'[o].expires = orders[o].expires
    /\ orders'[o].status = "pending" => orders[o].status = "pending"

\* a new window, for which no InstaPay row of the order waits that is older
WindowNew(o) ==
    /\ orders'[o].expires <= now + InstapayWindow
    /\ \A q \in Payments :
         payments'[q].status = "pending" /\ payments'[q].order = o
           /\ payments'[q].method = "instapay" => payments'[q].created = now

\* an order is promoted in time, or by an administrator who has the cash
PromotedInTime(o) ==
    orders[o].status = "pending" /\ orders'[o].status = "paid" =>
      orders[o].method = "cod" \/ now < orders[o].expires

OrderSteps == \A o \in Orders : (WindowKept(o) \/ WindowNew(o)) /\ PromotedInTime(o)

-----------------------------------------------------------------------------
\* The functions that leave payments alone, or mark rows that are pending.
LEMMA SameRows == ASSUME payments' = payments PROVE RowSteps
  BY DEF RowSteps, RowKept

LEMMA MarkedRows ==
  ASSUME TypeOK, NEW ps, NEW s \in {"expired", "cancelled"}, payments' = MarkAll(ps, s),
         \A q \in ps : payments[q].status = "pending",
         s = "cancelled" => \A q \in ps : payments[q].provider = NoProvider
  PROVE  RowSteps
<1> SUFFICES ASSUME NEW q \in Payments PROVE RowKept(q)
  BY DEF RowSteps
<1>1. payments[q] \in PaymentRecord
  BY DEF TypeOK
<1>2. payments'[q] = IF q \in ps THEN [payments[q] EXCEPT !.status = s] ELSE payments[q]
  BY DEF MarkAll
<1> QED BY <1>1, <1>2 DEF RowKept, PaymentRecord

\* A payment that succeeds or fails keeps the rest of its row.
LEMMA SettledRows ==
  ASSUME TypeOK, NEW p \in Payments, NEW s \in {"success", "failed"},
         payments[p].status = "pending",
         payments' = [payments EXCEPT ![p].status = s]
  PROVE  RowSteps
<1> SUFFICES ASSUME NEW q \in Payments PROVE RowKept(q)
  BY DEF RowSteps
<1>1. payments[q] \in PaymentRecord
  BY DEF TypeOK
<1>2. payments'[q] = IF q = p THEN [payments[q] EXCEPT !.status = s] ELSE payments[q]
  BY DEF TypeOK
<1> QED BY <1>1, <1>2 DEF RowKept, PaymentRecord

LEMMA CreateOrderRows ==
  ASSUME PaymentInv, NEW o \in Orders, NEW m \in Methods, CreateOrder(o, m)
  PROVE  RowSteps
<1>1. CASE m # "cod"
  BY <1>1, SameRows DEF CreateOrder
<1>2. CASE m = "cod"
  <2>1. PICK p \in FreeRows : payments' = [payments EXCEPT ![p] = NewPayment(o, "cod", "none", 0)]
    BY <1>2 DEF CreateOrder
  <2>2. p \in Payments /\ payments[p].status = "none"
    BY DEF FreeRows
  <2>3. /\ payments'[p] = NewPayment(o, "cod", "none", 0)
        /\ \A q \in Payments \ {p} : payments'[q] = payments[q]
    BY <2>1, <2>2 DEF PaymentInv, TypeOK
  <2>4. RowTaken(p)
    BY <2>2, <2>3 DEF RowTaken, NewPayment
  <2>5. \A q \in Payments \ {p} : RowKept(q)
    BY <2>3 DEF RowKept
  <2> QED BY <2>4, <2>5 DEF RowSteps
<1> QED BY <1>1, <1>2

\* A change of method cancels rows the provider does not know.
LEMMA SetMethodRows ==
  ASSUME PaymentInv, NEW o \in Orders, NEW m \in Methods, SetMethod(o, m)
  PROVE  RowSteps
<1> DEFINE kept == MarkAll(Superseded(o, m), "cancelled")
<1>1. \A q \in Superseded(o, m) : /\ q \in Payments
                                  /\ payments[q].status = "pending"
                                  /\ payments[q].provider = NoProvider
  BY DEF Superseded, PendingOf, InFlight
<1>2. kept \in [Payments -> PaymentRecord]
  BY MarkAllType DEF PaymentInv, PaymentStatuses
<1>3. CASE payments' = kept
  BY <1>1, <1>3, MarkedRows DEF PaymentInv
<1>4. ASSUME NEW p \in FreeRows,
             payments' = [kept EXCEPT ![p] = NewPayment(o, m, "none", 0)]
      PROVE  RowSteps
  <2>1. p \in Payments /\ payments[p].status = "none"
    BY DEF FreeRows
  <2>2. /\ payments'[p] = NewPayment(o, m, "none", 0)
        /\ \A q \in Payments \ {p} : payments'[q] = kept[q]
    BY <1>2, <1>4, <2>1
  <2>3. RowTaken(p)
    BY <2>1, <2>2 DEF RowTaken, NewPayment
  <2>4. ASSUME NEW q \in Payments \ {p} PROVE RowKept(q)
    <3>1. payments[q] \in PaymentRecord
      BY DEF PaymentInv, TypeOK
    <3>2. payments'[q] = IF q \in Superseded(o, m)
                         THEN [payments[q] EXCEPT !.status = "cancelled"] ELSE payments[q]
      BY <2>2 DEF MarkAll
    <3> QED BY <1>1, <3>1, <3>2 DEF RowKept, PaymentRecord
  <2> QED BY <2>3, <2>4 DEF RowSteps
<1> QED BY <1>3, <1>4 DEF SetMethod

LEMMA GetOrClaimRows ==
  ASSUME PaymentInv, NEW o \in Orders, NEW p \in Payments, GetOrClaim(o, p)
  PROVE  RowSteps
<1>1. CASE /\ p \in PendingCards(o)
           /\ payments' = [payments EXCEPT ![p].phase = "pre_provider",
                                           ![p].claimed = now, ![p].token = tokens + 1]
  <2>1. /\ payments'[p] = [payments[p] EXCEPT !.phase = "pre_provider",
                             !.claimed = now, !.token = tokens + 1]
        /\ \A q \in Payments \ {p} : payments'[q] = payments[q]
        /\ payments[p] \in PaymentRecord
        /\ payments[p].status = "pending"
    BY <1>1 DEF PaymentInv, TypeOK, PendingCards, PendingOf
  <2>2. RowKept(p)
    BY <2>1 DEF RowKept, PaymentRecord
  <2>3. \A q \in Payments \ {p} : RowKept(q)
    BY <2>1 DEF RowKept
  <2> QED BY <2>2, <2>3 DEF RowSteps
<1>2. CASE /\ p \in FreeRows
           /\ payments' = [payments EXCEPT
                             ![p] = NewPayment(o, "card", "pre_provider", tokens + 1)]
  <2>1. /\ payments'[p] = NewPayment(o, "card", "pre_provider", tokens + 1)
        /\ \A q \in Payments \ {p} : payments'[q] = payments[q]
        /\ payments[p].status = "none"
    BY <1>2 DEF FreeRows, PaymentInv, TypeOK
  <2>2. RowTaken(p)
    BY <2>1 DEF RowTaken, NewPayment
  <2>3. \A q \in Payments \ {p} : RowKept(q)
    BY <2>1 DEF RowKept
  <2> QED BY <2>2, <2>3 DEF RowSteps
<1> QED BY <1>1, <1>2 DEF GetOrClaim

LEMMA ClaimStepsRows ==
  ASSUME PaymentInv, NEW p \in Payments, NEW token,
         \/ MarkSubmitted(p, token)
         \/ ReleaseClaim(p, token)
         \/ \E x \in Providers : PersistProviderOrder(p, token, x)
  PROVE  RowSteps
<1>1. payments[p] \in PaymentRecord
  BY DEF PaymentInv, TypeOK
<1>2. payments[p].status = "pending" /\ payments[p].provider = NoProvider
  BY DEF MarkSubmitted, ReleaseClaim, PersistProviderOrder, HoldsClaim, MayPersist
<1>3. \A q \in Payments \ {p} : payments'[q] = payments[q]
  BY DEF MarkSubmitted, ReleaseClaim, PersistProviderOrder, PaymentInv, TypeOK
<1>4. \/ payments'[p] = [payments[p] EXCEPT !.phase = "provider_submitted"]
      \/ payments'[p] = [payments[p] EXCEPT !.phase = "none", !.token = 0]
      \/ \E x \in Providers : payments'[p] =
           [payments[p] EXCEPT !.provider = x, !.phase = "provider_persisted"]
  BY DEF MarkSubmitted, ReleaseClaim, PersistProviderOrder, PaymentInv, TypeOK
<1>5. RowKept(p)
  BY <1>1, <1>2, <1>4 DEF RowKept, PaymentRecord
<1>6. \A q \in Payments \ {p} : RowKept(q)
  BY <1>3 DEF RowKept
<1> QED BY <1>5, <1>6 DEF RowSteps

LEMMA PaymentsRows ==
  ASSUME PaymentInv,
         \/ \E x \in Providers : CallbackSuccess(x) \/ CallbackFailure(x)
         \/ \E o \in Orders : ConfirmCod(o)
  PROVE  RowSteps
  BY SettledRows DEF PaymentInv, CallbackSuccess, CallbackFailure, AcceptsCallback, ConfirmCod

LEMMA ProofStepsRows ==
  ASSUME PaymentInv, NEW f \in Proofs,
         \/ \E p \in Payments : UploadProof(f, p)
         \/ CheckPolicy(f)
         \/ InsertProof(f)
         \/ ApproveProof(f)
         \/ RejectProof(f)
  PROVE  RowSteps
<1>1. CASE CheckPolicy(f) \/ InsertProof(f) \/ \E p \in Payments : UploadProof(f, p)
  BY <1>1, SameRows DEF UploadProof, CheckPolicy, InsertProof
<1>2. CASE ApproveProof(f) \/ RejectProof(f)
  BY <1>2, SettledRows, RowFields DEF PaymentInv, ApproveProof, RejectProof, MayReview
<1> QED BY <1>1, <1>2

LEMMA ExpiryRows ==
  ASSUME PaymentInv, ExpireStaleInstapay \/ \E o \in Orders : ExpireOrder(o)
  PROVE  RowSteps
<1>1. CASE ExpireStaleInstapay
  <2>1. PICK swept \in SUBSET StaleInstapay : payments' = MarkAll(swept, "expired")
    BY <1>1 DEF ExpireStaleInstapay
  <2>2. \A q \in swept : payments[q].status = "pending"
    BY DEF StaleInstapay
  <2> QED BY <2>1, <2>2, MarkedRows DEF PaymentInv
<1>2. ASSUME NEW o \in Orders, ExpireOrder(o) PROVE RowSteps
  <2>1. payments' = MarkAll(PendingOf(o), "expired")
    BY <1>2 DEF ExpireOrder
  <2>2. \A q \in PendingOf(o) : payments[q].status = "pending"
    BY DEF PendingOf
  <2> QED BY <2>1, <2>2, MarkedRows DEF PaymentInv
<1> QED BY <1>1, <1>2

LEMMA EveryRowStep ==
  ASSUME PaymentInv, [Next]_vars
  PROVE  RowSteps
<1>1. CASE Tick \/ UNCHANGED vars
  BY <1>1, SameRows DEF Tick, vars
<1>2. ASSUME NEW o \in Orders, NEW s \in OrderStatuses, AdminUpdate(o, s) PROVE RowSteps
  BY <1>2, SameRows DEF AdminUpdate
<1> QED
  BY <1>1, <1>2, CreateOrderRows, SetMethodRows, GetOrClaimRows, ClaimStepsRows,
     PaymentsRows, ProofStepsRows, ExpiryRows DEF Next
-----------------------------------------------------------------------------
\* No reservation of this model is longer than the one of InstaPay.
LEMMA WindowBound == \A m \in Methods : Window(m) \in Nat /\ Window(m) <= InstapayWindow
  BY WindowsAssumption DEF Window

\* The functions that leave orders alone, pay one or cancel one start no window.
LEMMA SameOrders == ASSUME orders' = orders PROVE OrderSteps
  BY DEF OrderSteps, WindowKept, PromotedInTime

LEMMA PaidOrder ==
  ASSUME TypeOK, NEW o \in Orders, PayOrder(o),
         orders[o].method = "cod" \/ now < orders[o].expires
  PROVE  OrderSteps
<1>1. /\ orders'[o] = [orders[o] EXCEPT !.status = IF @ = "pending" THEN "paid" ELSE @]
      /\ \A a \in Orders \ {o} : orders'[a] = orders[a]
      /\ orders[o] \in OrderRecord
  BY DEF PayOrder, TypeOK
<1>2. WindowKept(o) /\ PromotedInTime(o)
  BY <1>1 DEF WindowKept, PromotedInTime, OrderRecord
<1>3. \A a \in Orders \ {o} : WindowKept(a) /\ PromotedInTime(a)
  BY <1>1 DEF WindowKept, PromotedInTime
<1> QED BY <1>2, <1>3 DEF OrderSteps

LEMMA CancelledOrder ==
  ASSUME TypeOK, NEW o \in Orders, CancelOrder(o)
  PROVE  OrderSteps
<1>1. /\ orders'[o] = [orders[o] EXCEPT !.status = "cancelled", !.restored = TRUE]
      /\ \A a \in Orders \ {o} : orders'[a] = orders[a]
      /\ orders[o] \in OrderRecord
  BY DEF CancelOrder, TypeOK
<1>2. WindowKept(o) /\ PromotedInTime(o)
  BY <1>1 DEF WindowKept, PromotedInTime, OrderRecord
<1>3. \A a \in Orders \ {o} : WindowKept(a) /\ PromotedInTime(a)
  BY <1>1 DEF WindowKept, PromotedInTime
<1> QED BY <1>2, <1>3 DEF OrderSteps

LEMMA AdminUpdateOrders ==
  ASSUME TypeOK, NEW o \in Orders, NEW s \in OrderStatuses, AdminUpdate(o, s)
  PROVE  OrderSteps
<1>1. CASE CancelOrder(o)
  BY <1>1, CancelledOrder
<1>2. CASE orders' = [orders EXCEPT ![o].status = s]
  <2>1. /\ orders'[o] = [orders[o] EXCEPT !.status = s]
        /\ \A a \in Orders \ {o} : orders'[a] = orders[a]
        /\ orders[o] \in OrderRecord
    BY <1>2 DEF TypeOK
  <2>2. s # "pending" /\ (s = "paid" => orders[o].status # "pending")
    BY DEF AdminUpdate, Transitions
  <2>3. WindowKept(o) /\ PromotedInTime(o)
    BY <2>1, <2>2 DEF WindowKept, PromotedInTime, OrderRecord
  <2>4. \A a \in Orders \ {o} : WindowKept(a) /\ PromotedInTime(a)
    BY <2>1 DEF WindowKept, PromotedInTime
  <2> QED BY <2>3, <2>4 DEF OrderSteps
<1> QED BY <1>1, <1>2 DEF AdminUpdate

LEMMA CreateOrderOrders ==
  ASSUME PaymentInv, NEW o \in Orders, NEW m \in Methods, CreateOrder(o, m)
  PROVE  OrderSteps
<1>1. /\ orders[o].status = "none"
      /\ orders'[o].status = "pending"
      /\ orders'[o].expires = now + Window(m)
      /\ \A a \in Orders \ {o} : orders'[a] = orders[a]
  BY DEF CreateOrder, PaymentInv, TypeOK
<1>2. PendingOf(o) = {}
  BY <1>1 DEF PaymentInv, UnplacedHaveNoPayment
<1>3. \A q \in Payments : \/ payments'[q] = payments[q]
                          \/ payments'[q].created = now
  <2>1. \A p \in FreeRows : p \in Payments
    BY DEF FreeRows
  <2> QED BY <2>1 DEF CreateOrder, NewPayment, PaymentInv, TypeOK
<1>4. now + Window(m) <= now + InstapayWindow
  BY WindowBound, WindowsAssumption DEF PaymentInv, TypeOK
<1>5. WindowNew(o)
  BY <1>1, <1>2, <1>3, <1>4 DEF WindowNew, PendingOf
<1>6. PromotedInTime(o)
  BY <1>1 DEF PromotedInTime
<1>7. \A a \in Orders \ {o} : WindowKept(a) /\ PromotedInTime(a)
  BY <1>1 DEF WindowKept, PromotedInTime
<1> QED BY <1>5, <1>6, <1>7 DEF OrderSteps

\* A row that survives a change of method is of the method the order already had.
LEMMA SetMethodOrders ==
  ASSUME PaymentInv, NEW o \in Orders, NEW m \in Methods, SetMethod(o, m)
  PROVE  OrderSteps
<1> USE DEF PaymentInv
<1>1. /\ orders[o].status = "pending"
      /\ orders'[o].status = "pending"
      /\ orders'[o].expires = IF Renews(o, m) THEN now + Window(m) ELSE orders[o].expires
      /\ \A a \in Orders \ {o} : orders'[a] = orders[a]
  BY DEF SetMethod, Renewable, Live, TypeOK, OrderRecord
<1>2. \A a \in Orders \ {o} : WindowKept(a) /\ PromotedInTime(a)
  BY <1>1 DEF WindowKept, PromotedInTime
<1>3. PromotedInTime(o)
  BY <1>1 DEF PromotedInTime
<1>4. CASE ~Renews(o, m)
  <2>1. WindowKept(o)
    BY <1>1, <1>4 DEF WindowKept
  <2> QED BY <1>2, <1>3, <2>1 DEF OrderSteps
<1>5. CASE Renews(o, m)
  <2>1. now + Window(m) <= now + InstapayWindow
    BY WindowBound, WindowsAssumption DEF TypeOK
  <2>2. \A q \in PendingOf(o) : payments[q].method = orders[o].method
    BY <1>1 DEF OnePendingPayment
  <2>3. \A q \in PendingOf(o) : payments[q].method = "card" \/ q \in Superseded(o, m)
    <3>1. \A q \in PendingOf(o) : InFlight(q) => payments[q].method = "card"
      BY RowFields DEF OnlyCardsClaimed, Claimed, InFlight, PendingOf
    <3> QED BY <1>5, <2>2, <3>1 DEF Superseded, Renews
  <2>4. \A q \in Payments : \/ payments'[q].created = now
                            \/ payments'[q] = payments[q] /\ q \notin Superseded(o, m)
                            \/ payments'[q].status = "cancelled"
    <3>1. /\ MarkAll(Superseded(o, m), "cancelled") \in [Payments -> PaymentRecord]
          /\ \A q \in Payments :
               \/ /\ q \notin Superseded(o, m)
                  /\ MarkAll(Superseded(o, m), "cancelled")[q] = payments[q]
               \/ MarkAll(Superseded(o, m), "cancelled")[q].status = "cancelled"
      <4>1. \A q \in Payments : [payments[q] EXCEPT !.status = "cancelled"].status = "cancelled"
        BY DEF TypeOK, PaymentRecord
      <4> QED BY <4>1, MarkAllType DEF MarkAll, PaymentStatuses
    <3> DEFINE kept == MarkAll(Superseded(o, m), "cancelled")
    <3>2. \/ payments' = kept
          \/ \E p \in Payments : payments' = [kept EXCEPT ![p] = NewPayment(o, m, "none", 0)]
      BY DEF SetMethod, FreeRows
    <3>3. NewPayment(o, m, "none", 0).created = now
      BY DEF NewPayment
    <3> HIDE DEF kept
    <3>4. \/ payments' = kept
          \/ \E p \in Payments :
               /\ payments'[p].created = now
               /\ \A q \in Payments \ {p} : payments'[q] = kept[q]
      <4>1. kept \in [Payments -> PaymentRecord]
        BY <3>1 DEF kept
      <4> QED BY <3>2, <3>3, <4>1
    <3> QED BY <3>1, <3>4 DEF kept
  <2>5. WindowNew(o)
    BY <1>1, <1>5, <2>1, <2>3, <2>4 DEF WindowNew, PendingOf
  <2> QED BY <1>2, <1>3, <2>5 DEF OrderSteps
<1> QED BY <1>4, <1>5

LEMMA CallbackOrders ==
  ASSUME PaymentInv, NEW x \in Providers, CallbackSuccess(x) \/ CallbackFailure(x)
  PROVE  OrderSteps
<1>1. CASE CallbackSuccess(x)
  <2>1. PICK p \in Payments : Live(payments[p].order) /\ PayOrder(payments[p].order)
    BY <1>1 DEF CallbackSuccess, AcceptsCallback
  <2> QED BY <2>1, RowFields, PaidOrder DEF PaymentInv, Live
<1>2. CASE CallbackFailure(x)
  BY <1>2, RowFields, CancelledOrder DEF PaymentInv, CallbackFailure
<1> QED BY <1>1, <1>2

LEMMA ProofStepsOrders ==
  ASSUME PaymentInv, NEW f \in Proofs,
         \/ \E p \in Payments : UploadProof(f, p)
         \/ CheckPolicy(f)
         \/ InsertProof(f)
         \/ ApproveProof(f)
         \/ RejectProof(f)
  PROVE  OrderSteps
<1>1. CASE ApproveProof(f)
  <2>1. /\ proofs[f].payment \in Payments
        /\ Live(payments[proofs[f].payment].order)
        /\ PayOrder(payments[proofs[f].payment].order)
    BY <1>1, RowFields DEF PaymentInv, ApproveProof, MayReview
  <2> QED BY <2>1, RowFields, PaidOrder DEF PaymentInv, Live
<1>2. CASE orders' = orders
  BY <1>2, SameOrders
<1> QED BY <1>1, <1>2 DEF UploadProof, CheckPolicy, InsertProof, RejectProof

LEMMA EveryOrderStep ==
  ASSUME PaymentInv, [Next]_vars
  PROVE  OrderSteps
<1>1. CASE Tick \/ UNCHANGED vars \/ ExpireStaleInstapay
  BY <1>1, SameOrders DEF Tick, vars, ExpireStaleInstapay
<1>2. ASSUME NEW o \in Orders, NEW p \in Payments, GetOrClaim(o, p) PROVE OrderSteps
  BY <1>2, SameOrders DEF GetOrClaim
<1>3. ASSUME NEW p \in Payments, NEW token,
             \/ MarkSubmitted(p, token)
             \/ ReleaseClaim(p, token)
             \/ \E x \in Providers : PersistProviderOrder(p, token, x)
      PROVE  OrderSteps
  BY <1>3, SameOrders DEF MarkSubmitted, ReleaseClaim, PersistProviderOrder
<1>4. ASSUME NEW o \in Orders, ConfirmCod(o) PROVE OrderSteps
  BY <1>4, PaidOrder DEF PaymentInv, ConfirmCod
<1>5. ASSUME NEW o \in Orders, ExpireOrder(o) PROVE OrderSteps
  BY <1>5, CancelledOrder DEF PaymentInv, ExpireOrder
<1>6. TypeOK
  BY DEF PaymentInv
<1> QED
  BY <1>1, <1>2, <1>3, <1>4, <1>5, <1>6, CreateOrderOrders, SetMethodOrders, CallbackOrders,
     ProofStepsOrders, AdminUpdateOrders DEF Next

-----------------------------------------------------------------------------
\* The clock does not run backwards.
LEMMA ClockForward == ASSUME PaymentInv, [Next]_vars PROVE now' \in Nat /\ now <= now'
<1>1. now' = now \/ now' = now + 1
  BY DEF Next, vars, Tick, CreateOrder, SetMethod, GetOrClaim, MarkSubmitted, ReleaseClaim,
         PersistProviderOrder, CallbackSuccess, CallbackFailure, ConfirmCod,
         UploadProof, CheckPolicy, InsertProof, ApproveProof, RejectProof, AdminUpdate, ExpireOrder,
         ExpireStaleInstapay
<1> QED BY <1>1 DEF PaymentInv, TypeOK

\* A reservation that is younger than an InstaPay row of the order does not exist, and
\* rows that are not in use name no order of the provider.
WindowInv ==
    /\ PaymentInv
    /\ \A o \in Orders : orders[o].expires <= now + InstapayWindow
    /\ \A p \in Payments :
         /\ payments[p].status = "pending"
         /\ payments[p].method = "instapay"
         /\ orders[payments[p].order].status = "pending"
         => orders[payments[p].order].expires <= payments[p].created + InstapayWindow
    /\ \A p \in Payments : payments[p].status = "none" => payments[p].provider = NoProvider

LEMMA WindowInvInit == Init => WindowInv
<1> SUFFICES ASSUME Init PROVE WindowInv
  OBVIOUS
<1>1. PaymentInv
  BY PaymentInvInit
<1>2. /\ now = 0
      /\ \A o \in Orders : orders[o].expires = 0
      /\ \A p \in Payments : payments[p].status = "none" /\ payments[p].provider = NoProvider
  BY DEF Init
<1> QED BY <1>1, <1>2, WindowsAssumption DEF WindowInv

LEMMA WindowInvStep == WindowInv /\ [Next]_vars => WindowInv'
<1> SUFFICES ASSUME WindowInv, [Next]_vars PROVE WindowInv'
  OBVIOUS
<1>1. PaymentInv /\ PaymentInv' /\ TypeOK /\ TypeOK'
  BY PaymentInvStep DEF WindowInv, PaymentInv
<1>2. RowSteps /\ OrderSteps /\ now' \in Nat /\ now <= now'
  BY <1>1, EveryRowStep, EveryOrderStep, ClockForward
<1>3. InstapayWindow \in Nat /\ now \in Nat
  BY <1>1, WindowsAssumption DEF TypeOK
<1>4. /\ \A o \in Orders : orders[o].expires \in Nat /\ orders'[o].expires \in Nat
      /\ \A p \in Payments : /\ payments[p].created \in Nat /\ payments'[p].created \in Nat
                             /\ payments[p].order \in Orders /\ payments'[p].order \in Orders
  BY <1>1 DEF TypeOK, OrderRecord, PaymentRecord
<1>5. ASSUME NEW o \in Orders PROVE orders'[o].expires <= now + InstapayWindow
  <2>1. CASE WindowKept(o)
    BY <2>1 DEF WindowKept, WindowInv
  <2>2. CASE WindowNew(o)
    BY <2>2 DEF WindowNew
  <2> QED BY <1>2, <2>1, <2>2 DEF OrderSteps
<1>6. \A o \in Orders : orders'[o].expires <= now' + InstapayWindow
  BY <1>2, <1>3, <1>4, <1>5
<1>7. ASSUME NEW p \in Payments,
             payments'[p].status = "pending", payments'[p].method = "instapay",
             orders'[payments'[p].order].status = "pending"
      PROVE  orders'[payments'[p].order].expires <= payments'[p].created + InstapayWindow
  <2> DEFINE o == payments'[p].order
  <2>1. CASE payments'[p].created = now
    BY <1>4, <1>5, <2>1
  <2>2. CASE RowKept(p) /\ WindowKept(o)
    <3>1. /\ payments[p].status = "pending" /\ payments[p].method = "instapay"
          /\ payments[p].order = o /\ payments[p].created = payments'[p].created
      BY <1>7, <2>2 DEF RowKept
    <3>2. orders[o].status = "pending" /\ orders[o].expires = orders'[o].expires
      BY <1>7, <2>2 DEF WindowKept
    <3> QED BY <3>1, <3>2 DEF WindowInv
  <2>3. CASE WindowNew(o)
    <3>1. payments'[p].created = now
      BY <1>7, <2>3 DEF WindowNew
    <3> QED BY <2>1, <3>1
  <2>4. CASE RowTaken(p)
    BY <2>1, <2>4 DEF RowTaken
  <2> QED BY <1>2, <1>4, <2>2, <2>3, <2>4 DEF RowSteps, OrderSteps
<1>8. \A p \in Payments : payments'[p].status = "none" => payments'[p].provider = NoProvider
  BY <1>2 DEF RowSteps, RowKept, RowTaken, WindowInv
<1> QED BY <1>1, <1>6, <1>7, <1>8 DEF WindowInv

\* The inductive invariant of the reservation windows.
THEOREM WindowInvariant == Spec => []WindowInv
<1> QED BY WindowInvInit, WindowInvStep, PTL DEF Spec

\* expire_stale_instapay_payments looks at the age of a row only, and yet never finds the
\* row of an order whose reservation still runs.
THEOREM SweepAlwaysSpares == Spec => []SweepSparesLiveOrders
<1>1. ASSUME WindowInv, NEW p \in StaleInstapay PROVE ~Live(payments[p].order)
  <2> DEFINE o == payments[p].order
  <2>1. /\ p \in Payments
        /\ payments[p].created + InstapayStale < now
        /\ orders[o].expires <= payments[p].created + InstapayWindow
    BY <1>1 DEF StaleInstapay, WindowInv
  <2>2. /\ orders[o].expires \in Nat /\ payments[p].created \in Nat /\ now \in Nat
    BY <1>1, <2>1 DEF WindowInv, PaymentInv, TypeOK, OrderRecord, PaymentRecord
  <2>3. InstapayWindow <= InstapayStale /\ InstapayWindow \in Nat /\ InstapayStale \in Nat
    BY WindowsAssumption
  <2> QED BY <2>1, <2>2, <2>3 DEF Live
<1>2. WindowInv => SweepSparesLiveOrders
  BY <1>1 DEF SweepSparesLiveOrders
<1> QED BY <1>2, WindowInvariant, PTL

PaidInTimeStep ==
    \A o \in Orders :
      orders[o].status = "pending" /\ orders'[o].status = "paid" =>
        orders[o].method = "cod" \/ now < orders[o].expires

\* No callback and no review pays an order whose reservation ran out, whether or not the
\* worker has cancelled it.
THEOREM LatePaymentsRefused == Spec => NoLatePayment
<1>1. ASSUME WindowInv, [Next]_vars PROVE [PaidInTimeStep]_vars
  BY <1>1, EveryOrderStep DEF WindowInv, OrderSteps, PromotedInTime, PaidInTimeStep
<1> QED BY <1>1, WindowInvariant, PTL DEF Spec, NoLatePayment, PaidInTimeStep

ProviderStep ==
    \A p \in Payments : payments[p].provider # NoProvider =>
      /\ payments'[p].provider = payments[p].provider
      /\ payments'[p].status = "cancelled" => payments[p].status = "cancelled"

\* A payment keeps the order the provider registered for it, and no change of method
\* cancels it afterwards.
THEOREM ProviderOrdersKept == Spec => ProviderOrderKept
<1>1. ASSUME WindowInv, [Next]_vars PROVE [ProviderStep]_vars
  BY <1>1, EveryRowStep DEF WindowInv, RowSteps, RowKept, RowTaken, ProviderStep
<1> QED BY <1>1, WindowInvariant, PTL DEF Spec, ProviderOrderKept, ProviderStep

-----------------------------------------------------------------------------
(* The InstaPay proofs: one per payment is reviewed, and that decides the payment. *)

ReviewOf(f, c, p) == proofs[f].outcome = c /\ proofs[f].payment = p

LEMMA ReviewRecords ==
  ASSUME TypeOK
  PROVE  \A f \in Proofs : \A c, p : proofs[f] = [outcome |-> c, payment |-> p] <=> ReviewOf(f, c, p)
  BY DEF TypeOK, ProofRecord, ReviewOf

\* The property with the records read field by field.
Decides ==
    \A p \in Payments : payments[p].method = "instapay" =>
      /\ \A f, g \in Reviewed(p) : f = g
      /\ payments[p].status = "success" <=> \E f \in Proofs : ReviewOf(f, "approved", p)
      /\ payments[p].status = "failed" <=> \E f \in Proofs : ReviewOf(f, "rejected", p)

\* A proof is of an InstaPay row in use, and a row was decided as its review says.
ReviewInv ==
    /\ PaymentInv
    /\ \A f \in Proofs : proofs[f].outcome # "absent" =>
         /\ payments[proofs[f].payment].method = "instapay"
         /\ payments[proofs[f].payment].status # "none"
    /\ \A f \in Proofs : /\ proofs[f].outcome = "approved" =>
                              payments[proofs[f].payment].status = "success"
                         /\ proofs[f].outcome = "rejected" =>
                              payments[proofs[f].payment].status = "failed"
    /\ Decides

LEMMA DecidesIs ==
  ASSUME TypeOK, Decides
  PROVE  ProofsDecidePayments
<1>1. \A p \in Payments, f \in Proofs :
        /\ proofs[f] = [outcome |-> "approved", payment |-> p] <=> ReviewOf(f, "approved", p)
        /\ proofs[f] = [outcome |-> "rejected", payment |-> p] <=> ReviewOf(f, "rejected", p)
  BY ReviewRecords
<1>2. \A p \in Payments :
        /\ (\E f \in Proofs : proofs[f] = [outcome |-> "approved", payment |-> p])
             <=> \E f \in Proofs : ReviewOf(f, "approved", p)
        /\ (\E f \in Proofs : proofs[f] = [outcome |-> "rejected", payment |-> p])
             <=> \E f \in Proofs : ReviewOf(f, "rejected", p)
  BY <1>1
<1> QED BY <1>2 DEF ProofsDecidePayments, Decides

LEMMA SettledStay ==
  ASSUME PaymentInv, [Next]_vars, NEW p \in Payments,
         payments[p].status \notin {"none", "pending"}
  PROVE  payments'[p] = payments[p]
<1>1. CASE Settling
  BY <1>1 DEF Settling
<1>2. CASE Inserts
  BY <1>2 DEF Inserts, Inserting, PendingOf
<1> QED BY <1>1, <1>2, StepKinds

\* no InstaPay row is decided
NoReview ==
    \A p \in Payments : payments'[p].method = "instapay" /\ payments'[p].status \in {"success", "failed"} =>
      payments'[p].status = payments[p].status

\* A step without a review leaves InstaPay rows undecided.
LEMMA NoReviewStep ==
  ASSUME ReviewInv, [Next]_vars, proofs' = proofs, NoReview
  PROVE  ReviewInv'
<1>1. PaymentInv /\ PaymentInv' /\ TypeOK /\ TypeOK' /\ RowSteps
  BY PaymentInvStep, EveryRowStep DEF ReviewInv, PaymentInv
<1>2. \A f \in Proofs : proofs[f].payment \in Payments
  BY <1>1 DEF TypeOK, ProofRecord
<1>3. \A p \in Payments : payments[p].status \in {"success", "failed"} => payments'[p] = payments[p]
  BY <1>1, SettledStay
<1>4. \A f \in Proofs : proofs[f].outcome # "absent" =>
        /\ payments'[proofs[f].payment].method = "instapay"
        /\ payments'[proofs[f].payment].status # "none"
  BY <1>1, <1>2 DEF ReviewInv, RowSteps, RowKept, RowTaken
<1>5. \A f \in Proofs : /\ proofs[f].outcome = "approved" =>
                             payments'[proofs[f].payment].status = "success"
                        /\ proofs[f].outcome = "rejected" =>
                             payments'[proofs[f].payment].status = "failed"
  BY <1>2, <1>3 DEF ReviewInv
<1>6. ASSUME NEW p \in Payments, payments'[p].method = "instapay"
      PROVE  /\ \A f, g \in Reviewed(p) : f = g
             /\ payments'[p].status = "success" <=> \E f \in Proofs : ReviewOf(f, "approved", p)
             /\ payments'[p].status = "failed" <=> \E f \in Proofs : ReviewOf(f, "rejected", p)
  <2>1. CASE payments[p].status = "none"
    <3>1. \A f \in Proofs : proofs[f].payment = p => proofs[f].outcome = "absent"
      BY <2>1 DEF ReviewInv
    <3>2. payments'[p].status \notin {"success", "failed"}
      BY <1>6, <2>1 DEF NoReview
    <3> QED BY <3>1, <3>2 DEF Reviewed, ReviewOf
  <2>2. CASE payments[p].status # "none"
    <3>1. payments[p].method = "instapay"
      BY <1>1, <1>6, <2>2 DEF RowSteps, RowKept, RowTaken
    <3>2. /\ payments'[p].status = "success" <=> payments[p].status = "success"
          /\ payments'[p].status = "failed" <=> payments[p].status = "failed"
      BY <1>3, <1>6 DEF NoReview
    <3>3. Decides
      BY DEF ReviewInv
    <3> QED BY <3>1, <3>2, <3>3 DEF Decides
  <2> QED BY <2>1, <2>2
<1>7. Decides'
  BY <1>6 DEF Decides, Reviewed, ReviewOf
<1> QED BY <1>1, <1>4, <1>5, <1>7 DEF ReviewInv

\* The upload of a file, the policy of its row, and the row in the table.
LEMMA ReviewSubmitStep ==
  ASSUME ReviewInv, [Next]_vars, NEW f \in Proofs,
         CheckPolicy(f) \/ InsertProof(f) \/ \E p \in Payments : UploadProof(f, p)
  PROVE  ReviewInv'
<1>1. PaymentInv /\ PaymentInv' /\ TypeOK /\ payments' = payments
  BY PaymentInvStep DEF ReviewInv, PaymentInv, CheckPolicy, InsertProof, UploadProof
<1>2. proofs \in [Proofs -> ProofRecord] /\ proofs[f] \in ProofRecord
  BY <1>1 DEF TypeOK
<1>3. CASE CheckPolicy(f) \/ InsertProof(f)
  <2>1. PICK c \in {"uploaded", "checked", "open"} :
          /\ proofs'[f] = [proofs[f] EXCEPT !.outcome = c]
          /\ \A g \in Proofs \ {f} : proofs'[g] = proofs[g]
    BY <1>2, <1>3 DEF CheckPolicy, InsertProof
  <2>2. proofs'[f].outcome = c /\ proofs'[f].payment = proofs[f].payment
    BY <1>2, <2>1 DEF ProofRecord
  <2>3. proofs[f].outcome \in {"uploaded", "checked"}
    BY <1>3 DEF CheckPolicy, InsertProof
  <2>4. ASSUME NEW g \in Proofs
        PROVE  /\ proofs'[g].payment = proofs[g].payment
               /\ proofs'[g].outcome # "absent" => proofs[g].outcome # "absent"
               /\ \A d \in {"approved", "rejected"} :
                    proofs'[g].outcome = d <=> proofs[g].outcome = d
    BY <2>1, <2>2, <2>3
  <2>5. \A q \in Payments : Reviewed(q)' = Reviewed(q)
    BY <2>4 DEF Reviewed
  <2>6. \A q \in Payments, d \in {"approved", "rejected"} :
          (\E g \in Proofs : ReviewOf(g, d, q))' <=> \E g \in Proofs : ReviewOf(g, d, q)
    BY <2>4 DEF ReviewOf
  <2>7. Decides'
    BY <1>1, <2>5, <2>6 DEF ReviewInv, Decides
  <2> QED BY <1>1, <2>4, <2>7 DEF ReviewInv
<1>4. ASSUME NEW p \in Payments, UploadProof(f, p) PROVE ReviewInv'
  <2>1. /\ proofs'[f] = [outcome |-> "uploaded", payment |-> p]
        /\ \A g \in Proofs \ {f} : proofs'[g] = proofs[g]
        /\ proofs[f].outcome = "absent"
        /\ payments[p].status = "pending" /\ payments[p].method = "instapay"
    BY <1>2, <1>4 DEF UploadProof
  <2>2. proofs'[f].outcome = "uploaded" /\ proofs'[f].payment = p
    BY <2>1
  <2>3. \A q \in Payments : Reviewed(q)' = Reviewed(q)
    BY <2>1, <2>2 DEF Reviewed
  <2>4. \A q \in Payments, c \in {"approved", "rejected"} :
          (\E g \in Proofs : ReviewOf(g, c, q))' <=> \E g \in Proofs : ReviewOf(g, c, q)
    BY <2>1, <2>2 DEF ReviewOf
  <2>5. Decides'
    BY <1>1, <2>3, <2>4 DEF ReviewInv, Decides
  <2> QED BY <1>1, <2>1, <2>2, <2>5 DEF ReviewInv
<1> QED BY <1>3, <1>4

\* The review of an open proof decides its row.
LEMMA ReviewStep ==
  ASSUME ReviewInv, [Next]_vars, NEW f \in Proofs, ApproveProof(f) \/ RejectProof(f)
  PROVE  ReviewInv'
<1>1. PaymentInv /\ PaymentInv' /\ TypeOK /\ TypeOK'
  BY PaymentInvStep DEF ReviewInv, PaymentInv
<1>2. proofs \in [Proofs -> ProofRecord] /\ proofs[f] \in ProofRecord
      /\ payments \in [Payments -> PaymentRecord]
  BY <1>1 DEF TypeOK
<1>3. PICK p \in Payments : p = proofs[f].payment
  BY <1>2 DEF ProofRecord
<1>4. PICK c \in {"approved", "rejected"}, s \in {"success", "failed"} :
        /\ c = "approved" <=> s = "success"
        /\ payments' = [payments EXCEPT ![p].status = s]
        /\ proofs' = [proofs EXCEPT ![f].outcome = c]
  BY <1>3 DEF ApproveProof, RejectProof
<1>5. /\ proofs[f].outcome = "open" /\ payments[p].status = "pending"
  BY <1>3 DEF ApproveProof, RejectProof, MayReview
<1>6. /\ proofs'[f] = [proofs[f] EXCEPT !.outcome = c]
      /\ \A g \in Proofs \ {f} : proofs'[g] = proofs[g]
  BY <1>2, <1>4
<1>7. proofs'[f].outcome = c /\ proofs'[f].payment = p
  BY <1>2, <1>3, <1>6 DEF ProofRecord
<1>8. /\ payments'[p] = [payments[p] EXCEPT !.status = s]
      /\ \A q \in Payments \ {p} : payments'[q] = payments[q]
  BY <1>2, <1>4
<1>9. payments'[p].status = s /\ payments'[p].method = payments[p].method
  <2>1. payments[p] \in PaymentRecord
    BY <1>2
  <2> QED BY <1>8, <2>1 DEF PaymentRecord
<1>10. payments[p].method = "instapay"
  BY <1>3, <1>5 DEF ReviewInv
<1>11. \A g \in Proofs : proofs[g].payment = p /\ proofs[g].outcome \in {"approved", "rejected"} => FALSE
  BY <1>5 DEF ReviewInv
<1>12. Reviewed(p)' \subseteq {f}
  BY <1>3, <1>6, <1>7, <1>11 DEF Reviewed
<1>13. \A q \in Payments \ {p} : Reviewed(q)' = Reviewed(q)
  BY <1>3, <1>6, <1>7 DEF Reviewed
<1>14. \A q \in Payments \ {p}, d \in {"approved", "rejected"} :
         (\E g \in Proofs : ReviewOf(g, d, q))' <=> \E g \in Proofs : ReviewOf(g, d, q)
  BY <1>3, <1>6, <1>7 DEF ReviewOf
<1>15. \A d \in {"approved", "rejected"} : (\E g \in Proofs : ReviewOf(g, d, p))' <=> d = c
  BY <1>6, <1>7, <1>11 DEF ReviewOf
<1>16. Decides'
  <2> SUFFICES ASSUME NEW q \in Payments, payments'[q].method = "instapay"
               PROVE  /\ \A g, h \in Reviewed(q)' : g = h
                      /\ payments'[q].status = "success" <=> (\E g \in Proofs : ReviewOf(g, "approved", q))'
                      /\ payments'[q].status = "failed" <=> (\E g \in Proofs : ReviewOf(g, "rejected", q))'
    BY DEF Decides
  <2>1. CASE q = p
    BY <1>4, <1>9, <1>12, <1>15, <2>1
  <2>2. CASE q # p
    BY <1>8, <1>13, <1>14, <2>2 DEF ReviewInv, Decides
  <2> QED BY <2>1, <2>2
<1>17. \A g \in Proofs : proofs'[g].outcome # "absent" =>
         /\ payments'[proofs'[g].payment].method = "instapay"
         /\ payments'[proofs'[g].payment].status # "none"
  <2>1. \A g \in Proofs \ {f} : proofs[g].payment \in Payments
    BY <1>2 DEF ProofRecord
  <2>2. ASSUME NEW g \in Proofs \ {f}, proofs[g].outcome # "absent"
        PROVE  /\ payments'[proofs[g].payment].method = "instapay"
               /\ payments'[proofs[g].payment].status # "none"
    <3>1. CASE proofs[g].payment = p
      BY <1>9, <1>10, <3>1
    <3>2. CASE proofs[g].payment # p
      BY <1>8, <2>1, <2>2, <3>2 DEF ReviewInv
    <3> QED BY <3>1, <3>2
  <2>3. /\ payments'[proofs'[f].payment].method = "instapay"
        /\ payments'[proofs'[f].payment].status # "none"
    BY <1>7, <1>9, <1>10
  <2> QED BY <1>6, <2>2, <2>3
<1>18. \A g \in Proofs : /\ proofs'[g].outcome = "approved" =>
                              payments'[proofs'[g].payment].status = "success"
                         /\ proofs'[g].outcome = "rejected" =>
                              payments'[proofs'[g].payment].status = "failed"
  <2>1. \A g \in Proofs \ {f} : proofs[g].payment \in Payments
    BY <1>2 DEF ProofRecord
  <2> QED BY <1>4, <1>6, <1>7, <1>8, <1>9, <1>11, <2>1 DEF ReviewInv
<1> QED BY <1>1, <1>16, <1>17, <1>18 DEF ReviewInv

\* The functions that put an order's row into the table decide nothing.
LEMMA OrderingDecidesNothing ==
  ASSUME TypeOK, NEW o \in Orders, NEW m \in Methods, CreateOrder(o, m) \/ SetMethod(o, m),
         NEW p \in Payments, payments'[p].status \in {"success", "failed"}
  PROVE  payments'[p].status = payments[p].status
<1>1. CASE CreateOrder(o, m)
  BY <1>1 DEF CreateOrder, NewPayment, FreeRows, TypeOK
<1>2. CASE SetMethod(o, m)
  <2> DEFINE kept == MarkAll(Superseded(o, m), "cancelled")
  <2>1. kept \in [Payments -> PaymentRecord]
    BY MarkAllType DEF PaymentStatuses
  <2>2. payments[p] \in PaymentRecord
    BY DEF TypeOK
  <2>3. kept[p].status = "cancelled" \/ kept[p] = payments[p]
    BY <2>2 DEF MarkAll, PaymentRecord
  <2>4. payments'[p].status = "pending" \/ payments'[p] = kept[p]
    BY <1>2, <2>1 DEF SetMethod, FreeRows, NewPayment
  <2> QED BY <2>3, <2>4
<1> QED BY <1>1, <1>2

\* So do the functions of a claim, and expiry.
LEMMA ClaimsDecideNothing ==
  ASSUME TypeOK, NEW p \in Payments, NEW token,
         \/ MarkSubmitted(p, token)
         \/ ReleaseClaim(p, token)
         \/ \E x \in Providers : PersistProviderOrder(p, token, x)
         \/ \E o \in Orders : GetOrClaim(o, p),
         NEW q \in Payments, payments'[q].status \in {"success", "failed"}
  PROVE  payments'[q].status = payments[q].status
<1>1. payments \in [Payments -> PaymentRecord] /\ payments[p] \in PaymentRecord
  BY DEF TypeOK
<1>2. CASE MarkSubmitted(p, token)
  BY <1>1, <1>2 DEF MarkSubmitted, PaymentRecord
<1>3. CASE ReleaseClaim(p, token)
  BY <1>1, <1>3 DEF ReleaseClaim, PaymentRecord
<1>4. CASE \E x \in Providers : PersistProviderOrder(p, token, x)
  <2>1. PICK x \in Providers :
          payments' = [payments EXCEPT ![p].provider = x, ![p].phase = "provider_persisted"]
    BY <1>4 DEF PersistProviderOrder
  <2>2. /\ payments'[p] = [payments[p] EXCEPT !.provider = x, !.phase = "provider_persisted"]
        /\ q # p => payments'[q] = payments[q]
    BY <1>1, <2>1
  <2>3. payments'[p].status = payments[p].status
    BY <1>1, <2>2 DEF PaymentRecord
  <2> QED BY <2>2, <2>3
<1>5. CASE \E o \in Orders : GetOrClaim(o, p)
  BY <1>1, <1>5 DEF GetOrClaim, NewPayment, PaymentRecord
<1> QED BY <1>2, <1>3, <1>4, <1>5

LEMMA ExpiryDecidesNothing ==
  ASSUME TypeOK, ExpireStaleInstapay \/ \E o \in Orders : ExpireOrder(o),
         NEW q \in Payments, payments'[q].status \in {"success", "failed"}
  PROVE  payments'[q].status = payments[q].status
<1>1. PICK ps : payments' = MarkAll(ps, "expired")
  BY DEF ExpireStaleInstapay, ExpireOrder
<1>2. payments[q] \in PaymentRecord
  BY DEF TypeOK
<1> QED BY <1>1, <1>2 DEF MarkAll, PaymentRecord

\* The provider's results and the cash of a courier decide rows of other methods.
LEMMA PaymentsDecideOthers ==
  ASSUME PaymentInv,
         \/ \E x \in Providers : CallbackSuccess(x) \/ CallbackFailure(x)
         \/ \E o \in Orders : ConfirmCod(o),
         NEW q \in Payments, payments'[q].method = "instapay"
  PROVE  payments'[q] = payments[q]
<1>1. payments \in [Payments -> PaymentRecord]
  BY DEF PaymentInv, TypeOK
<1>2. ASSUME NEW p \in Payments, NEW s \in {"success", "failed"}, payments[p].method # "instapay",
             payments' = [payments EXCEPT ![p].status = s]
      PROVE  payments'[q] = payments[q]
  <2>1. payments'[p] = [payments[p] EXCEPT !.status = s] /\ payments[p] \in PaymentRecord
    BY <1>1, <1>2
  <2>2. payments'[p].method = payments[p].method
    BY <2>1 DEF PaymentRecord
  <2> QED BY <1>1, <1>2, <2>2
<1>3. \A p \in Payments : payments[p].provider \in Providers => payments[p].method = "card"
  BY NullAssumption DEF PaymentInv, OnlyCardsClaimed, Claimed
<1>4. ASSUME NEW x \in Providers, CallbackSuccess(x) PROVE payments'[q] = payments[q]
  BY <1>2, <1>3, <1>4 DEF CallbackSuccess
<1>5. ASSUME NEW x \in Providers, CallbackFailure(x) PROVE payments'[q] = payments[q]
  BY <1>2, <1>3, <1>5 DEF CallbackFailure
<1>6. ASSUME NEW o \in Orders, ConfirmCod(o) PROVE payments'[q] = payments[q]
  BY <1>2, <1>6 DEF ConfirmCod
<1> QED BY <1>4, <1>5, <1>6

ProofStep(f) ==
    \/ \E p \in Payments : UploadProof(f, p)
    \/ CheckPolicy(f) \/ InsertProof(f)
    \/ ApproveProof(f) \/ RejectProof(f)

\* Only the steps of a proof decide an InstaPay row.
LEMMA OthersReviewNothing ==
  ASSUME ReviewInv, [Next]_vars, ~\E f \in Proofs : ProofStep(f)
  PROVE  proofs' = proofs /\ NoReview
<1> USE DEF NoReview
<1>1. PaymentInv /\ TypeOK
  BY DEF ReviewInv, PaymentInv
<1>2. CASE Tick \/ UNCHANGED vars
  BY <1>2 DEF Tick, vars
<1>3. ASSUME NEW o \in Orders, NEW m \in Methods, CreateOrder(o, m) \/ SetMethod(o, m)
      PROVE  proofs' = proofs /\ NoReview
  <2>1. proofs' = proofs
    BY <1>3 DEF CreateOrder, SetMethod
  <2> QED BY <1>1, <1>3, <2>1, OrderingDecidesNothing
<1>4. ASSUME NEW p \in Payments, NEW token,
             \/ MarkSubmitted(p, token)
             \/ ReleaseClaim(p, token)
             \/ \E x \in Providers : PersistProviderOrder(p, token, x)
             \/ \E o \in Orders : GetOrClaim(o, p)
      PROVE  proofs' = proofs /\ NoReview
  <2>1. proofs' = proofs
    BY <1>4 DEF MarkSubmitted, ReleaseClaim, PersistProviderOrder, GetOrClaim
  <2> QED BY <1>1, <1>4, <2>1, ClaimsDecideNothing
<1>5. CASE ExpireStaleInstapay \/ \E o \in Orders : ExpireOrder(o)
  <2>1. proofs' = proofs
    BY <1>5 DEF ExpireStaleInstapay, ExpireOrder
  <2> QED BY <1>1, <1>5, <2>1, ExpiryDecidesNothing
<1>6. CASE \/ \E x \in Providers : CallbackSuccess(x) \/ CallbackFailure(x)
           \/ \E o \in Orders : ConfirmCod(o)
  <2>1. proofs' = proofs
    BY <1>6 DEF CallbackSuccess, CallbackFailure, ConfirmCod
  <2> QED BY <1>1, <1>6, <2>1, PaymentsDecideOthers
<1>7. ASSUME NEW o \in Orders, NEW s \in OrderStatuses, AdminUpdate(o, s)
      PROVE  proofs' = proofs /\ NoReview
  BY <1>7 DEF AdminUpdate
<1> QED BY <1>2, <1>3, <1>4, <1>5, <1>6, <1>7 DEF Next, ProofStep

-----------------------------------------------------------------------------
LEMMA ReviewInvInit == Init => ReviewInv
<1> SUFFICES ASSUME Init PROVE ReviewInv
  OBVIOUS
<1>1. PaymentInv
  BY PaymentInvInit
<1>2. /\ \A p \in Payments : payments[p].status = "none"
      /\ \A f \in Proofs : proofs[f].outcome = "absent"
  BY DEF Init
<1> QED BY <1>1, <1>2 DEF ReviewInv, Decides, Reviewed, ReviewOf

LEMMA ReviewInvStep == ReviewInv /\ [Next]_vars => ReviewInv'
<1> SUFFICES ASSUME ReviewInv, [Next]_vars PROVE ReviewInv'
  OBVIOUS
<1>1. CASE ~\E f \in Proofs : ProofStep(f)
  BY <1>1, OthersReviewNothing, NoReviewStep
<1>2. ASSUME NEW f \in Proofs, ProofStep(f) PROVE ReviewInv'
  BY <1>2, ReviewSubmitStep, ReviewStep DEF ProofStep
<1> QED BY <1>1, <1>2

\* The inductive invariant of the transfer proofs.
THEOREM ReviewInvariant == Spec => []ReviewInv
<1> QED BY ReviewInvInit, ReviewInvStep, PTL DEF Spec

\* review_instapay_proof alone decides an InstaPay payment, on the one proof of it
\* that it ever accepts, whatever else instapay-submit-proof entered meanwhile.
THEOREM ReviewsAlwaysDecide == Spec => []ProofsDecidePayments
<1>1. ReviewInv => ProofsDecidePayments
  BY DecidesIs DEF ReviewInv, PaymentInv
<1> QED BY <1>1, ReviewInvariant, PTL
=============================================================================
