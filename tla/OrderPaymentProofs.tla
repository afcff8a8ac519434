------------------------- MODULE OrderPaymentProofs -------------------------
(***************************************************************************)
(* What TLAPS proves about OrderPayment, for every set of orders, payment  *)
(* rows, provider orders and proofs, and every value of the windows.       *)
(***************************************************************************)
EXTENDS OrderPayment, FiniteSetTheorems, TLAPS

-----------------------------------------------------------------------------
(* Rows stay rows: what the UPDATE statements of the functions do to them. *)

LEMMA OrderUpdates ==
  ASSUME NEW r \in OrderRecord
  PROVE  /\ \A s \in OrderStatuses : [r EXCEPT !.status = s] \in OrderRecord
         /\ [r EXCEPT !.status = "cancelled", !.restored = TRUE] \in OrderRecord
         /\ \A m \in Methods, t \in Nat :
              [r EXCEPT !.method = m, !.expires = t] \in OrderRecord
  BY DEF OrderRecord, OrderStatuses

LEMMA PaymentUpdates ==
  ASSUME NEW r \in PaymentRecord
  PROVE  /\ \A s \in PaymentStatuses : [r EXCEPT !.status = s] \in PaymentRecord
         /\ \A ph \in Phases : [r EXCEPT !.phase = ph] \in PaymentRecord
         /\ [r EXCEPT !.phase = "none", !.token = 0] \in PaymentRecord
         /\ \A x \in Providers :
              [r EXCEPT !.provider = x, !.phase = "provider_persisted"] \in PaymentRecord
         /\ \A c, t \in Nat :
              [r EXCEPT !.phase = "pre_provider", !.claimed = c, !.token = t]
                \in PaymentRecord
  BY DEF PaymentRecord, Phases

LEMMA NewPaymentRecord ==
  ASSUME TypeOK, NEW o \in Orders, NEW m \in Methods, NEW ph \in Phases, NEW t \in Nat
  PROVE  NewPayment(o, m, ph, t) \in PaymentRecord
  BY DEF TypeOK, NewPayment, PaymentRecord, PaymentStatuses

LEMMA RowFields ==
  ASSUME TypeOK
  PROVE  /\ \A o \in Orders : /\ orders[o].status \in OrderStatuses
                              /\ orders[o].method \in Methods
                              /\ orders[o].expires \in Nat
         /\ \A p \in Payments : /\ payments[p].order \in Orders
                                /\ payments[p].status \in PaymentStatuses
                                /\ payments[p].method \in Methods
                                /\ payments[p].phase \in Phases
                                /\ payments[p].token \in Nat
         /\ \A f \in Proofs : proofs[f].payment \in Payments
  BY DEF TypeOK, OrderRecord, PaymentRecord, ProofRecord

LEMMA MarkAllType ==
  ASSUME TypeOK, NEW ps, NEW s \in PaymentStatuses
  PROVE  MarkAll(ps, s) \in [Payments -> PaymentRecord]
  BY PaymentUpdates DEF MarkAll, TypeOK

LEMMA SettledRecords ==
  ASSUME TypeOK
  PROVE  \A p \in Payments :
           /\ [payments[p] EXCEPT !.status = "success"] \in PaymentRecord
           /\ [payments[p] EXCEPT !.status = "failed"] \in PaymentRecord
  BY PaymentUpdates DEF TypeOK, PaymentStatuses

LEMMA PayOrderType ==
  ASSUME TypeOK, NEW o \in Orders, PayOrder(o)
  PROVE  orders' \in [Orders -> OrderRecord]
<1>1. [orders[o] EXCEPT !.status = IF @ = "pending" THEN "paid" ELSE @] \in OrderRecord
  BY OrderUpdates, RowFields DEF TypeOK, OrderStatuses
<1> QED BY <1>1 DEF PayOrder, TypeOK

LEMMA CancelOrderType ==
  ASSUME TypeOK, NEW o \in Orders, CancelOrder(o)
  PROVE  /\ orders' \in [Orders -> OrderRecord]
         /\ stock' \in [Variants -> Nat]
<1>1. orders' \in [Orders -> OrderRecord]
  BY OrderUpdates DEF CancelOrder, TypeOK
<1>2. \A v \in Variants : stock[v] \in Nat /\ Quantity[o][v] \in Nat
  BY LinesAssumption DEF TypeOK
<1>3. GiveBack(o) \in [Variants -> Nat]
  BY <1>2 DEF GiveBack
<1> QED BY <1>1, <1>3 DEF CancelOrder, TypeOK

LEMMA WindowType == \A m \in Methods : Window(m) \in Nat
  BY WindowsAssumption DEF Window

-----------------------------------------------------------------------------
(* Type correctness, action by action. *)

LEMMA CreateOrderType ==
  ASSUME TypeOK, NEW o \in Orders, NEW m \in Methods, CreateOrder(o, m)
  PROVE  TypeOK'
<1>1. orders' \in [Orders -> OrderRecord]
  <2>1. now + Window(m) \in Nat
    BY WindowType DEF TypeOK
  <2>2. [status |-> "pending", method |-> m, expires |-> now + Window(m),
         restored |-> FALSE] \in OrderRecord
    BY <2>1 DEF OrderRecord, OrderStatuses
  <2> QED BY <2>2 DEF TypeOK, CreateOrder
<1>2. payments' \in [Payments -> PaymentRecord]
  <2>1. NewPayment(o, "cod", "none", 0) \in PaymentRecord
    BY NewPaymentRecord DEF Methods, Phases
  <2> QED BY <2>1 DEF TypeOK, CreateOrder, FreeRows
<1>3. stock' \in [Variants -> Nat]
  <2>1. \A v \in Variants : stock[v] \in Nat /\ Need[o][v] \in Nat /\ Need[o][v] <= stock[v]
    BY LinesAssumption DEF TypeOK, CreateOrder
  <2>2. \A v \in Variants : stock[v] - Need[o][v] \in Nat
    BY <2>1
  <2> QED BY <2>2 DEF CreateOrder
<1> QED BY <1>1, <1>2, <1>3 DEF TypeOK, CreateOrder

LEMMA SetMethodType ==
  ASSUME TypeOK, NEW o \in Orders, NEW m \in Methods, SetMethod(o, m)
  PROVE  TypeOK'
<1>1. orders' \in [Orders -> OrderRecord]
  <2>1. (IF Renews(o, m) THEN now + Window(m) ELSE orders[o].expires) \in Nat
    BY WindowType, RowFields DEF TypeOK
  <2>2. [orders[o] EXCEPT !.method = m,
           !.expires = IF Renews(o, m) THEN now + Window(m) ELSE @] \in OrderRecord
    BY <2>1, OrderUpdates DEF TypeOK
  <2> QED BY <2>2 DEF TypeOK, SetMethod
<1>2. payments' \in [Payments -> PaymentRecord]
  <2>1. MarkAll(Superseded(o, m), "cancelled") \in [Payments -> PaymentRecord]
    BY MarkAllType DEF PaymentStatuses
  <2>2. NewPayment(o, m, "none", 0) \in PaymentRecord
    BY NewPaymentRecord DEF Phases
  <2> QED BY <2>1, <2>2 DEF SetMethod, FreeRows
<1> QED BY <1>1, <1>2 DEF TypeOK, SetMethod

LEMMA GetOrClaimType ==
  ASSUME TypeOK, NEW o \in Orders, NEW p \in Payments, GetOrClaim(o, p)
  PROVE  TypeOK'
<1>1. tokens + 1 \in Nat
  BY DEF TypeOK
<1>2. NewPayment(o, "card", "pre_provider", tokens + 1) \in PaymentRecord
  BY <1>1, NewPaymentRecord DEF Methods, Phases
<1>3. [payments[p] EXCEPT !.phase = "pre_provider", !.claimed = now,
                          !.token = tokens + 1] \in PaymentRecord
  BY <1>1, PaymentUpdates DEF TypeOK
<1>4. payments' \in [Payments -> PaymentRecord]
  BY <1>2, <1>3 DEF TypeOK, GetOrClaim
<1> QED BY <1>1, <1>4 DEF TypeOK, GetOrClaim

LEMMA ClaimStepsType ==
  ASSUME TypeOK, NEW p \in Payments, NEW token,
         \/ MarkSubmitted(p, token)
         \/ ReleaseClaim(p, token)
         \/ \E x \in Providers : PersistProviderOrder(p, token, x)
  PROVE  TypeOK'
<1>1. /\ [payments[p] EXCEPT !.phase = "provider_submitted"] \in PaymentRecord
      /\ [payments[p] EXCEPT !.phase = "none", !.token = 0] \in PaymentRecord
      /\ \A x \in Providers :
           [payments[p] EXCEPT !.provider = x, !.phase = "provider_persisted"]
             \in PaymentRecord
  BY PaymentUpdates DEF TypeOK, Phases
<1>2. payments' \in [Payments -> PaymentRecord]
  BY <1>1 DEF TypeOK, MarkSubmitted, ReleaseClaim, PersistProviderOrder
<1> QED BY <1>2 DEF TypeOK, MarkSubmitted, ReleaseClaim, PersistProviderOrder

LEMMA CallbackType ==
  ASSUME TypeOK, NEW x \in Providers, CallbackSuccess(x) \/ CallbackFailure(x)
  PROVE  TypeOK'
<1>1. CASE CallbackSuccess(x)
  <2>1. PICK p \in Payments :
          /\ payments' = [payments EXCEPT ![p].status = "success"]
          /\ PayOrder(payments[p].order)
    BY <1>1 DEF CallbackSuccess
  <2>2. payments' \in [Payments -> PaymentRecord]
    BY <2>1, SettledRecords DEF TypeOK
  <2>3. orders' \in [Orders -> OrderRecord]
    BY <2>1, RowFields, PayOrderType
  <2> QED BY <1>1, <2>2, <2>3 DEF TypeOK, CallbackSuccess
<1>2. CASE CallbackFailure(x)
  <2>1. PICK p \in Payments :
          /\ payments' = [payments EXCEPT ![p].status = "failed"]
          /\ CancelOrder(payments[p].order)
    BY <1>2 DEF CallbackFailure
  <2>2. payments' \in [Payments -> PaymentRecord]
    BY <2>1, SettledRecords DEF TypeOK
  <2>3. orders' \in [Orders -> OrderRecord] /\ stock' \in [Variants -> Nat]
    BY <2>1, RowFields, CancelOrderType
  <2> QED BY <1>2, <2>2, <2>3 DEF TypeOK, CallbackFailure
<1> QED BY <1>1, <1>2

LEMMA ConfirmCodType ==
  ASSUME TypeOK, NEW o \in Orders, ConfirmCod(o)
  PROVE  TypeOK'
<1>1. orders' \in [Orders -> OrderRecord]
  BY PayOrderType DEF ConfirmCod
<1>2. payments' \in [Payments -> PaymentRecord]
  BY SettledRecords DEF TypeOK, ConfirmCod
<1> QED BY <1>1, <1>2 DEF TypeOK, ConfirmCod

LEMMA ProofStepsType ==
  ASSUME TypeOK, NEW f \in Proofs,
         \/ \E p \in Payments : UploadProof(f, p)
         \/ CheckPolicy(f)
         \/ InsertProof(f)
         \/ ApproveProof(f)
         \/ RejectProof(f)
  PROVE  TypeOK'
<1>1. \A c \in Outcomes : [proofs[f] EXCEPT !.outcome = c] \in ProofRecord
  BY DEF TypeOK, ProofRecord
<1>2. \A p \in Payments : [outcome |-> "uploaded", payment |-> p] \in ProofRecord
  BY DEF ProofRecord, Outcomes
<1>3. {"uploaded", "checked", "open", "approved", "rejected"} \subseteq Outcomes
  BY DEF Outcomes
<1>4. proofs' \in [Proofs -> ProofRecord]
  BY <1>1, <1>2, <1>3 DEF TypeOK, UploadProof, CheckPolicy, InsertProof, ApproveProof, RejectProof
<1>5. payments' \in [Payments -> PaymentRecord]
  BY SettledRecords, RowFields
     DEF TypeOK, UploadProof, CheckPolicy, InsertProof, ApproveProof, RejectProof
<1>6. orders' \in [Orders -> OrderRecord]
  BY PayOrderType, RowFields
     DEF TypeOK, UploadProof, CheckPolicy, InsertProof, ApproveProof, RejectProof
<1> QED
  BY <1>4, <1>5, <1>6 DEF TypeOK, UploadProof, CheckPolicy, InsertProof, ApproveProof, RejectProof

LEMMA AdminUpdateType ==
  ASSUME TypeOK, NEW o \in Orders, NEW s \in OrderStatuses, AdminUpdate(o, s)
  PROVE  TypeOK'
<1>1. [orders[o] EXCEPT !.status = s] \in OrderRecord
  BY OrderUpdates DEF TypeOK
<1>2. orders' \in [Orders -> OrderRecord] /\ stock' \in [Variants -> Nat]
  BY <1>1, CancelOrderType DEF TypeOK, AdminUpdate
<1> QED BY <1>2 DEF TypeOK, AdminUpdate

LEMMA ExpiryType ==
  ASSUME TypeOK, ExpireStaleInstapay \/ \E o \in Orders : ExpireOrder(o)
  PROVE  TypeOK'
<1>1. CASE ExpireStaleInstapay
  BY <1>1, MarkAllType DEF TypeOK, ExpireStaleInstapay, PaymentStatuses
<1>2. ASSUME NEW o \in Orders, ExpireOrder(o)
      PROVE  TypeOK'
  <2>1. payments' \in [Payments -> PaymentRecord]
    BY <1>2, MarkAllType DEF ExpireOrder, PaymentStatuses
  <2>2. orders' \in [Orders -> OrderRecord] /\ stock' \in [Variants -> Nat]
    BY <1>2, CancelOrderType DEF ExpireOrder
  <2> QED BY <1>2, <2>1, <2>2 DEF TypeOK, ExpireOrder
<1> QED BY <1>1, <1>2

LEMMA TypeInit == Init => TypeOK
<1> SUFFICES ASSUME Init PROVE TypeOK
  OBVIOUS
<1>1. orders \in [Orders -> OrderRecord]
  BY DEF Init, OrderRecord, OrderStatuses, Methods
<1>2. payments \in [Payments -> PaymentRecord]
  BY DEF Init, PaymentRecord, PaymentStatuses, Methods, Phases
<1>3. proofs \in [Proofs -> ProofRecord]
  BY DEF Init, ProofRecord, Outcomes
<1> QED BY <1>1, <1>2, <1>3, LinesAssumption DEF Init, TypeOK

LEMMA TypeStep == TypeOK /\ [Next]_vars => TypeOK'
<1> SUFFICES ASSUME TypeOK, [Next]_vars PROVE TypeOK'
  OBVIOUS
<1>1. CASE Tick
  BY <1>1 DEF TypeOK, Tick
<1>2. CASE UNCHANGED vars
  BY <1>2 DEF TypeOK, vars
<1> QED
  BY <1>1, <1>2, CreateOrderType, SetMethodType, GetOrClaimType, ClaimStepsType, CallbackType,
     ConfirmCodType, ProofStepsType, AdminUpdateType, ExpiryType DEF Next

\* The tables keep their shape and stock never goes below zero: the guarded
\* decrement of checkout is enough, whatever the restorations do.
THEOREM TypeCorrect == Spec => []TypeOK
<1> QED BY TypeInit, TypeStep, PTL DEF Spec

-----------------------------------------------------------------------------
(* The steps come in two kinds.  A settling step moves rows that are pending   *)
(* out of pending or leaves them, and pays an order only with such a row; an   *)
(* inserting step gives a pending order its row and cancels the one it had.    *)

Settling ==
    /\ \A q \in Payments :
         /\ payments'[q].order = payments[q].order
         /\ payments'[q].method = payments[q].method
         /\ payments[q].status # "pending" => payments'[q] = payments[q]
         /\ payments[q].status = "pending" => payments'[q].status # "none"
         /\ payments[q].status = "pending" /\ payments'[q].status = "success" =>
              /\ orders[payments[q].order].status = "pending"
              /\ orders'[payments[q].order].status = "paid"
         /\ Claimed(q)' => payments[q].method = "card"
    /\ \A o \in Orders :
         /\ orders'[o].status = "pending" =>
              /\ orders[o].status \in {"none", "pending"}
              /\ \/ orders'[o].method = orders[o].method
                 \/ \A q \in PendingOf(o) : \/ payments[q].method = orders'[o].method
                                            \/ payments'[q].status # "pending"
         /\ orders'[o].status = "none" => orders[o].status = "none"
         /\ orders[o].status \in {"delivered", "cancelled"} => orders'[o] = orders[o]
         /\ orders'[o].status \in Paid =>
              \/ orders[o].status \in Paid
              \/ \E q \in PendingOf(o) : payments'[q].status = "success"

LEMMA SettlingInv ==
  ASSUME PaymentInv, TypeOK', Settling
  PROVE  PaymentInv'
<1> USE DEF PaymentInv
<1>1. OnePendingPayment'
  <2>1. \A o \in Orders : PendingOf(o)' \subseteq PendingOf(o)
    BY RowFields DEF Settling, PendingOf
  <2>2. ASSUME NEW o \in Orders, orders'[o].status = "pending", NEW p \in PendingOf(o)'
        PROVE  payments'[p].method = orders'[o].method
    <3>1. CASE orders[o].status = "none"
      BY <2>1, <2>2, <3>1 DEF UnplacedHaveNoPayment
    <3>2. CASE orders[o].status = "pending"
      BY <2>1, <2>2, <3>2 DEF Settling, OnePendingPayment, PendingOf
    <3> QED BY <2>2, <3>1, <3>2 DEF Settling
  <2> QED BY <2>1, <2>2 DEF OnePendingPayment
<1>2. UnplacedHaveNoPayment' /\ OnlyCardsClaimed'
  BY RowFields DEF Settling, UnplacedHaveNoPayment, PendingOf, OnlyCardsClaimed
<1>3. ASSUME NEW o \in Orders
      PROVE  /\ orders'[o].status \in Paid => Successful(o)' # {}
             /\ orders'[o].status \in {"none", "pending"} => Successful(o)' = {}
             /\ \A p, q \in Successful(o)' : p = q
  <2>1. orders'[o].status \in Paid => Successful(o)' # {}
    BY RowFields DEF Settling, PaidOrdersSettled, Successful, PendingOf
  <2>2. orders'[o].status \in {"none", "pending"} => Successful(o)' = {}
    BY RowFields DEF Settling, PaidOrdersSettled, Successful, PendingOf
  <2>3. ASSUME NEW p \in Successful(o)', NEW q \in Successful(o)'
        PROVE  p = q
    BY <2>3, RowFields DEF Settling, PaidOrdersSettled, OnePendingPayment, Successful, PendingOf
  <2> QED BY <2>1, <2>2, <2>3
<1>4. PaidOrdersSettled'
  BY <1>3 DEF PaidOrdersSettled
<1> QED BY <1>1, <1>2, <1>4


LEMMA ClaimStepsSettle ==
  ASSUME PaymentInv, NEW p \in Payments, NEW token,
         \/ MarkSubmitted(p, token)
         \/ ReleaseClaim(p, token)
         \/ \E x \in Providers : PersistProviderOrder(p, token, x)
  PROVE  Settling
<1>1. ASSUME NEW x \in Providers, PersistProviderOrder(p, token, x)
      PROVE  Settling
  <2>1. /\ payments[p].phase = "provider_submitted"
        /\ payments[p].status = "pending"
        /\ payments'[p] = [payments[p] EXCEPT !.provider = x, !.phase = "provider_persisted"]
        /\ \A q \in Payments \ {p} : payments'[q] = payments[q]
        /\ orders' = orders
    BY <1>1 DEF PersistProviderOrder, MayPersist, PaymentInv, TypeOK
  <2>2. /\ payments'[p].order = payments[p].order
        /\ payments'[p].method = payments[p].method
        /\ payments'[p].status = payments[p].status
    BY <2>1 DEF PaymentInv, TypeOK, PaymentRecord
  <2> QED BY <2>1, <2>2, ZenonT(60) DEF PaymentInv, OnlyCardsClaimed, Claimed, Settling
<1>2. CASE MarkSubmitted(p, token)
  <2>1. /\ payments[p].phase = "pre_provider"
        /\ payments[p].status = "pending"
        /\ payments'[p] = [payments[p] EXCEPT !.phase = "provider_submitted"]
        /\ \A q \in Payments \ {p} : payments'[q] = payments[q]
        /\ orders' = orders
    BY <1>2 DEF MarkSubmitted, HoldsClaim, PaymentInv, TypeOK
  <2>2. /\ payments'[p].order = payments[p].order
        /\ payments'[p].method = payments[p].method
        /\ payments'[p].status = payments[p].status
    BY <2>1 DEF PaymentInv, TypeOK, PaymentRecord
  <2> QED BY <2>1, <2>2 DEF PaymentInv, OnlyCardsClaimed, Claimed, Settling
<1>3. CASE ReleaseClaim(p, token)
  BY <1>3 DEF PaymentInv, OnlyCardsClaimed, Claimed, Settling, TypeOK, PaymentRecord,
              ReleaseClaim, HoldsClaim
<1> QED BY <1>1, <1>2, <1>3

LEMMA PayingSettles ==
  ASSUME PaymentInv, NEW p \in Payments,
         payments[p].status = "pending",
         orders[payments[p].order].status = "pending",
         payments' = [payments EXCEPT ![p].status = "success"],
         PayOrder(payments[p].order)
  PROVE  Settling
<1>1. /\ payments'[p] = [payments[p] EXCEPT !.status = "success"]
      /\ \A q \in Payments \ {p} : payments'[q] = payments[q]
  BY DEF PaymentInv, TypeOK
<1>2. /\ payments'[p].order = payments[p].order
      /\ payments'[p].method = payments[p].method
      /\ payments'[p].status = "success"
      /\ Claimed(p)' => Claimed(p)
  BY <1>1 DEF PaymentInv, TypeOK, PaymentRecord, Claimed
<1>3. /\ orders'[payments[p].order].status = "paid"
      /\ \A o \in Orders \ {payments[p].order} : orders'[o] = orders[o]
  BY RowFields DEF PaymentInv, TypeOK, OrderRecord, PayOrder
<1> QED
  BY <1>1, <1>2, <1>3, RowFields
  DEF PaymentInv, OnlyCardsClaimed, Claimed, Settling, PendingOf

LEMMA PaymentsSettle ==
  ASSUME PaymentInv,
         \/ \E x \in Providers : CallbackSuccess(x)
         \/ \E x \in Providers : CallbackFailure(x)
         \/ \E o \in Orders : ConfirmCod(o)
  PROVE  Settling
<1>1. ASSUME NEW x \in Providers, CallbackSuccess(x)
      PROVE  Settling
  BY <1>1, RowFields, PayingSettles DEF PaymentInv, CallbackSuccess, AcceptsCallback, Live
<1>2. ASSUME NEW x \in Providers, CallbackFailure(x)
      PROVE  Settling
  <2>1. PICK p \in Payments :
          /\ payments[p].status = "pending"
          /\ orders[payments[p].order].status = "pending"
          /\ payments' = [payments EXCEPT ![p].status = "failed"]
          /\ CancelOrder(payments[p].order)
    BY <1>2 DEF CallbackFailure, AcceptsCallback, Live
  <2>2. /\ \A o \in Orders \ {payments[p].order} : orders'[o] = orders[o]
        /\ orders'[payments[p].order].status = "cancelled"
    BY <2>1, RowFields DEF PaymentInv, CancelOrder, TypeOK, OrderRecord
  <2> QED
    BY <2>1, <2>2, RowFields DEF PaymentInv, OnlyCardsClaimed, Claimed, Settling, TypeOK,
       PaymentRecord, Paid
<1>3. ASSUME NEW o \in Orders, ConfirmCod(o)
      PROVE  Settling
  BY <1>3, PayingSettles DEF ConfirmCod
<1> QED BY <1>1, <1>2, <1>3

LEMMA ProofStepsSettle ==
  ASSUME PaymentInv, NEW f \in Proofs,
         \/ \E p \in Payments : UploadProof(f, p)
         \/ CheckPolicy(f)
         \/ InsertProof(f)
         \/ ApproveProof(f)
         \/ RejectProof(f)
  PROVE  Settling
<1>1. CASE CheckPolicy(f) \/ InsertProof(f) \/ \E p \in Payments : UploadProof(f, p)
  BY <1>1 DEF PaymentInv, OnlyCardsClaimed, Claimed, Settling, UploadProof, CheckPolicy,
              InsertProof
<1>2. CASE ApproveProof(f)
  BY <1>2, RowFields, PayingSettles DEF PaymentInv, ApproveProof, MayReview, Live
<1>3. CASE RejectProof(f)
  BY <1>3, RowFields DEF PaymentInv, OnlyCardsClaimed, Claimed, Settling, TypeOK,
              PaymentRecord, RejectProof, MayReview
<1> QED BY <1>1, <1>2, <1>3

LEMMA AdminUpdateSettles ==
  ASSUME PaymentInv, NEW o \in Orders, NEW s \in OrderStatuses, AdminUpdate(o, s)
  PROVE  Settling
<1>1. /\ s \notin {"none", "pending"}
      /\ orders[o].status \notin {"none", "delivered", "cancelled"}
      /\ s \in Paid => orders[o].status \in Paid
  BY DEF AdminUpdate, Transitions, Paid
<1>2. /\ payments' = payments
      /\ orders'[o].status = s
      /\ \A a \in Orders \ {o} : orders'[a] = orders[a]
  BY DEF AdminUpdate, CancelOrder, PaymentInv, TypeOK, OrderRecord
<1> QED
  BY <1>1, <1>2 DEF PaymentInv, OnlyCardsClaimed, Claimed, Settling

LEMMA ExpirySettles ==
  ASSUME PaymentInv, ExpireStaleInstapay \/ \E o \in Orders : ExpireOrder(o)
  PROVE  Settling
<1>1. CASE ExpireStaleInstapay
  BY <1>1 DEF PaymentInv, OnlyCardsClaimed, Claimed, Settling, TypeOK, PaymentRecord,
              ExpireStaleInstapay, StaleInstapay, MarkAll
<1>2. ASSUME NEW o \in Orders, ExpireOrder(o)
      PROVE  Settling
  <2>1. /\ orders'[o].status = "cancelled"
        /\ orders[o].status = "pending"
        /\ \A a \in Orders \ {o} : orders'[a] = orders[a]
    BY <1>2 DEF ExpireOrder, Expirable, CancelOrder, PaymentInv, TypeOK, OrderRecord
  <2>2. payments' = MarkAll(PendingOf(o), "expired")
    BY <1>2 DEF ExpireOrder
  <2> QED
    BY <2>1, <2>2 DEF PaymentInv, OnlyCardsClaimed, Claimed, Settling, TypeOK,
                      PaymentRecord, MarkAll, PendingOf, Paid
<1> QED BY <1>1, <1>2

Inserting(o, p, m) ==
    /\ payments[p].status = "none"
    /\ payments'[p].status = "pending"
    /\ payments'[p].order = o
    /\ payments'[p].method = m
    /\ Claimed(p)' => m = "card"
    /\ orders[o].status \in {"none", "pending"}
    /\ orders'[o].status = "pending"
    /\ orders'[o].method = m
    /\ \A a \in Orders \ {o} : orders'[a] = orders[a]
    /\ \A q \in Payments \ {p} :
         /\ payments'[q].order = payments[q].order
         /\ payments'[q].method = payments[q].method
         /\ Claimed(q)' => Claimed(q)
         /\ IF q \in PendingOf(o) THEN payments'[q].status = "cancelled"
                                  ELSE payments'[q] = payments[q]

LEMMA InsertingInv ==
  ASSUME PaymentInv, TypeOK', NEW o \in Orders, NEW p \in Payments, NEW m \in Methods,
         Inserting(o, p, m)
  PROVE  PaymentInv'
<1> USE DEF PaymentInv
<1>1. PendingOf(o)' = {p}
  BY DEF Inserting, PendingOf
<1>2. \A a \in Orders \ {o} : PendingOf(a)' = PendingOf(a)
  BY DEF Inserting, PendingOf
<1>3. \A a \in Orders : Successful(a)' = Successful(a)
  BY DEF Inserting, PendingOf, Successful
<1>4. OnePendingPayment'
  <2>1. ASSUME NEW a \in Orders \ {o}
        PROVE  /\ \A q, r \in PendingOf(a)' : q = r
               /\ orders'[a].status = "pending" =>
                    \A q \in PendingOf(a)' : payments'[q].method = orders'[a].method
    BY <1>2 DEF Inserting, OnePendingPayment, PendingOf
  <2>2. \A q \in PendingOf(o)' : payments'[q].method = orders'[o].method
    BY <1>1 DEF Inserting
  <2> QED BY <1>1, <2>1, <2>2 DEF OnePendingPayment
<1>5. PaidOrdersSettled'
  BY <1>3 DEF Inserting, PaidOrdersSettled, Paid
<1>6. UnplacedHaveNoPayment'
  BY <1>2 DEF Inserting, UnplacedHaveNoPayment
<1>7. OnlyCardsClaimed'
  BY DEF Inserting, OnlyCardsClaimed
<1> QED BY <1>4, <1>5, <1>6, <1>7

Inserts == \E o \in Orders, p \in Payments, m \in Methods : Inserting(o, p, m)

LEMMA CreateOrderKind ==
  ASSUME PaymentInv, NEW o \in Orders, NEW m \in Methods, CreateOrder(o, m)
  PROVE  Settling \/ Inserts
<1>1. /\ orders[o].status = "none"
      /\ orders'[o].status = "pending"
      /\ orders'[o].method = m
      /\ \A a \in Orders \ {o} : orders'[a] = orders[a]
  BY DEF CreateOrder, PaymentInv, TypeOK
<1>2. PendingOf(o) = {}
  BY <1>1 DEF PaymentInv, UnplacedHaveNoPayment
<1>3. CASE m = "cod"
  <2>1. PICK p \in FreeRows : payments' = [payments EXCEPT ![p] = NewPayment(o, m, "none", 0)]
    BY <1>3 DEF CreateOrder
  <2>2. /\ payments'[p] = NewPayment(o, m, "none", 0)
        /\ \A q \in Payments \ {p} : payments'[q] = payments[q]
        /\ payments[p].status = "none"
        /\ p \in Payments
    BY <2>1 DEF FreeRows, PaymentInv, TypeOK
  <2>3. Inserting(o, p, m)
    BY <1>1, <1>2, <2>2 DEF Inserting, NewPayment, Claimed
  <2> QED BY <2>2, <2>3 DEF Inserts
<1>4. CASE m # "cod"
  <2>1. payments' = payments
    BY <1>4 DEF CreateOrder
  <2> QED
    BY <1>1, <1>2, <2>1 DEF Settling, PendingOf, PaymentInv, OnlyCardsClaimed, Claimed, Paid
<1> QED BY <1>3, <1>4

LEMMA SetMethodKind ==
  ASSUME PaymentInv, NEW o \in Orders, NEW m \in Methods, SetMethod(o, m)
  PROVE  Settling \/ Inserts
<1> USE DEF PaymentInv
<1>2. /\ orders[o].status = "pending"
      /\ orders'[o].status = "pending"
      /\ orders'[o].method = m
      /\ \A a \in Orders \ {o} : orders'[a] = orders[a]
  BY DEF SetMethod, Renewable, Live, TypeOK, OrderRecord
\* a pending row of another method that the provider holds would be a card
<1>3. \A q \in PendingOf(o) : payments[q].method = m \/ q \in Superseded(o, m)
  BY RowFields DEF SetMethod, MayLeave, Superseded, OnlyCardsClaimed, Claimed, InFlight, PendingOf
<1> DEFINE kept == MarkAll(Superseded(o, m), "cancelled")
<1>4. /\ kept \in [Payments -> PaymentRecord]
      /\ \A q \in Payments :
           /\ kept[q].order = payments[q].order
           /\ kept[q].method = payments[q].method
           /\ kept[q].phase = payments[q].phase
           /\ kept[q].provider = payments[q].provider
           /\ kept[q].status = IF q \in Superseded(o, m) THEN "cancelled"
                                                         ELSE payments[q].status
  <2>1. kept \in [Payments -> PaymentRecord]
    BY MarkAllType DEF PaymentStatuses
  <2> QED BY <2>1 DEF MarkAll, TypeOK, PaymentRecord
<1> HIDE DEF kept
<1>5. CASE payments' = kept
  <2>1. \A q \in Payments : payments[q].status # "pending" => kept[q] = payments[q]
    BY DEF kept, MarkAll, Superseded, PendingOf
  <2>2. Settling
    BY <1>2, <1>3, <1>4, <1>5, <2>1, RowFields
    DEF Settling, Superseded, PendingOf, OnlyCardsClaimed, Claimed, Paid
  <2> QED BY <2>2
<1>6. ASSUME NEW p \in FreeRows,
             payments' = [kept EXCEPT ![p] = NewPayment(o, m, "none", 0)],
             \A q \in PendingOf(o) : payments[q].method # m
      PROVE  Settling \/ Inserts
  <2>1. /\ payments'[p] = NewPayment(o, m, "none", 0)
        /\ \A q \in Payments \ {p} : payments'[q] = kept[q]
        /\ payments[p].status = "none"
        /\ p \in Payments
    BY <1>4, <1>6 DEF FreeRows
  <2>2. PendingOf(o) = Superseded(o, m)
    BY <1>3, <1>6 DEF Superseded
  <2>3. \A q \in Payments : q \notin Superseded(o, m) => kept[q] = payments[q]
    BY DEF kept, MarkAll
  <2>4. Inserting(o, p, m)
    BY <1>2, <1>4, <2>1, <2>2, <2>3 DEF Inserting, NewPayment, Claimed
  <2> QED BY <2>1, <2>4 DEF Inserts
<1> QED BY <1>5, <1>6 DEF SetMethod, kept

LEMMA GetOrClaimKind ==
  ASSUME PaymentInv, NEW o \in Orders, NEW p \in Payments, GetOrClaim(o, p)
  PROVE  Settling \/ Inserts
<1> USE DEF PaymentInv
<1>2. /\ orders[o].status = "pending"
      /\ orders[o].method = "card"
      /\ orders' = orders
  BY DEF GetOrClaim, ClaimCode
<1>3. CASE /\ p \in PendingCards(o)
           /\ payments' = [payments EXCEPT ![p].phase = "pre_provider",
                                           ![p].claimed = now, ![p].token = tokens + 1]
  <2>1. /\ payments'[p] = [payments[p] EXCEPT !.phase = "pre_provider",
                             !.claimed = now, !.token = tokens + 1]
        /\ \A q \in Payments \ {p} : payments'[q] = payments[q]
        /\ payments[p].method = "card"
    BY <1>3 DEF TypeOK, PendingCards
  <2>2. /\ payments'[p].order = payments[p].order
        /\ payments'[p].method = payments[p].method
        /\ payments'[p].status = payments[p].status
    BY <2>1 DEF TypeOK, PaymentRecord
  <2>3. Settling
    BY <1>2, <2>1, <2>2, <1>3, ZenonT(60) DEF Settling, PendingCards, PendingOf, OnlyCardsClaimed, Claimed
  <2> QED BY <2>3
<1>4. CASE /\ PendingCards(o) = {}
           /\ p \in FreeRows
           /\ payments' = [payments EXCEPT
                             ![p] = NewPayment(o, "card", "pre_provider", tokens + 1)]
  <2>1. /\ payments'[p] = NewPayment(o, "card", "pre_provider", tokens + 1)
        /\ \A q \in Payments \ {p} : payments'[q] = payments[q]
        /\ payments[p].status = "none"
    BY <1>4 DEF FreeRows, TypeOK
  <2>2. PendingOf(o) = {}
    BY <1>2, <1>4 DEF OnePendingPayment, PendingCards
  <2>3. Inserting(o, p, "card")
    BY <1>2, <2>1, <2>2 DEF Inserting, NewPayment, Claimed
  <2> QED BY <2>3 DEF Inserts, Methods
<1> QED BY <1>3, <1>4 DEF GetOrClaim

LEMMA StepKinds ==
  ASSUME PaymentInv, [Next]_vars
  PROVE  Settling \/ Inserts
<1>1. CASE Tick \/ UNCHANGED vars
  BY <1>1 DEF Tick, vars, Settling, PaymentInv, OnlyCardsClaimed, Claimed
<1> QED
  BY <1>1, CreateOrderKind, SetMethodKind, GetOrClaimKind, ClaimStepsSettle, PaymentsSettle,
     ProofStepsSettle, AdminUpdateSettles, ExpirySettles DEF Next

LEMMA PaymentInvInit == Init => PaymentInv
<1> SUFFICES ASSUME Init PROVE PaymentInv
  OBVIOUS
<1>1. TypeOK
  BY TypeInit
<1>2. /\ \A o \in Orders : orders[o].status = "none"
      /\ \A p \in Payments : /\ payments[p].status = "none"
                             /\ payments[p].phase = "none"
                             /\ payments[p].provider = NoProvider
  BY DEF Init
<1> QED
  BY <1>1, <1>2 DEF PaymentInv, OnePendingPayment, PaidOrdersSettled, UnplacedHaveNoPayment,
     OnlyCardsClaimed, Claimed, PendingOf, Successful, Paid

LEMMA PaymentInvStep == PaymentInv /\ [Next]_vars => PaymentInv'
<1> SUFFICES ASSUME PaymentInv, [Next]_vars PROVE PaymentInv'
  OBVIOUS
<1>1. TypeOK'
  BY TypeStep DEF PaymentInv
<1> QED BY <1>1, StepKinds, SettlingInv, InsertingInv DEF Inserts

\* The inductive invariant holds in every reachable state.
THEOREM PaymentInvariant == Spec => []PaymentInv
<1> QED BY PaymentInvInit, PaymentInvStep, PTL DEF Spec

\* An order never waits for two payments, whatever the order of method changes,
\* claims, callbacks, reviews and sweeps.
THEOREM OnePendingAlways == Spec => []OnePendingPayment
<1>1. PaymentInv => OnePendingPayment
  BY DEF PaymentInv
<1> QED BY <1>1, PaymentInvariant, PTL

\* An order is in fulfilment only with exactly one successful payment.
THEOREM PaidOrdersAlwaysSettled == Spec => []PaidOrdersSettled
<1>1. PaymentInv => PaidOrdersSettled
  BY DEF PaymentInv
<1> QED BY <1>1, PaymentInvariant, PTL

\* Money is recorded only in the step that promotes the pending order.
THEOREM PaymentsSettleTogether == Spec => SettlesTogether
<1>1. ASSUME PaymentInv, [Next]_vars PROVE [SettlesStep]_vars
  <2>1. SettlesStep
    BY <1>1, StepKinds DEF PaymentInv, SettlesStep, Settling, Inserts, Inserting, PendingOf
  <2> QED BY <2>1
<1> QED BY <1>1, PaymentInvariant, PTL DEF Spec, SettlesTogether

\* Delivered and cancelled orders, and payments that left pending, never change.
THEOREM FinalStatesStay == Spec => TerminalIsFinal
<1>1. ASSUME PaymentInv, [Next]_vars PROVE [FinalStep]_vars
  <2>1. FinalStep
    BY <1>1, StepKinds DEF PaymentInv, FinalStep, Settling, Inserts, Inserting, PendingOf
  <2> QED BY <2>1
<1> QED BY <1>1, PaymentInvariant, PTL DEF Spec, TerminalIsFinal

-----------------------------------------------------------------------------
(* The stock.  An order takes what its lines need when it is placed, and gives *)
(* back their quantities when it is cancelled; both happen once.               *)

Placed == {o \in Orders : orders[o].status # "none"}
Cancelled == {o \in Orders : orders[o].status = "cancelled"}

\* An order is cancelled exactly when its lines are restored, and the ledger names only
\* cancelled orders: none of the three paths can find half of another one done.
RestoredOnce ==
    /\ \A o \in Orders : orders[o].restored <=> orders[o].status = "cancelled"
    /\ ledger \subseteq Cancelled

\* What was taken is on sale, or belongs to a placed order; what was given back belongs to
\* a cancelled one.
Balance ==
    \A v \in Variants :
      stock[v] + Cardinality(Pieces(Need, Placed, v)) =
        InitialStock[v] + Cardinality(Pieces(Quantity, Cancelled, v))

StockInv ==
    /\ TypeOK
    /\ RestoredOnce
    /\ \A v \in Variants : /\ IsFiniteSet(Pieces(Need, Placed, v))
                            /\ IsFiniteSet(Pieces(Quantity, Cancelled, v))
    /\ Balance

\* A line has as many pieces as it says.
LEMMA LinePieces ==
  ASSUME NEW o, NEW n \in Nat
  PROVE  /\ IsFiniteSet({o} \X (1..n))
         /\ Cardinality({o} \X (1..n)) = n
<1>1. IsFiniteSet(1..n) /\ Cardinality(1..n) = n
  BY FS_Interval
<1>2. IsFiniteSet({o}) /\ Cardinality({o}) = 1
  BY FS_Singleton
<1>3. /\ IsFiniteSet({o} \X (1..n))
      /\ Cardinality({o} \X (1..n)) = Cardinality({o}) * Cardinality(1..n)
  BY <1>1, <1>2, FS_Product
<1> QED BY <1>1, <1>2, <1>3

\* One more order adds the pieces of its line.
LEMMA OneMoreOrder ==
  ASSUME NEW lines \in [Orders -> [Variants -> Nat]], NEW v \in Variants,
         NEW S \in SUBSET Orders, IsFiniteSet(Pieces(lines, S, v)),
         NEW o \in Orders, o \notin S
  PROVE  /\ IsFiniteSet(Pieces(lines, S \union {o}, v))
         /\ Cardinality(Pieces(lines, S \union {o}, v)) =
              Cardinality(Pieces(lines, S, v)) + lines[o][v]
<1> DEFINE line == {o} \X (1..lines[o][v])
           held == Pieces(lines, S, v)
<1>1. Pieces(lines, S \union {o}, v) = held \union line
  BY DEF Pieces
<1>2. held \intersect line = {}
  BY DEF Pieces
<1>3. lines[o][v] \in Nat
  OBVIOUS
<1>4. IsFiniteSet(line) /\ Cardinality(line) = lines[o][v]
  BY <1>3, LinePieces
<1>5. Cardinality(held) \in Nat
  BY FS_CardinalityType
<1> HIDE DEF line, held
<1>6. Cardinality(held \intersect line) = 0
  BY <1>2, FS_EmptySet
<1>7. /\ IsFiniteSet(held \union line)
      /\ Cardinality(held \union line) =
           Cardinality(held) + Cardinality(line) - Cardinality(held \intersect line)
  BY <1>4, FS_Union DEF held
<1>8. Cardinality(held \union line) = Cardinality(held) + lines[o][v]
  BY <1>3, <1>4, <1>5, <1>6, <1>7
<1> QED BY <1>1, <1>7, <1>8 DEF held

\* Most steps leave the stock alone, and no order is placed or cancelled.
StockIdle ==
    /\ stock' = stock /\ ledger' = ledger
    /\ \A o \in Orders :
         /\ orders'[o].restored = orders[o].restored
         /\ orders'[o].status = "none" <=> orders[o].status = "none"
         /\ orders'[o].status = "cancelled" <=> orders[o].status = "cancelled"

\* Checkout places an order and takes what its lines need.
Placing(o) ==
    /\ orders[o].status = "none" /\ orders'[o].status = "pending"
    /\ ~orders'[o].restored
    /\ \A a \in Orders \ {o} : orders'[a] = orders[a]
    /\ stock' = [v \in Variants |-> stock[v] - Need[o][v]]
    /\ ledger' = ledger

\* One of the three paths cancels an order and gives back the quantities of its lines.
Cancelling(o) ==
    /\ orders[o].status \notin {"none", "cancelled"} /\ orders'[o].status = "cancelled"
    /\ orders'[o].restored
    /\ \A a \in Orders \ {o} : orders'[a] = orders[a]
    /\ stock' = GiveBack(o)
    /\ ledger' \subseteq ledger \union {o}

LEMMA PlacingBalances ==
  ASSUME StockInv, TypeOK', NEW o \in Orders, Placing(o)
  PROVE  StockInv'
<1>1. Placed' = Placed \union {o} /\ o \notin Placed /\ Cancelled' = Cancelled
  BY DEF Placing, Placed, Cancelled
<1>2. RestoredOnce'
  BY <1>1 DEF StockInv, RestoredOnce, Placing
<1>3. ASSUME NEW v \in Variants
      PROVE  /\ IsFiniteSet(Pieces(Need, Placed, v)')
             /\ IsFiniteSet(Pieces(Quantity, Cancelled, v)')
             /\ stock'[v] + Cardinality(Pieces(Need, Placed, v)') =
                  InitialStock[v] + Cardinality(Pieces(Quantity, Cancelled, v)')
  <2>1. /\ Pieces(Need, Placed, v)' = Pieces(Need, Placed \union {o}, v)
        /\ Pieces(Quantity, Cancelled, v)' = Pieces(Quantity, Cancelled, v)
    BY <1>1 DEF Pieces
  <2>2. /\ IsFiniteSet(Pieces(Need, Placed, v))
        /\ IsFiniteSet(Pieces(Quantity, Cancelled, v))
        /\ stock[v] + Cardinality(Pieces(Need, Placed, v)) =
             InitialStock[v] + Cardinality(Pieces(Quantity, Cancelled, v))
    BY DEF StockInv, Balance
  <2>3. /\ IsFiniteSet(Pieces(Need, Placed \union {o}, v))
        /\ Cardinality(Pieces(Need, Placed \union {o}, v)) =
             Cardinality(Pieces(Need, Placed, v)) + Need[o][v]
    <3>1. Placed \in SUBSET Orders
      BY DEF Placed
    <3> QED BY <1>1, <2>2, <3>1, OneMoreOrder, LinesAssumption
  <2>4. stock'[v] = stock[v] - Need[o][v]
    BY DEF Placing
  <2>5. /\ stock[v] \in Nat /\ Need[o][v] \in Nat
        /\ Cardinality(Pieces(Need, Placed, v)) \in Nat
    BY <2>2, LinesAssumption, FS_CardinalityType DEF StockInv, TypeOK
  <2> QED BY <2>1, <2>2, <2>3, <2>4, <2>5
<1> QED BY <1>2, <1>3 DEF StockInv, Balance

LEMMA CancellingBalances ==
  ASSUME StockInv, TypeOK', NEW o \in Orders, Cancelling(o)
  PROVE  StockInv'
<1>1. Cancelled' = Cancelled \union {o} /\ o \notin Cancelled /\ Placed' = Placed
  BY DEF Cancelling, Placed, Cancelled
<1>2. RestoredOnce'
  BY <1>1 DEF StockInv, RestoredOnce, Cancelling
<1>3. ASSUME NEW v \in Variants
      PROVE  /\ IsFiniteSet(Pieces(Need, Placed, v)')
             /\ IsFiniteSet(Pieces(Quantity, Cancelled, v)')
             /\ stock'[v] + Cardinality(Pieces(Need, Placed, v)') =
                  InitialStock[v] + Cardinality(Pieces(Quantity, Cancelled, v)')
  <2>1. /\ Pieces(Need, Placed, v)' = Pieces(Need, Placed, v)
        /\ Pieces(Quantity, Cancelled, v)' = Pieces(Quantity, Cancelled \union {o}, v)
    BY <1>1 DEF Pieces
  <2>2. /\ IsFiniteSet(Pieces(Need, Placed, v))
        /\ IsFiniteSet(Pieces(Quantity, Cancelled, v))
        /\ stock[v] + Cardinality(Pieces(Need, Placed, v)) =
             InitialStock[v] + Cardinality(Pieces(Quantity, Cancelled, v))
    BY DEF StockInv, Balance
  <2>3. /\ IsFiniteSet(Pieces(Quantity, Cancelled \union {o}, v))
        /\ Cardinality(Pieces(Quantity, Cancelled \union {o}, v)) =
             Cardinality(Pieces(Quantity, Cancelled, v)) + Quantity[o][v]
    <3>1. Cancelled \in SUBSET Orders
      BY DEF Cancelled
    <3> QED BY <1>1, <2>2, <3>1, OneMoreOrder, LinesAssumption
  <2>4. stock'[v] = stock[v] + Quantity[o][v]
    BY DEF Cancelling, GiveBack
  <2>5. /\ stock[v] \in Nat /\ Quantity[o][v] \in Nat /\ InitialStock[v] \in Nat
        /\ Cardinality(Pieces(Need, Placed, v)) \in Nat
        /\ Cardinality(Pieces(Quantity, Cancelled, v)) \in Nat
    BY <2>2, LinesAssumption, FS_CardinalityType DEF StockInv, TypeOK
  <2> QED BY <2>1, <2>2, <2>3, <2>4, <2>5
<1> QED BY <1>2, <1>3 DEF StockInv, Balance

LEMMA IdleBalances ==
  ASSUME StockInv, TypeOK', StockIdle
  PROVE  StockInv'
<1>1. Placed' = Placed /\ Cancelled' = Cancelled
  BY DEF StockIdle, Placed, Cancelled
<1>2. RestoredOnce'
  BY <1>1 DEF StockInv, RestoredOnce, StockIdle
<1>3. \A v \in Variants : /\ Pieces(Need, Placed, v)' = Pieces(Need, Placed, v)
                          /\ Pieces(Quantity, Cancelled, v)' = Pieces(Quantity, Cancelled, v)
  BY <1>1 DEF Pieces
<1> QED BY <1>2, <1>3 DEF StockInv, Balance, StockIdle

\* Paying an order neither places nor cancels it.
LEMMA PayingIsIdle ==
  ASSUME TypeOK, NEW o \in Orders, PayOrder(o), stock' = stock, ledger' = ledger
  PROVE  StockIdle
<1>1. /\ orders'[o].restored = orders[o].restored
      /\ orders'[o].status = IF orders[o].status = "pending" THEN "paid" ELSE orders[o].status
      /\ \A a \in Orders \ {o} : orders'[a] = orders[a]
  BY DEF PayOrder, TypeOK, OrderRecord
<1> QED BY <1>1 DEF StockIdle

\* The order that is cancelled was not restored before.
LEMMA CancelOrderCancels ==
  ASSUME TypeOK, RestoredOnce, NEW o \in Orders,
         orders[o].status \notin {"none", "cancelled"},
         CancelOrder(o), ledger' \subseteq ledger \union {o}
  PROVE  Cancelling(o)
<1>1. /\ orders'[o].restored /\ orders'[o].status = "cancelled"
      /\ \A a \in Orders \ {o} : orders'[a] = orders[a]
  BY DEF CancelOrder, TypeOK, OrderRecord
<1>2. ~orders[o].restored
  BY DEF RestoredOnce
<1> QED BY <1>1, <1>2 DEF Cancelling, CancelOrder

StockMoves ==
    \/ StockIdle
    \/ \E o \in Orders : Placing(o) \/ Cancelling(o)

LEMMA AdminMovesStock ==
  ASSUME TypeOK, RestoredOnce, NEW o \in Orders, NEW s \in OrderStatuses, AdminUpdate(o, s)
  PROVE  StockMoves
<1>1. /\ orders[o].status \in {"pending", "paid", "processing", "shipped"}
      /\ s \in {"processing", "shipped", "delivered", "cancelled"}
  BY DEF AdminUpdate, Transitions
<1>2. CASE s = "cancelled"
  <2>1. o \notin ledger
    BY <1>1 DEF RestoredOnce, Cancelled
  <2>2. CancelOrder(o) /\ ledger' = ledger \union {o}
    BY <1>2, <2>1 DEF AdminUpdate
  <2>3. Cancelling(o)
    BY <1>1, <2>2, CancelOrderCancels
  <2> QED BY <2>3 DEF StockMoves
<1>3. CASE s # "cancelled"
  <2>1. /\ orders'[o].restored = orders[o].restored /\ orders'[o].status = s
        /\ \A a \in Orders \ {o} : orders'[a] = orders[a]
        /\ stock' = stock /\ ledger' = ledger
    BY <1>3 DEF AdminUpdate, TypeOK, OrderRecord
  <2>2. StockIdle
    BY <1>1, <1>3, <2>1 DEF StockIdle
  <2> QED BY <2>2 DEF StockMoves
<1> QED BY <1>2, <1>3

LEMMA CallbackMovesStock ==
  ASSUME TypeOK, RestoredOnce, NEW x \in Providers, CallbackSuccess(x) \/ CallbackFailure(x)
  PROVE  StockMoves
<1>1. CASE CallbackSuccess(x)
  <2>1. StockIdle
    BY <1>1, RowFields, PayingIsIdle DEF CallbackSuccess
  <2> QED BY <2>1 DEF StockMoves
<1>2. CASE CallbackFailure(x)
  <2>1. PICK p \in Payments : /\ orders[payments[p].order].status = "pending"
                              /\ CancelOrder(payments[p].order) /\ ledger' = ledger
    BY <1>2 DEF CallbackFailure, AcceptsCallback, Live
  <2>2. Cancelling(payments[p].order) /\ payments[p].order \in Orders
    BY <2>1, RowFields, CancelOrderCancels
  <2> QED BY <2>2 DEF StockMoves
<1> QED BY <1>1, <1>2

LEMMA CreateOrderMovesStock ==
  ASSUME TypeOK, NEW o \in Orders, NEW m \in Methods, CreateOrder(o, m)
  PROVE  Placing(o)
<1>1. orders'[o] = [status |-> "pending", method |-> m, expires |-> now + Window(m),
                    restored |-> FALSE]
      /\ \A a \in Orders \ {o} : orders'[a] = orders[a]
  BY DEF CreateOrder, TypeOK
<1> QED BY <1>1 DEF CreateOrder, Placing

LEMMA OthersLeaveStock ==
  ASSUME TypeOK, NEW o \in Orders, NEW m \in Methods, SetMethod(o, m) \/ ConfirmCod(o)
  PROVE  StockIdle
<1>1. CASE SetMethod(o, m)
  <2>1. /\ orders'[o].restored = orders[o].restored
        /\ orders'[o].status = orders[o].status
        /\ \A a \in Orders \ {o} : orders'[a] = orders[a]
    BY <1>1 DEF SetMethod, TypeOK, OrderRecord
  <2> QED BY <1>1, <2>1 DEF StockIdle, SetMethod
<1>2. CASE ConfirmCod(o)
  BY <1>2, PayingIsIdle DEF ConfirmCod
<1> QED BY <1>1, <1>2

LEMMA StockStepKinds ==
  ASSUME TypeOK, RestoredOnce, [Next]_vars
  PROVE  StockMoves
<1>1. CASE Tick \/ UNCHANGED vars \/ ExpireStaleInstapay
  BY <1>1 DEF Tick, vars, ExpireStaleInstapay, StockIdle, StockMoves
<1>2. ASSUME NEW o \in Orders, NEW m \in Methods, CreateOrder(o, m) \/ SetMethod(o, m)
      PROVE  StockMoves
  BY <1>2, CreateOrderMovesStock, OthersLeaveStock DEF StockMoves
<1>3. ASSUME NEW o \in Orders, NEW p \in Payments, GetOrClaim(o, p)
      PROVE  StockMoves
  BY <1>3 DEF GetOrClaim, StockIdle, StockMoves
<1>4. ASSUME NEW p \in Payments, NEW token,
             \/ MarkSubmitted(p, token)
             \/ ReleaseClaim(p, token)
             \/ \E x \in Providers : PersistProviderOrder(p, token, x)
      PROVE  StockMoves
  BY <1>4 DEF MarkSubmitted, ReleaseClaim, PersistProviderOrder, StockIdle, StockMoves
<1>5. ASSUME NEW o \in Orders, ConfirmCod(o)
      PROVE  StockMoves
  BY <1>5, OthersLeaveStock DEF StockMoves, Methods
<1>6. ASSUME NEW f \in Proofs,
             \/ CheckPolicy(f) \/ InsertProof(f) \/ RejectProof(f)
             \/ \E p \in Payments : UploadProof(f, p)
      PROVE  StockMoves
  BY <1>6 DEF CheckPolicy, InsertProof, RejectProof, UploadProof, StockIdle, StockMoves
<1>7. ASSUME NEW f \in Proofs, ApproveProof(f)
      PROVE  StockMoves
  <2>1. StockIdle
    BY <1>7, RowFields, PayingIsIdle DEF ApproveProof
  <2> QED BY <2>1 DEF StockMoves
<1>8. ASSUME NEW o \in Orders, ExpireOrder(o)
      PROVE  StockMoves
  <2>1. Cancelling(o)
    BY <1>8, CancelOrderCancels DEF ExpireOrder, Expirable
  <2> QED BY <2>1 DEF StockMoves
<1> QED
  BY <1>1, <1>2, <1>3, <1>4, <1>5, <1>6, <1>7, <1>8, CallbackMovesStock, AdminMovesStock DEF Next

LEMMA StockInvInit == Init => StockInv
<1> SUFFICES ASSUME Init PROVE StockInv
  OBVIOUS
<1>1. Placed = {} /\ Cancelled = {}
  BY DEF Init, Placed, Cancelled
<1>2. RestoredOnce
  BY <1>1 DEF Init, RestoredOnce
<1>3. \A v \in Variants : Pieces(Need, Placed, v) = {} /\ Pieces(Quantity, Cancelled, v) = {}
  BY <1>1 DEF Pieces
<1>4. \A v \in Variants : stock[v] = InitialStock[v]
  BY DEF Init
<1> QED BY <1>2, <1>3, <1>4, TypeInit, FS_EmptySet DEF StockInv, Balance

LEMMA StockInvStep == StockInv /\ [Next]_vars => StockInv'
<1> SUFFICES ASSUME StockInv, [Next]_vars PROVE StockInv'
  OBVIOUS
<1>1. TypeOK'
  BY TypeStep DEF StockInv
<1>2. StockMoves
  BY StockStepKinds DEF StockInv
<1> QED BY <1>1, <1>2, IdleBalances, PlacingBalances, CancellingBalances DEF StockMoves

\* Whatever the lines say, the stock of a variant falls by what checkout took for the
\* orders that were placed and rises by what the lines of the cancelled ones say, each once.
THEOREM StockAccounted == Spec => []StockInv
<1> QED BY StockInvInit, StockInvStep, PTL DEF Spec

\* Where the pieces of a line are its quantity, what is left of them is what the orders hold
\* that are not cancelled.
LEMMA BalanceConserves ==
  ASSUME StockInv, Quantity = Need
  PROVE  StockConserved
<1> SUFFICES ASSUME NEW v \in Variants
             PROVE  stock[v] + Reserved(v) = InitialStock[v]
  BY DEF StockConserved
<1> DEFINE held == Pieces(Need, Placed \ Cancelled, v)
           back == Pieces(Need, Cancelled, v)
           all == Pieces(Need, Placed, v)
<1>1. Placed \ Cancelled = {o \in Orders : orders[o].status \notin {"none", "cancelled"}}
  BY DEF Placed, Cancelled
<1>2. all = held \union back
  BY DEF Pieces, Placed, Cancelled
<1>3. held \intersect back = {}
  BY DEF Pieces
<1>4. IsFiniteSet(all) /\ IsFiniteSet(back)
  BY DEF StockInv
<1>5. stock[v] + Cardinality(all) = InitialStock[v] + Cardinality(back)
  BY DEF StockInv, Balance
<1>6. Reserved(v) = Cardinality(held)
  BY <1>1 DEF Reserved
<1> HIDE DEF held, back, all
<1>7. IsFiniteSet(held)
  BY <1>2, <1>4, FS_Subset
<1>8. Cardinality(held) \in Nat /\ Cardinality(back) \in Nat
  BY <1>4, <1>7, FS_CardinalityType
<1>9. Cardinality(held \intersect back) = 0
  BY <1>3, FS_EmptySet
<1>10. Cardinality(all) = Cardinality(held) + Cardinality(back) - Cardinality(held \intersect back)
  BY <1>2, <1>4, <1>7, FS_Union
<1>11. stock[v] \in Nat /\ InitialStock[v] \in Nat
  BY LinesAssumption DEF StockInv, TypeOK
<1> QED BY <1>5, <1>6, <1>8, <1>9, <1>10, <1>11

\* In a shop whose lines are counted in pieces, every piece is on sale or held by exactly
\* one order, whichever of the three paths cancels orders and in whatever order they run.
THEOREM StockAlwaysConserved ==
  ASSUME Quantity = Need
  PROVE  Spec => []StockConserved
<1>1. StockInv => StockConserved
  BY BalanceConserves
<1> QED BY <1>1, StockAccounted, PTL
=============================================================================
