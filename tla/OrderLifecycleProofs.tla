------------------------ MODULE OrderLifecycleProofs ------------------------
(***************************************************************************)
(* OrderPayment implements OrderLifecycle: every call of a payment         *)
(* function is one of its moves, or changes nothing it speaks of.          *)
(***************************************************************************)
EXTENDS OrderPaymentProofs

-----------------------------------------------------------------------------
(* The mapping, row by row. *)

LEMMA RowMapping ==
  ASSUME NEW p \in Payments
  PROVE  /\ LifecycleRows[p] = LifecycleRow(payments[p])
         /\ LifecycleRows'[p] = LifecycleRow(payments'[p])
  BY DEF LifecycleRows

LEMMA StageMapping ==
  ASSUME NEW o \in Orders
  PROVE  /\ StageOf[o] = Stage(orders[o].status)
         /\ StageOf'[o] = Stage(orders'[o].status)
  BY DEF StageOf

\* a row that exists is the abstract row of its order and status
LEMMA MappedRow ==
  ASSUME NEW r, r.status # "none"
  PROVE  LifecycleRow(r) = Lifecycle!Row(r.order, r.status)
  BY DEF LifecycleRow, Lifecycle!Row

LEMMA MappedFree ==
  ASSUME NEW r, r.status = "none"
  PROVE  LifecycleRow(r) = Lifecycle!FreeRow
  BY DEF LifecycleRow, Lifecycle!FreeRow

LEMMA PendingRows ==
  ASSUME NEW o \in Orders
  PROVE  Lifecycle!RowsOf(o, "pending") = PendingOf(o)
<1>1. ASSUME NEW p \in Payments
      PROVE  LifecycleRow(payments[p]) = Lifecycle!Row(o, "pending") <=> p \in PendingOf(o)
  <2>1. CASE payments[p].status = "none"
    <3>1. LifecycleRow(payments[p]) = [status |-> "none"]
      BY <2>1 DEF LifecycleRow
    <3>2. Lifecycle!Row(o, "pending").status = "pending"
      BY DEF Lifecycle!Row
    <3> QED BY <2>1, <3>1, <3>2 DEF PendingOf
  <2>2. CASE payments[p].status # "none"
    BY <2>2 DEF LifecycleRow, Lifecycle!Row, PendingOf
  <2> QED BY <2>1, <2>2
<1> QED BY <1>1, RowMapping DEF Lifecycle!RowsOf, PendingOf

\* a step that leaves status and order of the rows, and the stages, is a stutter
LEMMA Stutter ==
  ASSUME \A p \in Payments : /\ payments'[p].status = payments[p].status
                             /\ payments'[p].order = payments[p].order,
         \A o \in Orders : Stage(orders'[o].status) = Stage(orders[o].status)
  PROVE  UNCHANGED Lifecycle!lifecycleVars
<1>1. StageOf' = StageOf
  BY DEF StageOf
<1>2. LifecycleRows' = LifecycleRows
  BY DEF LifecycleRows, LifecycleRow
<1> QED BY <1>1, <1>2 DEF Lifecycle!lifecycleVars

\* what the moves do, said with the rows of the tables
LEMMA AwaitMove ==
  ASSUME NEW o \in Orders, NEW p \in Payments,
         orders[o].status = "pending",
         \A a \in Orders : Stage(orders'[a].status) = Stage(orders[a].status),
         payments[p].status = "none",
         payments'[p].status = "pending", payments'[p].order = o,
         \A q \in Payments \ {p} :
           /\ payments'[q].order = payments[q].order
           /\ payments'[q].status = IF q \in PendingOf(o) THEN "cancelled"
                                                          ELSE payments[q].status
  PROVE  Lifecycle!Await(o, p)
<1>1. StageOf' = StageOf /\ StageOf[o] = "awaiting"
  BY DEF StageOf, Stage
<1>2. LifecycleRows[p] = Lifecycle!FreeRow
  BY RowMapping, MappedFree
<1> DEFINE kept == Lifecycle!Mark(o, PendingOf(o), "cancelled")
<1>3. kept = [q \in Payments |-> IF q \in PendingOf(o) THEN Lifecycle!Row(o, "cancelled")
                                                       ELSE LifecycleRows[q]]
  BY DEF Lifecycle!Mark
<1>4. LifecycleRow(payments'[p]) = Lifecycle!Row(o, "pending")
  BY MappedRow
<1>5. ASSUME NEW q \in Payments \ {p}
      PROVE  LifecycleRow(payments'[q]) = kept[q]
  <2>1. CASE q \in PendingOf(o)
    BY <1>3, <2>1, MappedRow DEF PendingOf
  <2>2. CASE q \notin PendingOf(o)
    BY <1>3, <2>2, RowMapping DEF LifecycleRow
  <2> QED BY <2>1, <2>2
<1> HIDE DEF kept
<1>6. LifecycleRows' = [kept EXCEPT ![p] = Lifecycle!Row(o, "pending")]
  BY <1>3, <1>4, <1>5 DEF LifecycleRows
<1> QED BY <1>1, <1>2, <1>6, PendingRows DEF Lifecycle!Await, Lifecycle!Open, kept

LEMMA PayMove ==
  ASSUME NEW o \in Orders, NEW p \in PendingOf(o),
         orders[o].status = "pending", orders'[o].status = "paid",
         \A a \in Orders \ {o} : orders'[a].status = orders[a].status,
         payments'[p].status = "success", payments'[p].order = o,
         \A q \in Payments \ {p} : payments'[q] = payments[q]
  PROVE  Lifecycle!Pay(o, p)
<1>1. StageOf[o] = "awaiting" /\ StageOf' = [StageOf EXCEPT ![o] = "fulfilling"]
  BY DEF StageOf, Stage
<1>2. p \in Payments
  BY DEF PendingOf
<1>3. LifecycleRow(payments'[p]) = Lifecycle!Row(o, "success")
  BY MappedRow
<1>4. LifecycleRows' = Lifecycle!Mark(o, {p}, "success")
  BY <1>2, <1>3 DEF LifecycleRows, Lifecycle!Mark
<1> QED BY <1>1, <1>4, PendingRows DEF Lifecycle!Pay

LEMMA CloseMove ==
  ASSUME NEW o \in Orders, NEW s \in {"failed", "expired", "pending"},
         orders[o].status \in {"pending"} \union (Paid \ {"delivered"}),
         orders'[o].status = "cancelled",
         \A a \in Orders \ {o} : orders'[a].status = orders[a].status,
         \A p \in Payments :
           /\ payments'[p].order = payments[p].order
           /\ payments'[p].status = IF p \in PendingOf(o) THEN s ELSE payments[p].status
  PROVE  Lifecycle!Close(o)
<1>1. /\ StageOf[o] \in {"awaiting", "fulfilling"}
      /\ StageOf' = [StageOf EXCEPT ![o] = "closed"]
  BY DEF StageOf, Stage, Paid
<1>2. CASE s = "pending"
  <2>1. LifecycleRows' = LifecycleRows
    BY <1>2 DEF LifecycleRows, LifecycleRow, PendingOf
  <2> QED BY <1>1, <2>1 DEF Lifecycle!Close
<1>3. CASE s # "pending"
  <2>1. ASSUME NEW p \in Payments
        PROVE  LifecycleRow(payments'[p]) =
                 IF p \in PendingOf(o) THEN Lifecycle!Row(o, s) ELSE LifecycleRow(payments[p])
    <3>1. CASE p \in PendingOf(o)
      BY <3>1, MappedRow DEF PendingOf
    <3>2. CASE p \notin PendingOf(o)
      BY <3>2 DEF LifecycleRow
    <3> QED BY <3>1, <3>2
  <2>2. LifecycleRows' = Lifecycle!Mark(o, PendingOf(o), s)
    BY <2>1 DEF LifecycleRows, Lifecycle!Mark
  <2> QED BY <1>1, <1>3, <2>2, PendingRows DEF Lifecycle!Close, Lifecycle!Lost
<1> QED BY <1>2, <1>3

LEMMA WithdrawMove ==
  ASSUME NEW ps \in SUBSET Payments, NEW s \in {"failed", "expired"},
         \A p \in ps : /\ payments[p].status = "pending"
                       /\ payments[p].order \in Orders
                       /\ orders[payments[p].order].status = "pending",
         orders' = orders,
         \A p \in Payments : /\ payments'[p].order = payments[p].order
                             /\ payments'[p].status = IF p \in ps THEN s ELSE payments[p].status
  PROVE  Lifecycle!Withdraw(s)
<1>1. StageOf' = StageOf
  BY DEF StageOf
<1>2. ASSUME NEW p \in ps
      PROVE  /\ StageOf[payments[p].order] = "awaiting"
             /\ p \in Lifecycle!RowsOf(payments[p].order, "pending")
  BY <1>2, PendingRows DEF StageOf, Stage, PendingOf
<1>3. ASSUME NEW p \in Payments
      PROVE  LifecycleRow(payments'[p]) =
               IF p \in ps THEN Lifecycle!Row(LifecycleRows[p].order, s) ELSE LifecycleRows[p]
  <2>1. CASE p \in ps
    <3>1. LifecycleRows[p].order = payments[p].order
      BY <2>1 DEF LifecycleRows, LifecycleRow
    <3> QED BY <2>1, <3>1, MappedRow
  <2>2. CASE p \notin ps
    BY <2>2 DEF LifecycleRows, LifecycleRow
  <2> QED BY <2>1, <2>2
<1>4. LifecycleRows' =
        [p \in Payments |-> IF p \in ps THEN Lifecycle!Row(LifecycleRows[p].order, s)
                                        ELSE LifecycleRows[p]]
  BY <1>3 DEF LifecycleRows
<1> QED BY <1>1, <1>2, <1>4 DEF Lifecycle!Withdraw

-----------------------------------------------------------------------------
(* Action by action. *)

Moves == Lifecycle!LNext \/ UNCHANGED Lifecycle!lifecycleVars

LEMMA MovesOfOrder ==
  ASSUME NEW o \in Orders,
         \/ Lifecycle!Place(o) \/ Lifecycle!Close(o)
         \/ \E p \in Payments : Lifecycle!Await(o, p) \/ Lifecycle!Pay(o, p)
  PROVE  Moves
  BY DEF Moves, Lifecycle!LNext

LEMMA CreateOrderMoves ==
  ASSUME PaymentInv, NEW o \in Orders, NEW m \in Methods, CreateOrder(o, m)
  PROVE  Moves
<1>1. /\ orders[o].status = "none"
      /\ orders'[o].status = "pending"
      /\ \A a \in Orders \ {o} : orders'[a] = orders[a]
  BY DEF CreateOrder, PaymentInv, TypeOK
<1>2. StageOf[o] = "unplaced" /\ StageOf' = [StageOf EXCEPT ![o] = "awaiting"]
  BY <1>1 DEF StageOf, Stage
<1>3. CASE payments' = payments
  <2>1. LifecycleRows' = LifecycleRows
    BY <1>3 DEF LifecycleRows
  <2> QED BY <1>2, <2>1, MovesOfOrder DEF Lifecycle!Place
<1>4. ASSUME NEW p \in FreeRows,
             payments' = [payments EXCEPT ![p] = NewPayment(o, "cod", "none", 0)]
      PROVE  Moves
  <2>1. /\ p \in Payments
        /\ payments[p].status = "none"
        /\ payments'[p] = NewPayment(o, "cod", "none", 0)
        /\ \A q \in Payments \ {p} : payments'[q] = payments[q]
    BY <1>4 DEF FreeRows, PaymentInv, TypeOK
  <2>2. payments'[p].status = "pending" /\ payments'[p].order = o
    BY <2>1 DEF NewPayment
  <2>3. LifecycleRow(payments'[p]) = Lifecycle!Row(o, "pending")
    BY <2>2, MappedRow
  <2>4. LifecycleRows' = [LifecycleRows EXCEPT ![p] = Lifecycle!Row(o, "pending")]
    BY <2>1, <2>3 DEF LifecycleRows
  <2>5. LifecycleRows[p] = Lifecycle!FreeRow
    BY <2>1, RowMapping, MappedFree
  <2> QED BY <1>2, <2>1, <2>4, <2>5, MovesOfOrder DEF Lifecycle!Place, Lifecycle!Open
<1> QED BY <1>3, <1>4 DEF CreateOrder

\* the row a change of method keeps is the only one, so nothing is cancelled with it
LEMMA SetMethodMoves ==
  ASSUME PaymentInv, NEW o \in Orders, NEW m \in Methods, SetMethod(o, m)
  PROVE  Moves
<1> USE DEF PaymentInv
<1>1. /\ orders[o].status = "pending"
      /\ \A a \in Orders : orders'[a].status = orders[a].status
  BY DEF SetMethod, Renewable, Live, TypeOK, OrderRecord
<1>2. \A q \in PendingOf(o) : payments[q].method = m \/ q \in Superseded(o, m)
  BY RowFields DEF SetMethod, MayLeave, Superseded, OnlyCardsClaimed, Claimed, InFlight, PendingOf
<1> DEFINE kept == MarkAll(Superseded(o, m), "cancelled")
<1>3. /\ kept \in [Payments -> PaymentRecord]
      /\ \A q \in Payments :
           /\ kept[q].order = payments[q].order
           /\ kept[q].status = IF q \in Superseded(o, m) THEN "cancelled"
                                                         ELSE payments[q].status
  <2>1. kept \in [Payments -> PaymentRecord]
    BY MarkAllType DEF PaymentStatuses
  <2> QED BY <2>1 DEF MarkAll, TypeOK, PaymentRecord
<1> HIDE DEF kept
<1>4. CASE payments' = kept /\ \E q \in PendingOf(o) : payments[q].method = m
  <2>1. Superseded(o, m) = {}
    BY <1>4 DEF Superseded, OnePendingPayment
  <2>2. \A q \in Payments : /\ payments'[q].status = payments[q].status
                            /\ payments'[q].order = payments[q].order
    BY <1>3, <1>4, <2>1
  <2> QED BY <1>1, <2>2, Stutter DEF Moves
<1>5. ASSUME NEW p \in FreeRows,
             payments' = [kept EXCEPT ![p] = NewPayment(o, m, "none", 0)],
             \A q \in PendingOf(o) : payments[q].method # m
      PROVE  Moves
  <2>1. /\ payments'[p] = NewPayment(o, m, "none", 0)
        /\ \A q \in Payments \ {p} : payments'[q] = kept[q]
        /\ payments[p].status = "none"
        /\ p \in Payments
    BY <1>3, <1>5 DEF FreeRows
  <2>2. PendingOf(o) = Superseded(o, m)
    BY <1>2, <1>5 DEF Superseded
  <2>3. payments'[p].status = "pending" /\ payments'[p].order = o
    BY <2>1 DEF NewPayment
  <2>4. Lifecycle!Await(o, p)
    BY <1>1, <1>3, <2>1, <2>2, <2>3, AwaitMove
  <2> QED BY <2>1, <2>4, MovesOfOrder
<1> QED BY <1>4, <1>5 DEF SetMethod, kept

LEMMA GetOrClaimMoves ==
  ASSUME PaymentInv, NEW o \in Orders, NEW p \in Payments, GetOrClaim(o, p)
  PROVE  Moves
<1> USE DEF PaymentInv
<1>1. orders[o].status = "pending" /\ orders[o].method = "card" /\ orders' = orders
  BY DEF GetOrClaim, ClaimCode
<1>2. CASE /\ p \in PendingCards(o)
           /\ payments' = [payments EXCEPT ![p].phase = "pre_provider",
                                           ![p].claimed = now, ![p].token = tokens + 1]
  <2>1. \A q \in Payments : /\ payments'[q].status = payments[q].status
                            /\ payments'[q].order = payments[q].order
    BY <1>2 DEF TypeOK, PaymentRecord
  <2> QED BY <1>1, <2>1, Stutter DEF Moves
<1>3. CASE /\ PendingCards(o) = {}
           /\ p \in FreeRows
           /\ payments' = [payments EXCEPT
                             ![p] = NewPayment(o, "card", "pre_provider", tokens + 1)]
  <2>1. /\ payments'[p] = NewPayment(o, "card", "pre_provider", tokens + 1)
        /\ \A q \in Payments \ {p} : payments'[q] = payments[q]
        /\ payments[p].status = "none"
    BY <1>3 DEF FreeRows, TypeOK
  <2>2. payments'[p].status = "pending" /\ payments'[p].order = o
    BY <2>1 DEF NewPayment
  <2>3. PendingOf(o) = {}
    BY <1>1, <1>3 DEF OnePendingPayment, PendingCards
  <2>4. Lifecycle!Await(o, p)
    BY <1>1, <2>1, <2>2, <2>3, AwaitMove
  <2> QED BY <2>4, MovesOfOrder
<1> QED BY <1>2, <1>3 DEF GetOrClaim

LEMMA ClaimStepsMove ==
  ASSUME PaymentInv, NEW p \in Payments, NEW token,
         \/ MarkSubmitted(p, token)
         \/ ReleaseClaim(p, token)
         \/ \E x \in Providers : PersistProviderOrder(p, token, x)
  PROVE  Moves
<1>1. orders' = orders
  BY DEF MarkSubmitted, ReleaseClaim, PersistProviderOrder
<1>2. \A q \in Payments : /\ payments'[q].status = payments[q].status
                          /\ payments'[q].order = payments[q].order
  <2> USE DEF PaymentInv, TypeOK, PaymentRecord
  <2>1. CASE MarkSubmitted(p, token)
    BY <2>1 DEF MarkSubmitted
  <2>2. CASE ReleaseClaim(p, token)
    BY <2>2 DEF ReleaseClaim
  <2>3. ASSUME NEW x \in Providers, PersistProviderOrder(p, token, x)
        PROVE  \A q \in Payments : /\ payments'[q].status = payments[q].status
                                  /\ payments'[q].order = payments[q].order
    <3>1. \A q \in Payments \ {p} : payments'[q] = payments[q]
      BY <2>3 DEF PersistProviderOrder
    <3>2. payments'[p] = [payments[p] EXCEPT !.provider = x, !.phase = "provider_persisted"]
      BY <2>3 DEF PersistProviderOrder
    <3>3. payments[p] \in PaymentRecord
      OBVIOUS
    <3>4. /\ payments'[p].status = payments[p].status
          /\ payments'[p].order = payments[p].order
      BY <3>2, <3>3
    <3> QED BY <3>1, <3>4
  <2> QED BY <2>1, <2>2, <2>3
<1> QED BY <1>1, <1>2, Stutter DEF Moves

LEMMA PayingMoves ==
  ASSUME PaymentInv, NEW p \in Payments,
         payments[p].status = "pending",
         orders[payments[p].order].status = "pending",
         payments' = [payments EXCEPT ![p].status = "success"],
         PayOrder(payments[p].order)
  PROVE  Moves
<1>1. /\ payments'[p].order = payments[p].order
      /\ payments'[p].status = "success"
      /\ \A q \in Payments \ {p} : payments'[q] = payments[q]
  BY DEF PaymentInv, TypeOK, PaymentRecord
<1>2. /\ orders'[payments[p].order].status = "paid"
      /\ \A a \in Orders \ {payments[p].order} : orders'[a].status = orders[a].status
  BY RowFields DEF PaymentInv, TypeOK, OrderRecord, PayOrder
<1>3. payments[p].order \in Orders /\ p \in PendingOf(payments[p].order)
  BY RowFields DEF PaymentInv, PendingOf
<1>4. Lifecycle!Pay(payments[p].order, p)
  BY <1>1, <1>2, <1>3, PayMove
<1> QED BY <1>3, <1>4, MovesOfOrder

LEMMA PaymentsMove ==
  ASSUME PaymentInv,
         \/ \E x \in Providers : CallbackSuccess(x)
         \/ \E x \in Providers : CallbackFailure(x)
         \/ \E o \in Orders : ConfirmCod(o)
  PROVE  Moves
<1>1. ASSUME NEW x \in Providers, CallbackSuccess(x)
      PROVE  Moves
  BY <1>1, PayingMoves DEF CallbackSuccess, AcceptsCallback, Live
<1>2. ASSUME NEW x \in Providers, CallbackFailure(x)
      PROVE  Moves
  <2>1. PICK p \in Payments :
          /\ payments[p].status = "pending"
          /\ orders[payments[p].order].status = "pending"
          /\ payments' = [payments EXCEPT ![p].status = "failed"]
          /\ CancelOrder(payments[p].order)
    BY <1>2 DEF CallbackFailure, AcceptsCallback, Live
  <2> DEFINE o == payments[p].order
  <2>2. o \in Orders /\ PendingOf(o) = {p}
    BY <2>1, RowFields DEF PaymentInv, OnePendingPayment, PendingOf
  <2>3. /\ orders'[o].status = "cancelled"
        /\ \A a \in Orders \ {o} : orders'[a].status = orders[a].status
    BY <2>1, <2>2 DEF CancelOrder, PaymentInv, TypeOK, OrderRecord
  <2>4. \A q \in Payments :
          /\ payments'[q].order = payments[q].order
          /\ payments'[q].status = IF q \in PendingOf(o) THEN "failed" ELSE payments[q].status
    BY <2>1, <2>2 DEF PaymentInv, TypeOK, PaymentRecord
  <2>5. Lifecycle!Close(o)
    BY <2>1, <2>2, <2>3, <2>4, CloseMove
  <2> QED BY <2>2, <2>5, MovesOfOrder
<1>3. ASSUME NEW o \in Orders, ConfirmCod(o)
      PROVE  Moves
  BY <1>3, PayingMoves DEF ConfirmCod
<1> QED BY <1>1, <1>2, <1>3

LEMMA ProofStepsMove ==
  ASSUME PaymentInv, NEW f \in Proofs,
         \/ \E p \in Payments : UploadProof(f, p)
         \/ CheckPolicy(f)
         \/ InsertProof(f)
         \/ ApproveProof(f)
         \/ RejectProof(f)
  PROVE  Moves
<1>1. CASE CheckPolicy(f) \/ InsertProof(f) \/ \E p \in Payments : UploadProof(f, p)
  BY <1>1, Stutter DEF Moves, UploadProof, CheckPolicy, InsertProof
<1>2. CASE ApproveProof(f)
  BY <1>2, RowFields, PayingMoves DEF PaymentInv, ApproveProof, MayReview, Live
<1>3. CASE RejectProof(f)
  <2> DEFINE p == proofs[f].payment
  <2>1. /\ p \in Payments
        /\ payments[p].status = "pending"
        /\ payments[p].order \in Orders
        /\ orders[payments[p].order].status = "pending"
        /\ orders' = orders
    BY <1>3, RowFields DEF PaymentInv, RejectProof, MayReview, Live
  <2>2. \A q \in Payments :
          /\ payments'[q].order = payments[q].order
          /\ payments'[q].status = IF q \in {p} THEN "failed" ELSE payments[q].status
    BY <1>3, <2>1 DEF RejectProof, PaymentInv, TypeOK, PaymentRecord
  <2>3. Lifecycle!Withdraw("failed")
    BY <2>1, <2>2, WithdrawMove, ZenonT(60)
  <2> QED BY <2>3 DEF Moves, Lifecycle!LNext, Lifecycle!Lost
<1> QED BY <1>1, <1>2, <1>3

LEMMA AdminUpdateMoves ==
  ASSUME PaymentInv, NEW o \in Orders, NEW s \in OrderStatuses, AdminUpdate(o, s)
  PROVE  Moves
<1>1. /\ payments' = payments
      /\ orders'[o].status = s
      /\ \A a \in Orders \ {o} : orders'[a].status = orders[a].status
  BY DEF AdminUpdate, CancelOrder, PaymentInv, TypeOK, OrderRecord
<1>2. CASE s = "cancelled"
  <2>1. orders[o].status \in {"pending"} \union (Paid \ {"delivered"})
    BY <1>2 DEF AdminUpdate, Transitions, Paid
  <2>2. \A p \in Payments :
          /\ payments'[p].order = payments[p].order
          /\ payments'[p].status = IF p \in PendingOf(o) THEN "pending" ELSE payments[p].status
    BY <1>1 DEF PendingOf
  <2>3. Lifecycle!Close(o)
    BY <1>1, <1>2, <2>1, <2>2, CloseMove
  <2> QED BY <2>3, MovesOfOrder
<1>3. CASE s # "cancelled"
  <2>1. Stage(s) = Stage(orders[o].status)
    BY <1>3 DEF AdminUpdate, Transitions, Stage
  <2>2. \A a \in Orders : Stage(orders'[a].status) = Stage(orders[a].status)
    BY <1>1, <2>1
  <2> QED BY <1>1, <2>2, Stutter DEF Moves
<1> QED BY <1>2, <1>3

LEMMA ExpiryMoves ==
  ASSUME PaymentInv, ExpireStaleInstapay \/ \E o \in Orders : ExpireOrder(o)
  PROVE  Moves
<1>1. CASE ExpireStaleInstapay
  <2>1. PICK swept \in SUBSET StaleInstapay : payments' = MarkAll(swept, "expired")
    BY <1>1 DEF ExpireStaleInstapay
  <2>2. /\ swept \in SUBSET Payments
        /\ \A p \in swept : /\ payments[p].status = "pending"
                            /\ payments[p].order \in Orders
                            /\ orders[payments[p].order].status = "pending"
        /\ orders' = orders
    BY <1>1, RowFields DEF PaymentInv, StaleInstapay, ExpireStaleInstapay
  <2>3. \A p \in Payments :
          /\ payments'[p].order = payments[p].order
          /\ payments'[p].status = IF p \in swept THEN "expired" ELSE payments[p].status
    BY <2>1 DEF MarkAll, PaymentInv, TypeOK, PaymentRecord
  <2>4. Lifecycle!Withdraw("expired")
    BY <2>2, <2>3, WithdrawMove
  <2> QED BY <2>4 DEF Moves, Lifecycle!LNext, Lifecycle!Lost
<1>2. ASSUME NEW o \in Orders, ExpireOrder(o)
      PROVE  Moves
  <2>1. /\ orders[o].status = "pending"
        /\ orders'[o].status = "cancelled"
        /\ \A a \in Orders \ {o} : orders'[a].status = orders[a].status
    BY <1>2 DEF ExpireOrder, Expirable, CancelOrder, PaymentInv, TypeOK, OrderRecord
  <2>2. \A p \in Payments :
          /\ payments'[p].order = payments[p].order
          /\ payments'[p].status = IF p \in PendingOf(o) THEN "expired" ELSE payments[p].status
    BY <1>2 DEF ExpireOrder, MarkAll, PaymentInv, TypeOK, PaymentRecord
  <2>3. Lifecycle!Close(o)
    BY <2>1, <2>2, CloseMove
  <2> QED BY <2>3, MovesOfOrder
<1> QED BY <1>1, <1>2

LEMMA EveryStepMoves ==
  ASSUME PaymentInv, [Next]_vars
  PROVE  Moves
<1>1. CASE Tick \/ UNCHANGED vars
  BY <1>1, Stutter DEF Tick, vars, Moves
<1> QED
  BY <1>1, CreateOrderMoves, SetMethodMoves, GetOrClaimMoves, ClaimStepsMove, PaymentsMove,
     ProofStepsMove, AdminUpdateMoves, ExpiryMoves DEF Next

LEMMA FirstStateMaps == Init => Lifecycle!LInit
<1> SUFFICES ASSUME Init PROVE Lifecycle!LInit
  OBVIOUS
<1>1. StageOf = [o \in Orders |-> "unplaced"]
  BY DEF Init, StageOf, Stage
<1>2. LifecycleRows = [p \in Payments |-> Lifecycle!FreeRow]
  BY DEF Init, LifecycleRows, LifecycleRow, Lifecycle!FreeRow
<1> QED BY <1>1, <1>2 DEF Lifecycle!LInit

\* Whatever is called in whatever order, for any number of orders and rows, the
\* functions of the database make only the moves of OrderLifecycle.
THEOREM LifecycleImplemented == Spec => ImplementsLifecycle
<1>1. ASSUME PaymentInv, [Next]_vars
      PROVE  [Lifecycle!LNext]_(Lifecycle!lifecycleVars)
  BY <1>1, EveryStepMoves DEF Moves
<1> QED
  BY <1>1, FirstStateMaps, PaymentInvariant, PTL
  DEF Spec, ImplementsLifecycle, Lifecycle!LSpec
=============================================================================
