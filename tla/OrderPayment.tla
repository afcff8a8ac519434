---------------------------- MODULE OrderPayment ----------------------------
(***************************************************************************)
(* The order and payment state machine of the store, as the SQL functions  *)
(* of supabase/migrations define it.  A function that reads before it      *)
(* writes takes the order's row lock first (FOR UPDATE) and runs in one    *)
(* transaction; marking and releasing a claim, and the sweep, are single   *)
(* UPDATEs that re-read the rows they lock.  So a function is one atomic   *)
(* step here.  The insert of a transfer proof locks neither order nor      *)
(* payment, and is two steps: its policy reads a snapshot, and its index   *)
(* entry may wait for a review.  A call that is refused changes nothing    *)
(* and is a stuttering step.  Callers (edge functions, the app, the        *)
(* administrator, pg_cron) may call in any order, with any of the          *)
(* arguments enumerated.                                                   *)
(***************************************************************************)
EXTENDS Integers, FiniteSets

CONSTANTS
    Orders,         \* order ids
    Payments,       \* rows available to the payments table
    Providers,      \* order ids handed out by the payment provider
    Proofs,         \* InstaPay transfer proofs; a proof also names its file
    Variants,       \* product variants
    Need,           \* stock a line takes at checkout: metres rounded up, or pieces
    Quantity,       \* the line's quantity column, which a restoration gives back
    InitialStock,
    CardWindow,     \* 15 minutes: reservation of a card or cash order
    InstapayWindow, \* 24 hours: reservation of an InstaPay order
    InstapayStale,  \* 24 hours: age at which a pending InstaPay row is swept
    ClaimLease,     \* 5 minutes: lease of an initiation claim
    MaxNow,         \* bound on the clock
    MaxTokens,      \* bound on the claim tokens drawn
    NoProvider      \* NULL of payments.paymob_order_id

ASSUME WindowsAssumption ==
    /\ CardWindow \in Nat \ {0}
    /\ InstapayWindow \in Nat \ {0}
    /\ InstapayStale \in Nat
    /\ InstapayWindow <= InstapayStale
    /\ CardWindow <= InstapayWindow
    /\ ClaimLease \in Nat
    /\ MaxNow \in Nat
    /\ MaxTokens \in Nat

ASSUME LinesAssumption ==
    /\ Need \in [Orders -> [Variants -> Nat]]
    /\ Quantity \in [Orders -> [Variants -> Nat]]
    /\ InitialStock \in [Variants -> Nat]

ASSUME NullAssumption == NoProvider \notin Providers

VARIABLES
    orders,     \* the orders table, with the restored flag of its lines
    payments,   \* the payments table
    proofs,     \* the instapay_proofs table and the files of its bucket
    stock,      \* product_variants.stock
    ledger,     \* the stock_restorations table
    now,        \* the database clock
    tokens      \* claim tokens drawn so far: a fresh one is tokens + 1

vars == <<orders, payments, proofs, stock, ledger, now, tokens>>

Methods == {"cod", "card", "instapay"}
OrderStatuses == {"none", "pending", "paid", "processing", "shipped",
                  "delivered", "cancelled"}
PaymentStatuses == {"none", "pending", "success", "failed", "cancelled", "expired"}
Phases == {"none", "pre_provider", "provider_submitted", "provider_persisted"}
\* "uploaded": the file is in the bucket and has no row; no policy lets anyone
\* but the service delete it.  "checked": its row passed the insert policy, on
\* the snapshot of the statement, and is not in the unique index yet
Outcomes == {"absent", "uploaded", "checked", "open", "approved", "rejected"}

Window(m) == IF m = "instapay" THEN InstapayWindow ELSE CardWindow

-----------------------------------------------------------------------------
(* Queries the functions make. *)

Live(o) == orders[o].status = "pending" /\ now < orders[o].expires

\* payments of an order that are still pending
PendingOf(o) ==
    {p \in Payments : payments[p].status = "pending" /\ payments[p].order = o}

FreeRows == {p \in Payments : payments[p].status = "none"}

\* the provider may already hold an order for this payment
InFlight(p) ==
    \/ payments[p].provider # NoProvider
    \/ payments[p].phase \in {"provider_submitted", "provider_persisted"}

NewPayment(o, m, phase, token) ==
    [status |-> "pending", order |-> o, method |-> m, created |-> now,
     phase |-> phase, claimed |-> now, token |-> token, provider |-> NoProvider]

\* UPDATE payments SET status = s WHERE id IN ps
MarkAll(ps, s) ==
    [p \in Payments |-> IF p \in ps THEN [payments[p] EXCEPT !.status = s]
                                    ELSE payments[p]]

\* mutant: the trigger gives back one piece per line whatever its quantity
GiveBackOne(o) == [v \in Variants |-> stock[v] + (IF Quantity[o][v] > 0 THEN 1 ELSE 0)]

\* trg_restore_stock_on_item over the lines of an order
GiveBack(o) == [v \in Variants |-> stock[v] + Quantity[o][v]]

\* UPDATE orders SET status = 'paid' WHERE status = 'pending'
PayOrder(o) ==
    orders' = [orders EXCEPT ![o].status = IF @ = "pending" THEN "paid" ELSE @]

\* status = 'cancelled', then restored = true on the lines not restored yet
CancelOrder(o) ==
    /\ orders' = [orders EXCEPT ![o].status = "cancelled", ![o].restored = TRUE]
    /\ stock' = IF orders[o].restored THEN stock ELSE GiveBack(o)

-----------------------------------------------------------------------------
Init ==
    /\ orders = [o \in Orders |-> [status |-> "none", method |-> "cod",
                                   expires |-> 0, restored |-> FALSE]]
    /\ \E o \in Orders :   \* an unused row's references are arbitrary
         payments = [p \in Payments |->
                       [status |-> "none", order |-> o, method |-> "cod",
                        created |-> 0, phase |-> "none", claimed |-> 0,
                        token |-> 0, provider |-> NoProvider]]
    /\ \E p \in Payments :
         proofs = [f \in Proofs |-> [outcome |-> "absent", payment |-> p]]
    /\ stock = InitialStock
    /\ ledger = {}
    /\ now = 0
    /\ tokens = 0

Tick ==
    /\ now < MaxNow
    /\ now' = now + 1
    /\ UNCHANGED <<orders, payments, proofs, stock, ledger, tokens>>

\* mutant: the guarded decrement loses its WHERE stock >= need
CreateOrderUnguarded(o, m) ==
    /\ orders[o].status = "none"
    /\ orders' = [orders EXCEPT ![o] =
                    [status |-> "pending", method |-> m,
                     expires |-> now + Window(m), restored |-> FALSE]]
    /\ stock' = [v \in Variants |-> stock[v] - Need[o][v]]
    /\ IF m = "cod"
       THEN \E p \in FreeRows :
              payments' = [payments EXCEPT ![p] = NewPayment(o, "cod", "none", 0)]
       ELSE payments' = payments
    /\ UNCHANGED <<proofs, ledger, now, tokens>>

\* create_checkout_order: reserves the stock of every line or fails as a whole;
\* only a cash order gets its payment row here
CreateOrder(o, m) ==
    /\ orders[o].status = "none"
    /\ \A v \in Variants : Need[o][v] <= stock[v]
    /\ orders' = [orders EXCEPT ![o] =
                    [status |-> "pending", method |-> m,
                     expires |-> now + Window(m), restored |-> FALSE]]
    /\ stock' = [v \in Variants |-> stock[v] - Need[o][v]]
    /\ IF m = "cod"
       THEN \E p \in FreeRows :
              payments' = [payments EXCEPT ![p] = NewPayment(o, "cod", "none", 0)]
       ELSE payments' = payments
    /\ UNCHANGED <<proofs, ledger, now, tokens>>

\* pending rows of another method that a method change cancels
Superseded(o, m) == {p \in PendingOf(o) : payments[p].method # m /\ ~InFlight(p)}

\* mutant: a payment the provider may hold does not block the change
MayLeaveAlways(o, m) == m \in Methods /\ o \in Orders

\* payment_in_progress: once the provider may hold the order, only card is left
MayLeave(o, m) == m = "card" \/ \A p \in PendingOf(o) : ~InFlight(p)

Renewable(o) == Live(o)

\* mutant: every call starts a new reservation window
RenewsAlways(o, m) == m \in Methods /\ o \in Orders

\* a change of method starts a new reservation window
Renews(o, m) == orders[o].method # m

\* set_pending_order_payment_method
SetMethod(o, m) ==
    /\ Renewable(o)
    /\ MayLeave(o, m)
    /\ orders' = [orders EXCEPT
                    ![o].method = m,
                    ![o].expires = IF Renews(o, m) THEN now + Window(m) ELSE @]
    /\ LET kept == MarkAll(Superseded(o, m), "cancelled")
       IN  \/ /\ \E p \in PendingOf(o) : payments[p].method = m
              /\ payments' = kept
           \/ /\ \A p \in PendingOf(o) : payments[p].method # m
              /\ \E p \in FreeRows :
                    payments' = [kept EXCEPT ![p] = NewPayment(o, m, "none", 0)]
    /\ UNCHANGED <<proofs, stock, ledger, now, tokens>>

-----------------------------------------------------------------------------
(* Card payments: the claim of an initiation, and the provider's callback. *)

PendingCards(o) == {p \in PendingOf(o) : payments[p].method = "card"}

\* mutant: the lease also ends a claim that was submitted to the provider
ClaimHeldForLease(p) ==
    /\ payments[p].phase \in {"pre_provider", "provider_submitted"}
    /\ payments[p].claimed + ClaimLease > now

\* another request holds the claim of this payment
ClaimHeld(p) ==
    \/ payments[p].phase = "provider_submitted"
    \/ payments[p].phase = "pre_provider" /\ payments[p].claimed + ClaimLease > now

\* the answer of get_or_claim_paymob_payment
ClaimCode(o) ==
    IF orders[o].status # "pending" THEN "order_not_pending"
    ELSE IF ~Live(o) THEN "order_expired"
    ELSE IF orders[o].method # "card" THEN "unsupported_payment_method"
    ELSE IF \E p \in PendingCards(o) : payments[p].provider # NoProvider
         THEN "existing_provider_order"
    ELSE IF \E p \in PendingCards(o) : ClaimHeld(p) THEN "initiation_in_progress"
    ELSE "claimed"

\* get_or_claim_paymob_payment, when it grants the claim of row p
GetOrClaim(o, p) ==
    /\ ClaimCode(o) = "claimed"
    /\ tokens < MaxTokens
    /\ tokens' = tokens + 1
    /\ \/ /\ PendingCards(o) = {}
          /\ p \in FreeRows
          /\ payments' = [payments EXCEPT
                            ![p] = NewPayment(o, "card", "pre_provider", tokens + 1)]
       \/ /\ p \in PendingCards(o)
          /\ payments' = [payments EXCEPT ![p].phase = "pre_provider",
                                          ![p].claimed = now,
                                          ![p].token = tokens + 1]
    /\ UNCHANGED <<orders, proofs, stock, ledger, now>>

\* mutant: the phase of the claim is not compared
HoldsClaimOfAnyPhase(p, token) ==
    /\ payments[p].status = "pending"
    /\ payments[p].token = token
    /\ payments[p].provider = NoProvider

\* the WHERE clause that protects a claim from another holder
HoldsClaim(p, token) ==
    /\ payments[p].status = "pending"
    /\ payments[p].phase = "pre_provider"
    /\ payments[p].token = token
    /\ payments[p].provider = NoProvider

\* mark_paymob_initiation_submitted
MarkSubmitted(p, token) ==
    /\ HoldsClaim(p, token)
    /\ payments' = [payments EXCEPT ![p].phase = "provider_submitted"]
    /\ UNCHANGED <<orders, proofs, stock, ledger, now, tokens>>

\* release_paymob_initiation_claim
ReleaseClaim(p, token) ==
    /\ HoldsClaim(p, token)
    /\ payments' = [payments EXCEPT ![p].phase = "none", ![p].token = 0]
    /\ UNCHANGED <<orders, proofs, stock, ledger, now, tokens>>

\* mutant: a stale holder may overwrite the provider order that was persisted
MayPersistAgain(p, token, x) ==
    /\ payments[p].status = "pending"
    /\ payments[p].phase \in {"provider_submitted", "provider_persisted"}
    /\ x \in Providers
    /\ token \in 0..tokens

\* the guards of set_payment_provider_order_id_claim on the payment row
MayPersist(p, token, x) ==
    /\ payments[p].status = "pending"
    /\ payments[p].provider = NoProvider
    /\ payments[p].phase = "provider_submitted"
    /\ payments[p].token = token
    /\ \A q \in Payments : payments[q].provider # x

\* set_payment_provider_order_id_claim
PersistProviderOrder(p, token, x) ==
    /\ payments[p].status = "pending"
    /\ Live(payments[p].order)
    /\ MayPersist(p, token, x)
    /\ payments' = [payments EXCEPT ![p].provider = x, ![p].phase = "provider_persisted"]
    /\ UNCHANGED <<orders, proofs, stock, ledger, now, tokens>>

\* mutant: the race guard looks at the payment only
AcceptsOnPaymentOnly(p) ==
    payments[p].status = "pending" /\ orders[payments[p].order].status # "none"

\* mutant: no order_expired answer before the legacy body (before migration 073)
AcceptsExpired(p) ==
    payments[p].status = "pending" /\ orders[payments[p].order].status = "pending"

\* process_paymob_callback lets the result of the provider through
AcceptsCallback(p) == payments[p].status = "pending" /\ Live(payments[p].order)

\* process_paymob_callback with the order's amount and currency, success
CallbackSuccess(x) ==
    \E p \in Payments :
      /\ payments[p].provider = x
      /\ AcceptsCallback(p)
      /\ payments' = [payments EXCEPT ![p].status = "success"]
      /\ PayOrder(payments[p].order)
      /\ UNCHANGED <<proofs, stock, ledger, now, tokens>>

\* process_paymob_callback with the order's amount and currency, failure
CallbackFailure(x) ==
    \E p \in Payments :
      /\ payments[p].provider = x
      /\ AcceptsCallback(p)
      /\ payments' = [payments EXCEPT ![p].status = "failed"]
      /\ CancelOrder(payments[p].order)
      /\ UNCHANGED <<proofs, ledger, now, tokens>>

-----------------------------------------------------------------------------
(* Cash and InstaPay payments. *)

\* mutant: the order is promoted whether or not a cash row was found (migration 018)
ConfirmCodNoRow(o) ==
    /\ orders[o].status = "pending"
    /\ orders[o].method = "cod"
    /\ PayOrder(o)
    /\ UNCHANGED <<payments, proofs, stock, ledger, now, tokens>>

\* confirm_cod_payment: of the order's cash rows, whatever their status, the
\* SELECT INTO takes one; it has no ORDER BY, so any of them
ConfirmCod(o) ==
    /\ orders[o].status = "pending"
    /\ orders[o].method = "cod"
    /\ \E p \in Payments :
         /\ payments[p].status = "pending"
         /\ payments[p].order = o
         /\ payments[p].method = "cod"
         /\ payments' = [payments EXCEPT ![p].status = "success"]
    /\ PayOrder(o)
    /\ UNCHANGED <<proofs, stock, ledger, now, tokens>>

\* the upload of instapay-submit-proof; the path names the payment found pending
UploadProof(f, p) ==
    /\ proofs[f].outcome = "absent"
    /\ payments[p].status = "pending"
    /\ payments[p].method = "instapay"
    /\ proofs' = [proofs EXCEPT ![f] = [outcome |-> "uploaded", payment |-> p]]
    /\ UNCHANGED <<orders, payments, stock, ledger, now, tokens>>

\* instapay_proofs_insert_own: the payment still awaits its transfer
MayInsert(f) ==
    LET p == proofs[f].payment IN
    payments[p].status = "pending" /\ Live(payments[p].order)

\* INSERT INTO instapay_proofs: the policy is evaluated without a lock
CheckPolicy(f) ==
    /\ proofs[f].outcome = "uploaded"
    /\ MayInsert(f)
    /\ proofs' = [proofs EXCEPT ![f].outcome = "checked"]
    /\ UNCHANGED <<orders, payments, stock, ledger, now, tokens>>

\* another proof of the payment waits for its review
OtherOpen(f) == \E g \in Proofs : proofs[g] = [proofs[f] EXCEPT !.outcome = "open"]

\* the same INSERT reaches uq_instapay_proofs_one_pending_per_payment, where it
\* waits for a review that is under way; the policy is not evaluated again
InsertProof(f) ==
    /\ proofs[f].outcome = "checked"
    /\ proofs' = [proofs EXCEPT ![f].outcome = IF OtherOpen(f) THEN "uploaded" ELSE "open"]
    /\ UNCHANGED <<orders, payments, stock, ledger, now, tokens>>

\* mutant: the review does not look at the status of the payment
MayReviewDecided(f) == Live(payments[proofs[f].payment].order)

\* mutant: the review of migration 041 looks at the payment only
MayReviewPayment(f) ==
    /\ payments[proofs[f].payment].status = "pending"
    /\ orders[payments[proofs[f].payment].order].status # "none"

MayReview(f) ==
    LET p == proofs[f].payment IN
    payments[p].status = "pending" /\ Live(payments[p].order)

\* review_instapay_proof, approved
ApproveProof(f) ==
    /\ proofs[f].outcome = "open"
    /\ MayReview(f)
    /\ payments' = [payments EXCEPT ![proofs[f].payment].status = "success"]
    /\ PayOrder(payments[proofs[f].payment].order)
    /\ proofs' = [proofs EXCEPT ![f].outcome = "approved"]
    /\ UNCHANGED <<stock, ledger, now, tokens>>

\* review_instapay_proof, rejected: the order stays pending until it expires or
\* is paid another way
RejectProof(f) ==
    /\ proofs[f].outcome = "open"
    /\ MayReview(f)
    /\ payments' = [payments EXCEPT ![proofs[f].payment].status = "failed"]
    /\ proofs' = [proofs EXCEPT ![f].outcome = "rejected"]
    /\ UNCHANGED <<orders, stock, ledger, now, tokens>>

-----------------------------------------------------------------------------
(* The administrator and the expiry worker. *)

\* mutant: a delivered order may still be cancelled
TransitionsLate(s) ==
    CASE s = "pending"    -> {"cancelled"}
      [] s = "paid"       -> {"processing", "cancelled"}
      [] s = "processing" -> {"shipped", "cancelled"}
      [] s \in {"shipped", "delivered"} -> {"delivered", "cancelled"}
      [] OTHER            -> {}

\* mutant: an order in preparation may be set back
TransitionsBack(s) ==
    CASE s = "pending"    -> {"cancelled"}
      [] s = "paid"       -> {"processing", "cancelled"}
      [] s = "processing" -> {"paid", "shipped", "cancelled"}
      [] s = "shipped"    -> {"delivered", "cancelled"}
      [] OTHER            -> {}

\* the transitions update_order_status lets an administrator make
Transitions(s) ==
    CASE s = "pending"    -> {"cancelled"}
      [] s = "paid"       -> {"processing", "cancelled"}
      [] s = "processing" -> {"shipped", "cancelled"}
      [] s = "shipped"    -> {"delivered", "cancelled"}
      [] OTHER            -> {}

\* update_order_status; it does not look at the payments
AdminUpdate(o, s) ==
    /\ s \in Transitions(orders[o].status)
    /\ IF s = "cancelled"
       THEN /\ ledger' = ledger \union {o}
            /\ IF o \in ledger
               THEN orders' = [orders EXCEPT ![o].status = s] /\ stock' = stock
               ELSE CancelOrder(o)
       ELSE /\ orders' = [orders EXCEPT ![o].status = s]
            /\ UNCHANGED <<stock, ledger>>
    /\ UNCHANGED <<payments, proofs, now, tokens>>

Expirable(o) == orders[o].status = "pending" /\ orders[o].expires < now

\* expire_pending_order; an order with a successful payment is passed over
ExpireOrder(o) ==
    /\ Expirable(o)
    /\ ~\E p \in Payments : payments[p].status = "success" /\ payments[p].order = o
    /\ CancelOrder(o)
    /\ payments' = MarkAll(PendingOf(o), "expired")
    /\ UNCHANGED <<proofs, ledger, now, tokens>>

\* pending InstaPay rows the sweep looks at
StaleInstapay ==
    {p \in Payments :
       /\ payments[p].status = "pending"
       /\ payments[p].method = "instapay"
       /\ payments[p].created + InstapayStale < now
       /\ orders[payments[p].order].status = "pending"}

\* expire_stale_instapay_payments; SKIP LOCKED may leave some rows for later
ExpireStaleInstapay ==
    /\ \E swept \in SUBSET StaleInstapay :
         /\ swept # {}
         /\ payments' = MarkAll(swept, "expired")
    /\ UNCHANGED <<orders, proofs, stock, ledger, now, tokens>>

-----------------------------------------------------------------------------
Next ==
    \/ Tick
    \/ \E o \in Orders, m \in Methods : CreateOrder(o, m) \/ SetMethod(o, m)
    \/ \E o \in Orders, p \in Payments : GetOrClaim(o, p)
    \/ \E p \in Payments, token \in 1..tokens :
          \/ MarkSubmitted(p, token)
          \/ ReleaseClaim(p, token)
          \/ \E x \in Providers : PersistProviderOrder(p, token, x)
    \/ \E x \in Providers : CallbackSuccess(x) \/ CallbackFailure(x)
    \/ \E o \in Orders : ConfirmCod(o)
    \/ \E f \in Proofs, p \in Payments : UploadProof(f, p)
    \/ \E f \in Proofs :
          CheckPolicy(f) \/ InsertProof(f) \/ ApproveProof(f) \/ RejectProof(f)
    \/ \E o \in Orders, s \in OrderStatuses : AdminUpdate(o, s)
    \/ \E o \in Orders : ExpireOrder(o)
    \/ ExpireStaleInstapay

\* pg_cron runs batch_expire_pending_orders every five minutes
Fairness == \A o \in Orders : WF_vars(ExpireOrder(o))

Spec == Init /\ [][Next]_vars /\ Fairness

-----------------------------------------------------------------------------
(* Safety. *)

OrderRecord == [status : OrderStatuses, method : Methods, expires : Nat,
                restored : BOOLEAN]

PaymentRecord == [status : PaymentStatuses, order : Orders, method : Methods,
                  created : Nat, phase : Phases, claimed : Nat, token : Nat,
                  provider : Providers \union {NoProvider}]

ProofRecord == [outcome : Outcomes, payment : Payments]

\* The shape of the tables; stock never goes below zero.
TypeOK ==
    /\ orders \in [Orders -> OrderRecord]
    /\ payments \in [Payments -> PaymentRecord]
    /\ proofs \in [Proofs -> ProofRecord]
    /\ stock \in [Variants -> Nat]
    /\ ledger \in SUBSET Orders
    /\ now \in Nat
    /\ tokens \in Nat

Successful(o) == {p \in Payments : payments[p].status = "success" /\ payments[p].order = o}

Paid == {"paid", "processing", "shipped", "delivered"}

\* An order waits for at most one payment at a time, of the method it names,
\* although the unique indexes only forbid two pending rows of one method:
\* changing the method, claiming a card and expiring must agree on it.
OnePendingPayment ==
    \A o \in Orders :
      /\ \A p, q \in PendingOf(o) : p = q
      /\ orders[o].status = "pending" =>
           \A p \in PendingOf(o) : payments[p].method = orders[o].method

\* An order is in fulfilment only when exactly one payment of it succeeded, and
\* no payment of an order that waits for payment did.
PaidOrdersSettled ==
    \A o \in Orders :
      /\ orders[o].status \in Paid => Successful(o) # {}
      /\ orders[o].status \in {"none", "pending"} => Successful(o) = {}
      /\ \A p, q \in Successful(o) : p = q

\* The inductive invariant behind the two: nothing is paid for an order before it
\* is placed, and the provider is only ever involved in card payments.
UnplacedHaveNoPayment ==
    \A o \in Orders : orders[o].status = "none" => PendingOf(o) = {}

Claimed(p) == payments[p].phase # "none" \/ payments[p].provider # NoProvider

OnlyCardsClaimed == \A p \in Payments : Claimed(p) => payments[p].method = "card"

PaymentInv ==
    /\ TypeOK
    /\ OnePendingPayment
    /\ PaidOrdersSettled
    /\ UnplacedHaveNoPayment
    /\ OnlyCardsClaimed

\* One piece of a variant for each that a line of these orders has of it.
Pieces(lines, os, v) == UNION {{o} \X (1..lines[o][v]) : o \in os}

\* Pieces of a variant held by orders that are neither cancelled nor unplaced.
Reserved(v) ==
    Cardinality(Pieces(Need, {o \in Orders : orders[o].status \notin {"none", "cancelled"}}, v))

\* Every piece is either on sale or held by exactly one order: a cancellation, by
\* whichever of the three paths, gives back once what checkout took.
StockConserved == \A v \in Variants : stock[v] + Reserved(v) = InitialStock[v]

\* The sweep of old InstaPay rows never takes the payment of an order whose
\* reservation still runs.
SweepSparesLiveOrders == \A p \in StaleInstapay : ~Live(payments[p].order)

Reviewed(p) ==
    {f \in Proofs : proofs[f].payment = p /\ proofs[f].outcome \in {"approved", "rejected"}}

\* At most one proof of an InstaPay payment is ever reviewed, and that review, not
\* anything else, decides whether the payment succeeded or failed: a second proof,
\* let in while the first was being reviewed, decides nothing.
ProofsDecidePayments ==
    \A p \in Payments : payments[p].method = "instapay" =>
      /\ \A f, g \in Reviewed(p) : f = g
      /\ payments[p].status = "success" <=>
           \E f \in Proofs : proofs[f] = [outcome |-> "approved", payment |-> p]
      /\ payments[p].status = "failed" <=>
           \E f \in Proofs : proofs[f] = [outcome |-> "rejected", payment |-> p]

(* What a step may never do. *)

SettlesStep ==
    \A p \in Payments :
      payments[p].status # "success" /\ payments'[p].status = "success" =>
        LET o == payments[p].order IN
        orders[o].status = "pending" /\ orders'[o].status = "paid"

\* Money is recorded as received only together with the promotion of an order
\* that was still waiting for it: a late success of a cancelled order is refused.
SettlesTogether == [][SettlesStep]_vars

\* An order whose reservation has run out is never paid by card or InstaPay, even
\* before the worker gets to cancel it.
NoLatePayment ==
    [][\A o \in Orders :
         orders[o].status = "pending" /\ orders'[o].status = "paid" =>
           orders[o].method = "cod" \/ now < orders[o].expires]_vars

\* The provider's order of a payment stays the one first persisted, and such a
\* payment is never cancelled by a change of method: a customer may be paying it.
ProviderOrderKept ==
    [][\A p \in Payments : payments[p].provider # NoProvider =>
         /\ payments'[p].provider = payments[p].provider
         /\ payments'[p].status = "cancelled" => payments[p].status = "cancelled"]_vars

FinalStep ==
    /\ \A o \in Orders : orders[o].status \in {"delivered", "cancelled"} =>
          orders'[o] = orders[o]
    /\ \A p \in Payments : payments[p].status \notin {"none", "pending"} =>
          payments'[p] = payments[p]

\* A delivered or cancelled order and a payment that left pending never change.
TerminalIsFinal == [][FinalStep]_vars

\* An order whose reservation ran out does not stay pending: the worker cancels it,
\* whatever the customer calls in the meantime.
DueOrdersLeavePending ==
    \A o \in Orders : Expirable(o) ~> orders[o].status # "pending"

(* What all of it adds up to. *)

Stage(status) ==
    CASE status = "none"      -> "unplaced"
      [] status = "pending"   -> "awaiting"
      [] status = "cancelled" -> "closed"
      [] OTHER                -> "fulfilling"

LifecycleRow(r) ==
    IF r.status = "none" THEN [status |-> "none"] ELSE [status |-> r.status, order |-> r.order]

StageOf == [o \in Orders |-> Stage(orders[o].status)]
LifecycleRows == [p \in Payments |-> LifecycleRow(payments[p])]

Lifecycle == INSTANCE OrderLifecycle WITH stage <- StageOf, rows <- LifecycleRows

\* The functions, whatever the order of their calls, are the moves of
\* OrderLifecycle: seen from outside, an order waits for one row, and the eleven ways
\* to change a row or an order are five.
ImplementsLifecycle == Lifecycle!LSpec
=============================================================================
