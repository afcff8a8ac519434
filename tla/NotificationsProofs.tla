-------------------------- MODULE NotificationsProofs --------------------------
(***************************************************************************)
(* What customers are told stays true and is told once, for every set of   *)
(* orders, whatever the Vault holds and however late pg_net is.            *)
(***************************************************************************)
EXTENDS Notifications, OrderPaymentProofs

-----------------------------------------------------------------------------
(* The statuses of an order follow each other along a graph without a cycle.  *)

Follows(s, t) ==
    \/ t \in Transitions(s)
    \/ s = "none" /\ t = "pending"
    \/ s = "pending" /\ t = "paid"

StatusStep ==
    \A o \in Orders : \/ orders'[o].status = orders[o].status
                      \/ Follows(orders[o].status, orders'[o].status)

\* A step that changes one order, if any, along the graph.
LEMMA OneOrderFollows ==
  ASSUME NEW o \in Orders,
         \A a \in Orders \ {o} : orders'[a] = orders[a],
         orders'[o].status = orders[o].status \/ Follows(orders[o].status, orders'[o].status)
  PROVE  StatusStep
  BY DEF StatusStep

LEMMA PayingFollows ==
  ASSUME TypeOK, NEW o \in Orders, PayOrder(o)
  PROVE  StatusStep
<1>1. /\ orders'[o].status = IF orders[o].status = "pending" THEN "paid" ELSE orders[o].status
      /\ \A a \in Orders \ {o} : orders'[a] = orders[a]
  BY DEF PayOrder, TypeOK, OrderRecord
<1> QED BY <1>1, OneOrderFollows DEF Follows

LEMMA PlacingFollows ==
  ASSUME NEW o \in Orders, Placing(o)
  PROVE  StatusStep
  BY OneOrderFollows DEF Placing, Follows

LEMMA CancellingFollows ==
  ASSUME TypeOK, NEW o \in Orders, CancelOrder(o), "cancelled" \in Transitions(orders[o].status)
  PROVE  StatusStep
<1>1. /\ orders'[o].status = "cancelled"
      /\ \A a \in Orders \ {o} : orders'[a] = orders[a]
  BY DEF CancelOrder, TypeOK, OrderRecord
<1> QED BY <1>1, OneOrderFollows DEF Follows

LEMMA AdminFollows ==
  ASSUME TypeOK, NEW o \in Orders, NEW s \in OrderStatuses, AdminUpdate(o, s)
  PROVE  StatusStep
<1>1. /\ orders'[o].status = s
      /\ \A a \in Orders \ {o} : orders'[a] = orders[a]
  BY DEF AdminUpdate, CancelOrder, TypeOK, OrderRecord
<1>2. s \in Transitions(orders[o].status)
  BY DEF AdminUpdate
<1> QED BY <1>1, <1>2, OneOrderFollows DEF Follows

\* Every function moves statuses along the graph.
LEMMA StatusesFollow ==
  ASSUME TypeOK, [Next]_vars
  PROVE  StatusStep
<1>1. CASE UNCHANGED orders
  BY <1>1 DEF StatusStep
<1>2. ASSUME NEW o \in Orders, NEW m \in Methods, CreateOrder(o, m) \/ SetMethod(o, m)
      PROVE  StatusStep
  <2>1. CASE SetMethod(o, m)
    <3>1. /\ orders'[o].status = orders[o].status
          /\ \A a \in Orders \ {o} : orders'[a] = orders[a]
      BY <2>1 DEF SetMethod, TypeOK, OrderRecord
    <3> QED BY <3>1, OneOrderFollows
  <2> QED BY <1>2, <2>1, CreateOrderMovesStock, PlacingFollows
<1>3. ASSUME NEW x \in Providers, CallbackSuccess(x)
      PROVE  StatusStep
  BY <1>3, RowFields, PayingFollows DEF CallbackSuccess
<1>4. ASSUME NEW x \in Providers, CallbackFailure(x)
      PROVE  StatusStep
  BY <1>4, RowFields, CancellingFollows DEF CallbackFailure, AcceptsCallback, Live, Transitions
<1>5. ASSUME NEW o \in Orders, ConfirmCod(o)
      PROVE  StatusStep
  BY <1>5, PayingFollows DEF ConfirmCod
<1>6. ASSUME NEW f \in Proofs, ApproveProof(f)
      PROVE  StatusStep
  BY <1>6, RowFields, PayingFollows DEF ApproveProof
<1>7. ASSUME NEW o \in Orders, ExpireOrder(o)
      PROVE  StatusStep
  BY <1>7, CancellingFollows DEF ExpireOrder, Expirable, Transitions
<1>8. ASSUME NEW o \in Orders, NEW p \in Payments, GetOrClaim(o, p)
      PROVE  UNCHANGED orders
  BY <1>8 DEF GetOrClaim
<1>9. ASSUME NEW p \in Payments, NEW token,
             \/ MarkSubmitted(p, token)
             \/ ReleaseClaim(p, token)
             \/ \E x \in Providers : PersistProviderOrder(p, token, x)
      PROVE  UNCHANGED orders
  BY <1>9 DEF MarkSubmitted, ReleaseClaim, PersistProviderOrder
<1>10. ASSUME NEW f \in Proofs,
              \/ CheckPolicy(f) \/ InsertProof(f) \/ RejectProof(f)
              \/ \E p \in Payments : UploadProof(f, p)
       PROVE  UNCHANGED orders
  BY <1>10 DEF CheckPolicy, InsertProof, RejectProof, UploadProof
<1>11. CASE Tick \/ UNCHANGED vars \/ ExpireStaleInstapay
  BY <1>1, <1>11 DEF Tick, vars, ExpireStaleInstapay
<1> QED
  BY <1>1, <1>2, <1>3, <1>4, <1>5, <1>6, <1>7, <1>8, <1>9, <1>10, <1>11, AdminFollows DEF Next

-----------------------------------------------------------------------------
(* What a message says. *)

LEMMA FinalSteps ==
  ASSUME PaymentInv, [Next]_vars
  PROVE  FinalStep
  BY StepKinds DEF PaymentInv, FinalStep, Settling, Inserts, Inserting, PendingOf

\* What a message says, once true, stays true.
LEMMA TruthStays ==
  ASSUME PaymentInv, [Next]_vars, NEW o \in Orders, NEW event \in Mails \union Pushes,
         TrueOf(o, event)
  PROVE  TrueOf(o, event)'
<1>1. FinalStep /\ StatusStep
  BY FinalSteps, StatusesFollow DEF PaymentInv
<1>2. CASE event = "payment_confirmed"
  <2>1. PICK p \in Payments : payments[p].status = "success" /\ payments[p].order = o
    BY <1>2 DEF TrueOf, Successful
  <2>2. payments'[p] = payments[p]
    BY <1>1, <2>1 DEF FinalStep
  <2>3. p \in Successful(o)'
    BY <2>1, <2>2 DEF Successful
  <2> QED BY <1>2, <2>3 DEF TrueOf
<1>3. CASE event \in {"order_delivered", "delivered", "order_cancelled", "cancelled"}
  <2>1. orders'[o] = orders[o]
    BY <1>1, <1>3 DEF TrueOf, FinalStep
  <2> QED BY <1>3, <2>1 DEF TrueOf
<1>4. CASE event \in {"order_placed", "processing", "order_shipped", "shipped"}
  BY <1>1, <1>4 DEF TrueOf, StatusStep, Follows, Transitions
<1> QED BY <1>2, <1>3, <1>4 DEF Mails, Pushes

EventsOf(status) == MailOf(status) \union ({status} \intersect Pushes)

\* What a message says becomes true in the very step that makes it, never before.
LEMMA TruthBegins ==
  ASSUME PaymentInv, PaymentInv', RestoredOnce', [Next]_vars, NEW o \in Orders,
         orders'[o].status # orders[o].status,
         NEW event \in EventsOf(orders'[o].status)
  PROVE  TrueOf(o, event)' /\ ~TrueOf(o, event)
<1> DEFINE before == orders[o].status
           after == orders'[o].status
<1>1. Follows(before, after)
  BY StatusesFollow DEF PaymentInv, StatusStep
<1>2. /\ after = "pending" => before = "none"
      /\ after = "paid" => before = "pending"
      /\ after = "processing" => before = "paid"
      /\ after = "shipped" => before = "processing"
      /\ after = "delivered" => before = "shipped"
      /\ after \in {"pending", "paid", "processing", "shipped", "delivered", "cancelled"}
  BY <1>1 DEF Follows, Transitions
<1>3. /\ after = "paid" => Successful(o) = {} /\ Successful(o)' # {}
      /\ after = "cancelled" => orders'[o].restored
  BY <1>2 DEF PaymentInv, PaidOrdersSettled, Paid, RestoredOnce
<1>4. /\ after = "pending" => event = "order_placed"
      /\ after = "paid" => event = "payment_confirmed"
      /\ after = "processing" => event = "processing"
      /\ after = "shipped" => event \in {"order_shipped", "shipped"}
      /\ after = "delivered" => event \in {"order_delivered", "delivered"}
      /\ after = "cancelled" => event \in {"order_cancelled", "cancelled"}
  BY <1>2 DEF EventsOf, MailOf, Pushes
<1>5. CASE after = "pending"
  BY <1>2, <1>4, <1>5 DEF TrueOf
<1>6. CASE after = "paid"
  BY <1>3, <1>4, <1>6 DEF TrueOf
<1>7. CASE after \in {"processing", "shipped", "delivered"}
  BY <1>2, <1>4, <1>7 DEF TrueOf
<1>8. CASE after = "cancelled"
  BY <1>3, <1>4, <1>8 DEF TrueOf
<1> QED BY <1>2, <1>5, <1>6, <1>7, <1>8

LEMMA MessageParts ==
  ASSUME NEW m \in Messages
  PROVE  m[1] \in Watched /\ m[1] \in Orders /\ m[2][2] \in Mails \union Pushes
  BY NotificationsAssumption DEF Messages

LEMMA WantedParts ==
  ASSUME NEW o \in Watched, NEW s, NEW m \in Wanted(o, s)
  PROVE  m \in Messages /\ m[1] = o /\ m[2][2] \in EventsOf(s)
<1>1. MailOf(s) \subseteq Mails
  BY DEF MailOf, Mails
<1> QED BY <1>1 DEF Wanted, Messages, EventsOf

-----------------------------------------------------------------------------
(* The inductive invariant. *)

\* Every message under way or delivered is true, and one under way was not delivered.
NotesInv ==
    /\ posts \subseteq Messages
    /\ told \in [Messages -> Nat]
    /\ \A m \in Messages : m \in posts \/ told[m] > 0 => TrueOf(m[1], m[2][2])
    /\ \A m \in posts : told[m] = 0
    /\ ToldOnce

MessagesInv ==
    /\ PaymentInv
    /\ StockInv
    /\ NotesInv

\* A transaction posts only messages that were not true before it.
LEMMA TransactionKeeps ==
  ASSUME MessagesInv, PaymentInv', StockInv', Next, Dispatch
  PROVE  NotesInv'
<1>1. [Next]_vars
  OBVIOUS
<1>2. ASSUME NEW m \in posts', m \notin posts
      PROVE  /\ m \in Messages
             /\ ~TrueOf(m[1], m[2][2]) /\ TrueOf(m[1], m[2][2])'
  <2>1. PICK o \in Changed : m \in Wanted(o, orders'[o].status)
    BY <1>2 DEF Dispatch
  <2>2. /\ o \in Watched /\ o \in Orders
        /\ orders'[o].status # orders[o].status
    BY NotificationsAssumption DEF Changed
  <2>3. m \in Messages /\ m[1] = o /\ m[2][2] \in EventsOf(orders'[o].status)
    BY <2>1, <2>2, WantedParts
  <2>4. ~TrueOf(o, m[2][2]) /\ TrueOf(o, m[2][2])'
    BY <1>1, <2>2, <2>3, TruthBegins DEF MessagesInv, StockInv
  <2> QED BY <2>3, <2>4
<1>3. told' = told
  BY DEF Dispatch
<1>4. posts' \subseteq Messages /\ told' \in [Messages -> Nat]
  BY <1>2, <1>3 DEF MessagesInv, NotesInv
<1>5. ASSUME NEW m \in Messages, m \in posts' \/ told'[m] > 0
      PROVE  TrueOf(m[1], m[2][2])'
  <2>1. CASE m \in posts \/ told[m] > 0
    <3>1. TrueOf(m[1], m[2][2])
      BY <2>1 DEF MessagesInv, NotesInv
    <3> QED BY <1>1, <3>1, MessageParts, TruthStays DEF MessagesInv
  <2> QED BY <1>2, <1>3, <1>5, <2>1
<1>6. ASSUME NEW m \in posts'
      PROVE  told'[m] = 0
  <2>1. CASE m \in posts
    BY <1>3, <2>1 DEF MessagesInv, NotesInv
  <2>2. CASE m \notin posts
    <3>1. m \in Messages /\ ~TrueOf(m[1], m[2][2])
      BY <1>2, <2>2
    <3>2. ~(told[m] > 0) /\ told[m] \in Nat
      BY <3>1 DEF MessagesInv, NotesInv
    <3> QED BY <1>3, <3>2
  <2> QED BY <2>1, <2>2
<1>7. ToldOnce'
  BY <1>3 DEF MessagesInv, NotesInv, ToldOnce
<1> QED BY <1>4, <1>5, <1>6, <1>7 DEF NotesInv

\* A delivery changes nothing but the message it delivers.
LEMMA DeliveryKeeps ==
  ASSUME MessagesInv, NEW post \in Messages, Deliver(post)
  PROVE  NotesInv'
<1>1. \A m \in Messages : TrueOf(m[1], m[2][2])' = TrueOf(m[1], m[2][2])
  BY DEF Deliver, vars, TrueOf, Successful
<1>2. /\ post \in posts /\ told[post] = 0
      /\ posts' = posts \ {post}
      /\ told' = told \/ told' = [told EXCEPT ![post] = @ + 1]
  BY DEF Deliver, MessagesInv, NotesInv
<1>3. /\ told' \in [Messages -> Nat]
      /\ \A m \in Messages : told'[m] = told[m] \/ (m = post /\ told'[m] = 1)
  BY <1>2 DEF MessagesInv, NotesInv
<1>4. posts' \subseteq Messages /\ \A m \in posts' : told'[m] = 0
  BY <1>2, <1>3 DEF MessagesInv, NotesInv
<1>5. ToldOnce'
  BY <1>3 DEF MessagesInv, NotesInv, ToldOnce
<1>6. \A m \in Messages : m \in posts' \/ told'[m] > 0 => TrueOf(m[1], m[2][2])'
  BY <1>1, <1>2, <1>3 DEF MessagesInv, NotesInv
<1> QED BY <1>3, <1>4, <1>5, <1>6 DEF NotesInv

LEMMA MessagesInvInit == NInit => MessagesInv
<1> SUFFICES ASSUME NInit PROVE MessagesInv
  OBVIOUS
<1>1. PaymentInv /\ StockInv
  BY PaymentInvInit, StockInvInit DEF NInit
<1>2. NotesInv
  BY DEF NInit, NotesInv, ToldOnce
<1> QED BY <1>1, <1>2 DEF MessagesInv

LEMMA MessagesInvStep ==
  MessagesInv /\ [NNext]_<<vars, noteVars>> => MessagesInv'
<1> SUFFICES ASSUME MessagesInv, [NNext]_<<vars, noteVars>> PROVE MessagesInv'
  OBVIOUS
<1>1. [Next]_vars
  BY DEF NNext, Transaction, Deliver
<1>2. PaymentInv' /\ StockInv'
  BY <1>1, PaymentInvStep, StockInvStep DEF MessagesInv
<1>3. CASE UNCHANGED <<vars, noteVars>>
  <2>1. /\ orders' = orders /\ payments' = payments
        /\ posts' = posts /\ told' = told
    BY <1>3 DEF vars, noteVars
  <2>2. \A m \in Messages : TrueOf(m[1], m[2][2])' = TrueOf(m[1], m[2][2])
    BY <2>1 DEF TrueOf, Successful
  <2>3. NotesInv'
    BY <2>1, <2>2 DEF MessagesInv, NotesInv, ToldOnce
  <2> QED BY <1>2, <2>3 DEF MessagesInv
<1>4. NotesInv'
  BY <1>2, <1>3, TransactionKeeps, DeliveryKeeps DEF NNext, Transaction, MessagesInv
<1> QED BY <1>2, <1>4 DEF MessagesInv

\* With its triggers in every transaction, the shop keeps the invariants of orders, payments
\* and stock, and what is under way or told is true.
THEOREM MessagesInvariant == NSpec => []MessagesInv
<1> QED BY MessagesInvInit, MessagesInvStep, PTL DEF NSpec

\* However late pg_net calls, what the customer reads is still true: the confirmed payment
\* is recorded, the cancelled order is cancelled for good and its stock is back.
THEOREM MessagesAlwaysHold == NSpec => []MessagesHold
<1>1. MessagesInv => MessagesHold
  BY DEF MessagesInv, NotesInv, MessagesHold
<1> QED BY <1>1, MessagesInvariant, PTL

\* No customer gets a message twice: no status is entered again, so what a new message says
\* was never true before.
THEOREM NeverToldTwice == NSpec => []ToldOnce
<1>1. MessagesInv => ToldOnce
  BY DEF MessagesInv, NotesInv
<1> QED BY <1>1, MessagesInvariant, PTL

\* The triggers change nothing about the stock.
THEOREM StockConservedWithTriggers ==
  ASSUME Quantity = Need
  PROVE  NSpec => []StockConserved
<1>1. MessagesInv => StockConserved
  BY BalanceConserves DEF MessagesInv
<1> QED BY <1>1, MessagesInvariant, PTL
=============================================================================
