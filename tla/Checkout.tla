------------------------------- MODULE Checkout -------------------------------
(***************************************************************************)
(* Placing an order: the client's use case, which keeps an idempotency key *)
(* across retries and restarts, and create_checkout_order, statement by    *)
(* statement under READ COMMITTED with its row locks.  A call is a process *)
(* with a client side, which may lose the answer, and a transaction, which *)
(* then runs on.  The expiry worker gives the pieces of an order back line *)
(* by line in a transaction of its own.                                    *)
(***************************************************************************)
EXTENDS AtomicCheckout

CONSTANTS
    Calls,      \* calls of the RPC that may run at the same time
    MaxMinute,  \* bound on the limiter's windows
    Impatient,  \* whether customers leave the page while a call is running
    NoKey,
    NoOrder,
    Nobody

ASSUME CheckoutAssumption ==
    /\ MaxMinute \in Nat
    /\ Impatient \in BOOLEAN
    /\ NoKey \notin Keys
    /\ NoOrder \notin Orders
    /\ Nobody \notin Users

VARIABLES
    calls,      \* the calls in progress
    worker,     \* the order the expiry worker restores, and its next line
    minute,     \* window of the limiter's counter, by the database clock
    pages,      \* the checkout page of each user: CheckoutCubit's state
    stored,     \* the key in the preferences of each user's device
    drawn,      \* keys generated so far
    answered    \* pending orders whose answer reached the app

clientVars == <<pages, stored, drawn, answered>>
workVars == <<worker, minute>>
vars == <<orders, stock, calls, worker, minute, pages, stored, drawn, answered>>

Steps == {"idle", "take", "lookup", "read", "insert", "lines", "answered"}
\* who waits for the answer of a call
Sides == {"page", "background", "gone"}
Answers == {"none", "refused", "pending", "closed"}

IdleCall == [step |-> "idle", side |-> "gone", user |-> Nobody, key |-> NoKey,
             cart |-> <<>>, minute |-> 0, line |-> 1, order |-> NoOrder,
             answer |-> "none", retry |-> FALSE]

\* a transaction begins: now() is taken here
NewCall(u, k, cart, retry) ==
    [IdleCall EXCEPT !.step = "take", !.side = "page", !.user = u, !.key = k,
                     !.cart = cart, !.minute = minute, !.retry = retry]

NewPage(cart) == [status |-> "open", key |-> NoKey, cart |-> cart]

NoWork == [order |-> NoOrder, line |-> 1]

ASSUME WorkerAssumption == NoWork \notin Calls

Init ==
    /\ AInit
    /\ calls = [c \in Calls |-> IdleCall]
    /\ worker = NoWork
    /\ minute = 0
    /\ pages \in [Users -> {NewPage(cart) : cart \in Carts}]
    /\ stored = [u \in Users |-> NoKey]
    /\ drawn = {}
    /\ answered = {}

At(c, step) == calls[c].step = step

Awaited(c) == ~At(c, "idle") /\ calls[c].side # "gone"

-----------------------------------------------------------------------------
(* The client: PlaceCheckoutOrderUseCase and the page that calls it. *)

\* the key of the session, else the stored one, else a new one
KeysFor(u) ==
    IF pages[u].key # NoKey THEN {pages[u].key}
    ELSE IF stored[u] # NoKey THEN {stored[u]}
    ELSE Keys \ drawn

\* createPendingOrder; the key is stored before the call is made
Submit(u, c) ==
    /\ pages[u].status = "open"
    /\ At(c, "idle")
    /\ \E k \in KeysFor(u) :
         /\ stored' = [stored EXCEPT ![u] = k]
         /\ drawn' = drawn \union {k}
         /\ calls' = [calls EXCEPT ![c] = NewCall(u, k, pages[u].cart, FALSE)]
    /\ pages' = [pages EXCEPT ![u].status = "creating"]
    /\ UNCHANGED <<orders, stock, workVars, answered>>

\* a page that is still there takes the outcome; a page that was left does not
Show(c, status, k) ==
    pages' = [pages EXCEPT ![calls[c].user] =
                IF calls[c].side = "page"
                THEN [@ EXCEPT !.status = status, !.key = k] ELSE @]

\* the order awaits payment: the stored key has done its job; the answer to the
\* second try is not looked at
ReceiveOrder(c) ==
    /\ At(c, "answered")
    /\ calls[c].answer = "pending" \/ (calls[c].answer = "closed" /\ calls[c].retry)
    /\ stored' = [stored EXCEPT ![calls[c].user] = NoKey]
    /\ answered' = answered \union {calls[c].order}
    /\ Show(c, "placing", calls[c].key)
    /\ calls' = [calls EXCEPT ![c] = IdleCall]
    /\ UNCHANGED <<orders, stock, workVars, drawn>>

\* the key named an order that is not pending any more: once more, with a new key
ReceiveClosed(c) ==
    /\ At(c, "answered")
    /\ calls[c].answer = "closed"
    /\ ~calls[c].retry
    /\ \E k \in Keys \ drawn :
         /\ stored' = [stored EXCEPT ![calls[c].user] = k]
         /\ drawn' = drawn \union {k}
         /\ calls' = [calls EXCEPT ![c] =
                        [NewCall(calls[c].user, k, calls[c].cart, TRUE)
                           EXCEPT !.side = calls[c].side]]
    /\ UNCHANGED <<orders, stock, workVars, pages, answered>>

\* the call failed: the key stays in the page and in the store
ReceiveFailure(c) ==
    /\ At(c, "answered")
    /\ calls[c].answer = "refused"
    /\ Show(c, "open", calls[c].key)
    /\ calls' = [calls EXCEPT ![c] = IdleCall]
    /\ UNCHANGED <<orders, stock, workVars, stored, drawn, answered>>

\* who abandons a call leaves its transaction running; an answer nobody waits
\* for is gone
Abandon(c) == IF At(c, "answered") THEN IdleCall ELSE [calls[c] EXCEPT !.side = "gone"]

\* mutant: a failed attempt forgets the stored key
LoseAnswerForgetting(c) ==
    /\ Awaited(c)
    /\ Show(c, "open", calls[c].key)
    /\ stored' = [stored EXCEPT ![calls[c].user] = NoKey]
    /\ calls' = [calls EXCEPT ![c] = Abandon(c)]
    /\ UNCHANGED <<orders, stock, workVars, drawn, answered>>

\* the connection breaks before the answer is there
LoseAnswer(c) ==
    /\ Awaited(c)
    /\ Show(c, "open", calls[c].key)
    /\ calls' = [calls EXCEPT ![c] = Abandon(c)]
    /\ UNCHANGED <<orders, stock, workVars, stored, drawn, answered>>

\* the page is closed and opened again later, maybe with another cart; a call in
\* flight goes on in the background
LeavePage(u) ==
    /\ Impatient \/ pages[u].status # "creating"
    /\ \E cart \in Carts : pages' = [pages EXCEPT ![u] = NewPage(cart)]
    /\ calls' = [c \in Calls |-> IF calls[c].user = u /\ Awaited(c)
                                 THEN [calls[c] EXCEPT !.side = "background"]
                                 ELSE calls[c]]
    /\ UNCHANGED <<orders, stock, workVars, stored, drawn, answered>>

\* the app is killed and started again
Restart(u) ==
    /\ \E cart \in Carts : pages' = [pages EXCEPT ![u] = NewPage(cart)]
    /\ calls' = [c \in Calls |-> IF calls[c].user = u /\ Awaited(c) THEN Abandon(c)
                                                                  ELSE calls[c]]
    /\ UNCHANGED <<orders, stock, workVars, stored, drawn, answered>>

-----------------------------------------------------------------------------
(* The transaction of a call. *)

\* the transaction is over; its answer waits for the client, if there still is one
Finish(c, answer, o) ==
    calls' = [calls EXCEPT ![c] =
                IF @.side = "gone" THEN IdleCall
                ELSE [@ EXCEPT !.step = "answered", !.line = 1, !.order = o,
                               !.answer = answer]]

\* RAISE EXCEPTION: everything the transaction did is undone
Refuse(c) == Finish(c, "refused", NoOrder) /\ UNCHANGED <<orders, stock, workVars, clientVars>>

AnswerExisting(c) ==
    /\ \E o \in OrdersOf(calls[c].user, calls[c].key) :
         Finish(c, IF orders[o].status = "pending" THEN "pending" ELSE "closed", o)
    /\ UNCHANGED <<orders, stock, workVars, clientVars>>

Proceed(c, step) ==
    /\ calls' = [calls EXCEPT ![c].step = step, ![c].line = 1]
    /\ UNCHANGED <<orders, stock, workVars, clientVars>>

\* transactions that hold their row of the limiter
HoldsLimiter(c) == calls[c].step \in {"lookup", "read", "insert", "lines"}

\* transactions whose row of orders is inserted and not committed
Inserted(c) == At(c, "lines")

\* variants whose row a transaction has updated
HeldBy(c) == IF At(c, "lines") THEN {calls[c].cart[i] : i \in 1..(calls[c].line - 1)} ELSE {}

HeldByWorker ==
    IF worker = NoWork THEN {}
    ELSE {orders[worker.order].cart[i] : i \in 1..(worker.line - 1)}

\* calls that wait behind the limiter row, the unique index or a stock row of another
LimiterHolders(c) ==
    {d \in Calls \ {c} : HoldsLimiter(d) /\ calls[d].user = calls[c].user
                                         /\ calls[d].minute = calls[c].minute}

KeyHolders(c) ==
    {d \in Calls \ {c} : Inserted(d) /\ calls[d].user = calls[c].user
                                     /\ calls[d].key = calls[c].key}

RowHolders(c, v) == {d \in Calls \ {c} : v \in HeldBy(d)}

\* rate_limit_take: counts the call in a row that it locks until it ends
Take(c) ==
    /\ At(c, "take")
    /\ LimiterHolders(c) = {}
    /\ Proceed(c, "lookup") \/ Refuse(c)

\* the order the attempt already placed, if any
Lookup(c) ==
    /\ At(c, "lookup")
    /\ IF OrdersOf(calls[c].user, calls[c].key) # {} THEN AnswerExisting(c)
       ELSE Proceed(c, "read")

NextLine(c) == calls[c].cart[calls[c].line]

MoreLines(c) == calls[c].line <= Len(calls[c].cart)

\* the first loop: prices and stock, line by line and without locks
ReadLine(c) ==
    /\ At(c, "read")
    /\ IF ~MoreLines(c) THEN Proceed(c, "insert")
       ELSE \/ /\ stock[NextLine(c)] >= 1
               /\ calls' = [calls EXCEPT ![c].line = @ + 1]
               /\ UNCHANGED <<orders, stock, workVars, clientVars>>
            \/ stock[NextLine(c)] < 1 /\ Refuse(c)

NewOrders == {o \in Orders \ Placed : \A d \in Calls : Inserted(d) => calls[d].order # o}

\* mutant: no unique index on the user and the key
InsertAnother(c) ==
    /\ At(c, "insert")
    /\ \E o \in NewOrders :
         /\ calls' = [calls EXCEPT ![c].step = "lines", ![c].line = 1, ![c].order = o]
         /\ UNCHANGED <<orders, stock, workVars, clientVars>>

\* INSERT INTO orders waits for a transaction that inserted the same key; after
\* its commit the unique index answers with that order
Insert(c) ==
    /\ At(c, "insert")
    /\ KeyHolders(c) = {}
    /\ IF OrdersOf(calls[c].user, calls[c].key) # {} THEN AnswerExisting(c)
       ELSE \E o \in NewOrders :
              /\ calls' = [calls EXCEPT ![c].step = "lines", ![c].line = 1, ![c].order = o]
              /\ UNCHANGED <<orders, stock, workVars, clientVars>>

\* pieces of a variant the transaction itself has taken
Taken(c, v) == Pieces(calls[c].cart, calls[c].line - 1, v)

\* mutant: UPDATE product_variants without AND stock >= need
DecrementUnguarded(c) ==
    /\ At(c, "lines")
    /\ MoreLines(c)
    /\ RowHolders(c, NextLine(c)) = {}
    /\ NextLine(c) \notin HeldByWorker
    /\ calls' = [calls EXCEPT ![c].line = @ + 1]
    /\ UNCHANGED <<orders, stock, workVars, clientVars>>

\* mutant: the new stock is computed from what was read, without the row's lock
DecrementUnlocked(c) ==
    /\ At(c, "lines")
    /\ MoreLines(c)
    /\ IF stock[NextLine(c)] - Taken(c, NextLine(c)) >= 1
       THEN /\ calls' = [calls EXCEPT ![c].line = @ + 1]
            /\ UNCHANGED <<orders, stock, workVars, clientVars>>
       ELSE Refuse(c)

\* mutant: IF NOT FOUND THEN RAISE EXCEPTION is missing
DecrementWaiting(c) ==
    /\ At(c, "lines")
    /\ MoreLines(c)
    /\ RowHolders(c, NextLine(c)) = {}
    /\ NextLine(c) \notin HeldByWorker
    /\ stock[NextLine(c)] - Taken(c, NextLine(c)) >= 1
    /\ calls' = [calls EXCEPT ![c].line = @ + 1]
    /\ UNCHANGED <<orders, stock, workVars, clientVars>>

\* UPDATE product_variants ... AND stock >= need, or the stock race is reported
Decrement(c) ==
    /\ At(c, "lines")
    /\ MoreLines(c)
    /\ RowHolders(c, NextLine(c)) = {}
    /\ NextLine(c) \notin HeldByWorker
    /\ IF stock[NextLine(c)] - Taken(c, NextLine(c)) >= 1
       THEN /\ calls' = [calls EXCEPT ![c].line = @ + 1]
            /\ UNCHANGED <<orders, stock, workVars, clientVars>>
       ELSE Refuse(c)

Commit(c) ==
    /\ At(c, "lines")
    /\ ~MoreLines(c)
    /\ orders' = [orders EXCEPT ![calls[c].order] =
                    [status |-> "pending", user |-> calls[c].user, key |-> calls[c].key,
                     cart |-> calls[c].cart]]
    /\ stock' = [v \in Variants |-> stock[v] - Taken(c, v)]
    /\ Finish(c, "pending", calls[c].order)
    /\ UNCHANGED <<workVars, clientVars>>

-----------------------------------------------------------------------------
(* The expiry worker, payments and the clock. *)

\* expire_pending_order locks the order's row
Expire(o) ==
    /\ worker = NoWork
    /\ orders[o].status = "pending"
    /\ worker' = [order |-> o, line |-> 1]
    /\ UNCHANGED <<orders, stock, calls, minute, clientVars>>

RestoredCart == orders[worker.order].cart

\* the trigger on the next line updates its variant
RestoreLine ==
    /\ worker # NoWork
    /\ worker.line <= Len(RestoredCart)
    /\ \A c \in Calls : RestoredCart[worker.line] \notin HeldBy(c)
    /\ worker' = [worker EXCEPT !.line = @ + 1]
    /\ UNCHANGED <<orders, stock, calls, minute, clientVars>>

CommitExpiry ==
    /\ worker # NoWork
    /\ worker.line > Len(RestoredCart)
    /\ Return(worker.order)
    /\ worker' = NoWork
    /\ UNCHANGED <<calls, minute, clientVars>>

\* a payment of the order succeeds
Pay(o) ==
    /\ worker.order # o
    /\ Settle(o)
    /\ UNCHANGED <<calls, workVars, clientVars>>

NextMinute ==
    /\ minute < MaxMinute
    /\ minute' = minute + 1
    /\ UNCHANGED <<orders, stock, calls, worker, clientVars>>

-----------------------------------------------------------------------------
(* PostgreSQL breaks a cycle of waiting transactions by aborting one of them. *)

\* the transactions a transaction waits for; the worker goes by NoWork
WaitsFor(x) ==
    CASE x = NoWork ->
           IF worker = NoWork \/ worker.line > Len(RestoredCart) THEN {}
           ELSE {c \in Calls : RestoredCart[worker.line] \in HeldBy(c)}
      [] x # NoWork /\ At(x, "take") -> LimiterHolders(x)
      [] x # NoWork /\ At(x, "insert") -> KeyHolders(x)
      [] x # NoWork /\ At(x, "lines") /\ MoreLines(x) ->
           RowHolders(x, NextLine(x))
             \union (IF NextLine(x) \in HeldByWorker THEN {NoWork} ELSE {})
      [] OTHER -> {}

\* a transaction waits for one other at most, so these are the cycles
Deadlocked(x) ==
    \E cycle \in SUBSET (Calls \union {NoWork}) :
      /\ x \in cycle
      /\ \A y \in cycle : WaitsFor(y) \intersect cycle # {}
      /\ \A y \in cycle : \E z \in cycle : y \in WaitsFor(z)

AbortCall(c) == Deadlocked(c) /\ Refuse(c)

AbortExpiry ==
    /\ Deadlocked(NoWork)
    /\ worker' = NoWork
    /\ UNCHANGED <<orders, stock, calls, minute, clientVars>>

Statement(c) ==
    Take(c) \/ Lookup(c) \/ ReadLine(c) \/ Insert(c) \/ Decrement(c) \/ Commit(c)

Restoration == RestoreLine \/ CommitExpiry

Next ==
    \/ \E u \in Users, c \in Calls : Submit(u, c)
    \/ \E c \in Calls : ReceiveOrder(c) \/ ReceiveClosed(c) \/ ReceiveFailure(c)
                          \/ LoseAnswer(c)
    \/ \E u \in Users : LeavePage(u) \/ Restart(u)
    \/ \E c \in Calls : Statement(c) \/ AbortCall(c)
    \/ \E o \in Orders : Expire(o) \/ Pay(o)
    \/ Restoration \/ AbortExpiry
    \/ NextMinute

Spec == Init /\ [][Next]_vars

\* the database serves its lock queues in order and resolves every deadlock
LiveSpec ==
    /\ Spec
    /\ \A c \in Calls : SF_vars(Statement(c)) /\ WF_vars(AbortCall(c))
    /\ SF_vars(Restoration)
    /\ WF_vars(AbortExpiry)

-----------------------------------------------------------------------------
CallRecord == [step : Steps, side : Sides, user : Users \union {Nobody},
               key : Keys \union {NoKey}, cart : Carts \union {<<>>}, minute : 0..MaxMinute,
               line : Nat, order : Orders \union {NoOrder}, answer : Answers,
               retry : BOOLEAN]

PageRecord == [status : {"open", "creating", "placing"}, key : Keys \union {NoKey},
               cart : Carts]

\* The shape of the state.
TypeOK ==
    /\ AtomicTypeOK
    /\ calls \in [Calls -> CallRecord]
    /\ worker \in [order : Orders \union {NoOrder}, line : Nat]
    /\ minute \in 0..MaxMinute
    /\ pages \in [Users -> PageRecord]
    /\ stored \in [Users -> Keys \union {NoKey}]
    /\ drawn \in SUBSET Keys
    /\ answered \in SUBSET Orders

\* Committing transactions are the atomic steps of AtomicCheckout: nobody sees part
\* of an order, an order that was refused leaves no trace, and no piece is sold twice
\* although the availability check takes no lock.
ImplementsAtomic == ASpec

\* Retries, restarts and transactions that run on without their client never place a
\* second order under the key of an attempt.
OneOrderPerAttempt == OneOrderPerKey

\* An order the app never heard of can be found again: its key is stored on the
\* device, so that the next attempt, even after a restart, is answered with it.
UnheardOrdersKeepTheirKey ==
    \A o \in Placed \ answered :
      orders[o].status = "pending" => stored[orders[o].user] = orders[o].key

\* Every transaction ends, whatever it waits for and whoever waits for it.
CallsEnd == \A c \in Calls : HoldsLimiter(c) ~> ~HoldsLimiter(c)

\* place_checkout_order_usecase.dart: on a hard failure the key stays persisted and is
\* returned.
FailedKeysStayStored ==
    \A u \in Users : pages[u].status = "open" /\ pages[u].key # NoKey =>
      stored[u] = pages[u].key
=============================================================================
