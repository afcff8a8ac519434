# Al Batal Elite store: a verification of its order and payment system

This directory holds TLA+ specifications of the store in `src/`: a Flutter client
(`src/lib`), edge functions in TypeScript (`src/supabase/functions`) and a
PostgreSQL database whose functions carry the business rules
(`src/supabase/migrations`, of which the last definition of each function counts:
the repository redefines most of them several times, and the mapped lines are those
of the definition that is in force after the last migration).
TLC checks the specifications on small instances; TLAPS proves the theorems for
every value of the constants.

    tlc -workers 2 -config OrderPaymentOne.cfg MCOrderPayment.tla     # a run
    tlapm OrderPaymentProofs.tla                                      # the proofs

Migrations are cited by number: 073 is
`src/supabase/migrations/073_payment_expiry_and_proof_integrity.sql`.

1. The system  2. The plan  3. The modules and the code  4. The runs
5. Fairness  6. Abstractions  7. The proofs  8. Findings  9. What is not modelled

## 1. The system

Customers put products into a cart, place an order with one RPC, and pay it by card
(Paymob, an external provider), in cash on delivery, or by an InstaPay transfer whose
screenshot an administrator reviews. A pending order reserves its stock for a limited
time; a worker cancels it afterwards.

    app (Flutter) --RPC--> create_checkout_order, set_pending_order_payment_method, confirm_cod_payment
    app --HTTP--> paymob-initiate --RPC--> get_or_claim / mark / persist / release
                        `--HTTP--> Paymob --webhook--> paymob-callback --RPC--> process_paymob_callback
    app --HTTP--> instapay-initiate, instapay-submit-proof --> bucket and instapay_proofs
    admin --RPC--> update_order_status
    admin --HTTP--> instapay-review --RPC--> review_instapay_proof
    pg_cron, cancel-expired-orders --> batch_expire_pending_orders
    database --realtime--> PaymentStatusWatcher of the app
    orders --trigger--> pg_net --HTTP--> send-order-notification, push-order-status --> Resend, OneSignal
    app --RPC--> sync_wishlist

### Components

| Component | State it keeps | Operations | What is hard | What makes it correct |
|---|---|---|---|---|
| Order and payment state machine (014, 026, 035, 041, 070, 073) | `orders`, `payments`, `instapay_proofs` | checkout, change of method, the four steps of a card initiation, callback, cash confirmation, review, administrator's transitions, expiry | eleven functions called in any order by five parties; late, repeated and reordered results; leases | an order awaits one payment, is fulfilled with exactly one success, and final states stay final |
| Stock reservation and restoration (014, 078) | `product_variants.stock`, `order_items.restored`, `stock_restorations` | guarded decrement, restoring trigger | three paths that cancel, each of which restores | a piece is on sale or held by one order |
| Checkout RPC (078) | inserts order and lines, limiter row | limiter, lookup of the idempotency key, availability check, insert, decrement per line | check without lock, deadlocks, retries beside a transaction that still runs | every call is atomic, no piece sold twice, one order per key |
| `paymob-initiate` | none of its own | claim, authenticate, mark, register, persist, key, release | lost answers, crashes, an expired claim lease, two calls at once | one provider order per order, and the database knows it |
| `paymob-callback` | none | verify, `process_paymob_callback` | repeats, reordering | a success is recorded once, and only for a waiting order |
| InstaPay proofs (070, 073, `instapay-*`) | proof rows, files of the bucket | initiate (reads), upload, insert, review | upload, policy and row are three steps, none of which locks the payment; it may be decided or expire between them | one review per payment decides it |
| Edge functions (ten handlers in `src/supabase/functions`) | none | checks, settings, limiter, one to four requests that change something, an answer | a setting that is missing, a request that fails, an answer that is lost, an isolate that is killed, at each step | what the caller is told agrees with what was done; nobody gets what is not his |
| Expiry worker (031, 035, 041, 073) | none | expire an order, sweep old InstaPay rows | races every other call; must make progress | due orders leave pending; live orders are spared |
| Rate limiting (060, 070, `_shared/rate_limit.ts`) | `rate_limits` | take, housekeeping | caller-named buckets, window numbers, random housekeeping | budget per window, and refused only after spending one's own |
| Client checkout (`CheckoutCubit`, `PlaceCheckoutOrderUseCase`, key store) | page state, key in the preferences | submit, retry, leave, restart | lost answers, a page left while its call runs | an order the app did not hear of can be found again |
| Client payment flow (`PaymentCubit`, `PaymentStatusWatcher`, repositories) | page status, subscription, timer, one-shot watcher | processPayment per method, proof upload, watch, poll, deadline | overlapping attempts, old rows of the order, lost events | no false success, no dead wait, no stale verdict |
| Client cart (`CartCubit`) | lines, stored copy | add, change, restore, wholesale refresh | reads before and uses after an await | the stored cart follows the shown one |
| Wishlist (`WishlistCubit`, 075) | list on screen, copy on the device, rows of the account | toggle, restore, synchronise | a read with awaits in it, lists that cross, a limit of two hundred rows | no wish is lost |
| Order notifications (080, `send-order-notification`, `push-order-status`) | the queue of pg_net, `notifications` | trigger, request, send | requests inside the order's transaction, late and lost messages | a message is sent once, is true when it arrives, and holds up no order |
| Account deletion (040, `delete-account`) | the account | check, delete | six checks in front of a step that cannot be undone | only one's own account, never an administrator's |
| Pricing, membership, wholesale (078, client price services) | none | arithmetic on lines | rounding, two implementations of one rule | client and server agree |
| Coupons (056) | coupons table | validate, read at checkout | limiter in front | covered by the limiter |
| Product reviews, catalogue administration, audit trail | one table each | guarded insert, upsert, append-only trigger | little | |
| Storefront pages, authentication, addresses, settings, onboarding, support, admin pages | page state | read and show | user interface | |
| Platform projects, scripts, documents, tests | | | | |

`PROJECT.json` lists the source files of each component, and under `hazards` the
places where this code can go wrong in a way a test would hardly reach.

## 2. The plan

In order of importance:

1. **Orders and payments in the database** — `OrderPayment`: the tables and all
   functions that move them, one action each, with the abstract `OrderLifecycle` that
   it implements. Proved: types, one awaited payment, paid orders settled, settling
   together with promotion, final states, the stock, the refinement, InstaPay reviews, and,
   over the clock, late payments, kept provider orders and spared reservations.
2. **Card initiation as a process** — `PaymobInitiate` on top of `OrderPayment`, with the
   provider; proved.
3. **Checkout** — `Checkout` (statement by statement, with the client's use case) implements
   `AtomicCheckout`; proved, and with it one order per key and, for customers who wait for
   their page, the key on the device.
4. **Rate limiter** — `RateLimit`, proved.
5. **Edge functions** — `EdgeFunctions` on top of `RateLimit`: ten handlers as programs
   over one small set of steps; all its properties proved.
6. **Payment page** — `PaymentFlow` on top of `OrderLifecycle`; its safety proved.
7. **Notifications** — `Notifications` on top of `OrderPayment`; its safety proved.
8. **Wishlist** — `Wishlist`.

Every invariant and action property that a passing run checks is proved as well. Left to do: the prices of a line
as operators checked against the client's rule.

Composition:

    OrderLifecycle  <--refines--  OrderPayment  <--EXTENDS--  PaymobInitiate
          ^                         ^    ^--EXTENDS-- Notifications
          |                         `--EXTENDS-- OrderPaymentProofs <-- OrderLifecycleProofs, OrderWindowProofs
          |   PaymobInitiateProofs EXTENDS PaymobInitiate and OrderWindowProofs
          |   NotificationsProofs EXTENDS Notifications and OrderPaymentProofs
          `--EXTENDS-- PaymentFlow <--EXTENDS-- PaymentFlowProofs
    AtomicCheckout  <--refines, EXTENDS--  Checkout  <--EXTENDS-- CheckoutProofs
    RateLimit  <--EXTENDS--  EdgeFunctions  <--EXTENDS-- EdgeFunctionsProofs          Wishlist

`OrderPayment` starts an order with one action, because `Checkout` and `AtomicCheckout`
show that the RPC behaves like one; `PaymentFlow` takes `OrderLifecycle` as its server,
because `OrderPayment` is proved to implement it; an effect of `EdgeFunctions` is a name,
because `OrderPayment`, `PaymobInitiate` and `Checkout` say what it does.

## 3. The modules and the code

`PROJECT.json` maps every definition to its lines. This section gives the
correspondence a reader needs first.

### OrderPayment

One action per SQL function, because each is one transaction and nothing it read can
change before it writes: a function that reads first locks the order's row
(`SELECT ... FOR UPDATE`); `mark_paymob_initiation_submitted`, `release_paymob_initiation_claim`
and the sweep of old InstaPay rows are single UPDATEs, which re-read the rows they lock (the sweep skips
rows that others hold); checkout inserts. A call that is refused (an exception or an error result)
changes nothing.

The exception is a transfer proof. `instapay-submit-proof` inserts its row with the customer's own
client, and that INSERT locks neither order nor payment. PostgreSQL evaluates the policy (070:338-366) on
the snapshot of the statement and only then enters the row into the unique index (070:331-333), where it waits if
an open proof of the payment is being reviewed (073:332-365). So the insert is two actions, `CheckPolicy` and
`InsertProof`, with anything in between: a proof may be stored open for a payment that is decided.

| Variable | Code |
|---|---|
| `orders[o]` | `orders.status`, `payment_method`, `expires_at`, and `order_items.restored` of its lines (set together) |
| `payments[p]` | `payments.status`, `order_id`, `payment_method`, `created_at`, `initiation_phase`, `initiation_claimed_at`, `initiation_token`, `paymob_order_id` |
| `proofs[f]` | file of the bucket (`"uploaded"`), row on its way into the table (`"checked"`), or row of `instapay_proofs` with its review |
| `stock` | `product_variants.stock` |
| `ledger` | `stock_restorations` |
| `now`, `tokens` | the database clock; the random claim tokens, numbered as drawn |

| Action | Function in force |
|---|---|
| `CreateOrder` | `create_checkout_order`, 078 (as a whole; `Checkout` takes it apart) |
| `SetMethod` | `set_pending_order_payment_method`, 070 |
| `GetOrClaim`, `MarkSubmitted`, `PersistProviderOrder`, `ReleaseClaim` | the four initiation functions of 035 |
| `CallbackSuccess`, `CallbackFailure` | `process_paymob_callback`, 073 |
| `ConfirmCod` | `confirm_cod_payment`, 026 |
| `UploadProof`, `CheckPolicy`, `InsertProof` | `instapay-submit-proof`: the file, the policy of its row, the unique index; a second open proof is refused there (23505) |
| `ApproveProof`, `RejectProof` | `review_instapay_proof`, 073 |
| `AdminUpdate` | `update_order_status`, 014 |
| `ExpireOrder`, `ExpireStaleInstapay` | `batch_expire_pending_orders` per order, and its sweep |

`CancelOrder` is the trigger of 014 as well as the update that fires it: what a
cancellation gives back is part of every action that cancels.

`batch_expire_pending_orders` (031:63-75) expires all due orders in *one* transaction; the model takes one
order at a time. Each order is locked and read again by `expire_pending_order`, and orders share nothing but stock, to
which every restoration adds, so a batch is some sequence of `ExpireOrder` steps, and the model has more interleavings
than the code. For progress the batch is no worse either: an order that cannot be expired makes `expire_pending_order`
return a code, not raise, and the others are expired all the same.

### OrderLifecycle

What the eleven ways to change a row come to: `Place`, `Await` (a new row in place of
the one awaited), `Withdraw` (rows given up), `Pay`, `Close`. `OrderPayment`
maps `orders` to `stage` and `payments` to `rows` (`StageOf`, `LifecycleRows`), and its
property `ImplementsLifecycle` is the lifecycle's specification under that mapping.
`Close` may leave the pending rows as they are: the administrator's cancellation does
(see section 8).

### PaymobInitiate

A call of the edge function is a process; `requests[r].step` names the request it awaits.
`Begin` reads the order without a lock; `ClaimCreate`, `ClaimReissue`, `ClaimReject` are the
decisions of `decideInitiationClaim`; `Authenticate`, `Submit`, `Register`, `Persist`, `GetKey`,
`Release` await the provider or the database. At each of them the effect may take place
with its answer lost, and `Crash` ends the process anywhere. The provider keeps `registered`
(its orders), `keys` (checkout pages it handed out) and `results`; `Attempt` is the customer
paying, `Callback` delivers a result, any number of times and in any order. `Elsewhere` is
everything else of `OrderPayment`, restricted only in that nobody but the processes takes the
claim steps.

### AtomicCheckout and Checkout

`AtomicCheckout` is the promise: an order appears together with the stock it takes, at most
once for a user and a key; it is paid, or cancelled and its pieces returned. `Checkout`
implements it statement by statement under READ COMMITTED: `Take` (limiter row, locked to
the end of the transaction), `Lookup` (by key), `ReadLine` (availability, no lock),
`Insert` (waits at the unique index for a transaction with the same key), `Decrement` (guarded
UPDATE per line, row locks), `Commit`. The expiry worker restores line by line in its own
transaction. `Deadlocked` finds the cycle of waiting transactions, `AbortCall` and `AbortExpiry`
are PostgreSQL's way out. The client side is `Submit`, `ReceiveOrder`, `ReceiveClosed`,
`ReceiveFailure`, `LoseAnswer`, `LeavePage`, `Restart`: the key kept in page and
preferences, the automatic retry after an order that is already closed, the
call that runs on when its page is gone.

### RateLimit

`Take` is `rate_limit_take` (070) with the choice of the bucket, the guarded upsert, and the
housekeeping that one call in a hundred performs. `granted` and `refused` record what
callers saw and exist for the properties.

### EdgeFunctions

`Program(fn)` is the handler of a function: the checks and the awaited requests it makes, in
their order, each with the code of the answer it gives when that step fails (`Check`), with the
requests it still makes when the answer is a refusal or is lost (`DoOr`), or with nothing, when the
failure is only logged (`Try`). Most are written as two sequences, what is checked and what is done once all of it held. A call carries out its program: `Begin`, `CheckSetting`, `CheckCaller`,
`CheckInput`, `AskLimiter`, `Request`, `BestEffort`, `Respond`; `Kill` ends it anywhere. A setting may be
missing, a session may have run out, a request may be somebody else's (`genuine`), an input may
be wrong at every check that looks at one. `AskLimiter` takes from `RateLimit`, or gets no answer and lets the call through.
`call.did` holds the names of the effects so far; `worked` counts the metered ones, for the window in which the limiter was
asked (`call.window`, `NotAsked` before). `TakeDirectly` is
the limiter called by other code, or by a client with a session for the bucket of somebody else.

| Program | Effects in order |
|---|---|
| `Checkout` | order |
| `DeleteAccount` | account |
| `InstapayInitiate` | method |
| `InstapaySubmitProof` | file, proof, removal of the file |
| `InstapayReview` | review |
| `PaymobInitiate` | claim, submitted, registered, persisted, release |
| `PaymobCallback` | result |
| `CancelExpiredOrders` | sweep, expiry of each order |
| `SendOrderNotification` | row, mail, sent or failed |
| `PushOrderStatus` | push |

### Notifications

The two triggers of 080 run inside every transaction that changes the status of an order, so
`Transaction` is a step of `OrderPayment` together with `Dispatch`: one request to the mail function and one
to the push function for the status reached (`Wanted`), if the Vault has the address and the key; a request that
fails is dropped with a warning. `Deliver` is pg_net making a request, once or never, at any time
after the commit and in any order, and the function handing the message to its provider or not.

### Wishlist

One account on its devices. `Toggle` shows a list, stores it and sends it (`pushes`); `restore` is a call with
awaits in it: it reads the copy of the device (`Refresh`, `Restart`), asks `sync_wishlist` (`Answer`), stores the merged list
(`Store`) and shows it (`Show`). `Sync` is the SQL function: the rows the INSERT tries are the
first of the list, as many as 200 less the rows of the account, and those the account has already are among them.
`LosePush` and `LoseRead` are answers that do not come.

### PaymentFlow

The page and its cubit: `ProcessPayment` starts a run; `Serve` is the server doing what a
request of the run asks, `Receive...` its answer; `SubmitProof`, `ProofStored`, `ProofFailed` are
the upload; `HearUpdate`, `Poll`, `PollAnswers`, `PollFails`, `WatchTimeout` are the watcher and the
cubit's timer; `Emit` is the listener of `startWatching`. `OthersMove` is any move of the
lifecycle that others cause. `RehydratedSpec` is the instructions page opened from
a link, whose cubit only watches.

## 4. The runs

| Run | Instance | What it shows |
|---|---|---|
| `order_one` | one order, three rows, two provider orders, two files; clock to 5, card window 2, InstaPay 3, lease 1; 816 thousand states | Safety of everything that can happen to one order: `OnePendingPayment`, `PaidOrdersSettled`, `SweepSparesLiveOrders`, `ProofsDecidePayments`, `SettlesTogether`, `NoLatePayment`, `ProviderOrderKept`, `TerminalIsFinal`, `ImplementsLifecycle` |
| `order_two` | two orders and stock for one, the messages of one of them, by mail or by push or with an empty Vault | `StockConserved` whichever path cancels, `TypeOK`; `MessagesHold`, `ToldOnce`; with a fair worker `DueOrdersLeavePending`, whatever becomes of messages |
| `order_metered` | a line of five metres | *violated*: `StockConserved` (finding 1) |
| `initiate` | one order, two processes, three rows, two provider orders | `OneProviderOrder`, `KeysArePersisted`, `ChargePaysItsOrder`, `LiveChargesAccepted`, `SubmittedClaimsKept` with lost answers, crashes, an expired lease |
| `checkout_rows` | two users, carts that lock two variants in opposite orders, one piece of one and two of the other; 238 thousand states | `ImplementsAtomic` with real deadlocks; `TypeOK`; `UnheardOrdersKeepTheirKey` |
| `checkout_retry` | one user, one key, two calls, two minutes of the limiter, carts of up to three lines over two variants | `OneOrderPerAttempt`; with fair locks `CallsEnd` |
| `checkout_leave` | one variant, two keys, customers who leave the page | *violated*: `FailedKeysStayStored` (finding 2) |
| `edge` | two calls of any of the ten functions by one user, an administrator or an address; one take per kind and window of two seconds, one housekeeping, one take by other code | `MisconfiguredChangesNothing`, `RefusalsHarmless`, `DoneMeansDone`, `EffectsEntitled`, `RecordsHaveSubjects`, `WorkMetered`, and of the limiter `RefusedOnlyWhenSpent`, `BudgetPerHousekeeping` |
| `rate_exceeded` | two users and an address, two takes per window of two seconds, one housekeeping | *violated*: `WithinLimit` (finding 3) |
| `payment_flow` | one page, two overlapping runs, two rows, one upload at a time; 856 thousand states | `SuccessIsReal`, `NoDeadWait`, `VerdictsAreNew`, `WaitsEnd` |
| `flow_rehydrated` | a page that only watches | *violated*: `RehydratedResultsShown` (finding 4) |
| `wishlist_full` | one device, three products, room for three, no failures | *violated*: `WishesSurvive` (finding 5) |

Every property of a passing run has a mutant in `PROJECT.json`: a plausible bug of the code
(a dropped guard, an off-by-one, a swapped order) under which the same run reports it
violated. The mutants are the definitions marked `mutant:` in the modules.

### The bounds, and why they are enough

- *One order* in `order_one`: the functions never relate two orders but through stock, which
  `order_two` has. Three rows let an order have two rows of one method and one of
  another, or an attempt, its replacement and a third that meets both. Two provider orders and
  two files are the least with which one can be confused with the other, and a second proof can pass
  its policy while the first is reviewed: the run reaches states with an open proof of a decided payment.
- *The clock*: windows of 2 and 3 and a lease of 1 keep the order of the real
  ones (5 minutes < 15 minutes < 24 hours); the clock runs past both windows, also after a change of method
  started a second one. `CardWindow <= InstapayWindow <= InstapayStale` is assumed in the
  module and holds in the code (15 minutes, 24 hours, 24 hours).
- *Claim tokens*: a second claim is what a stale token needs to be wrong.
- *Two processes, two calls*: the hazards are between an earlier and a later one. Crashes
  and retries are unlimited: an ended process or call starts again.
- *Stock*: enough for one of two, so that a race has a loser.
- *Limiter*: the model starts at second 13 with a retention of 3, so that a window number
  (6 or 7) is below `epoch - retention` as it is for real values, and time crosses a window's end.
- *Two calls* in `edge`: one call at a time, because what two handlers do to each other goes through the database
  and is the subject of the other modules; the second meets the limiter the first has used.
- *Messages* of one order: they are never compared across orders; the other order competes for
  its stock. Two requests at a time are a mail and the next one, or a mail and a push.
- *Wishlist*: three places are the least in which one row makes the list of two others and itself too long.
  With six places for three products and no failure no violation was found in the 15 million states up to depth 16.
- *Rows of `PaymentFlow`*: two rows are one attempt and its retry; with three the run takes longer than it
  is worth and showed nothing else. `flow_rehydrated` has three.

`CHECK_DEADLOCK FALSE` is said where the bounds (clock, keys, tokens, takes) or a customer who is done
end the behaviour. Every call of these systems is optional, so stopping is no error there; what must not
stop is stated as liveness instead. Symmetry is used in safety runs only, over values
no definition tells apart.

## 5. Fairness

- `OrderPayment`: weak fairness of `ExpireOrder(o)` for each order. pg_cron calls
  `batch_expire_pending_orders` every five minutes (031:82-87) and the batch visits every due order. Weak is
  enough: once an order is expirable only the worker or a transition to another
  status ends that, except a change of method, which is refused after expiry.
- `Checkout`, `LiveSpec` only: PostgreSQL's lock queues are first come, first served, so a transaction
  that can take its lock again and again gets it (strong fairness of `Statement` and `Restoration`), and
  its deadlock detector runs (weak fairness of the aborts). The client is not fair.
- `PaymentFlow`: Dart timers fire (weak fairness of `WatchTimeout` and `Poll`); a device that keeps
  polling gets an answer now and then (strong fairness of `PollAnswers`: polls may fail any
  number of times, not for ever), and each poll ends with an answer or a failure. No fairness is assumed of
  realtime delivery, of customers, or of calls: an update may never be delivered, and a call may never answer. The
  deadline half of `WaitsEnd` needs only the timer. `WaitsEnd` is about waiting for a result
  (`awaitingVerification`, `awaitingProof`); a page whose initiation never answers stays in "processing", with
  a call that `NoDeadWait` finds, until the client of that call gives up.
- `Notifications`: weak fairness of `ExpireOrder(o) /\ Dispatch`, the worker's transaction with its triggers.
  Nothing is assumed of pg_net, of the Vault or of the functions: a message need never arrive.
- `PaymobInitiate`, `RateLimit`, `EdgeFunctions` and `Wishlist` state safety only.

## 6. Abstractions

Database
- `now()` is the start of the transaction. `OrderPayment` takes the wait for the row lock as
  zero, so a call compares expiry with the time at which it runs.
- Amounts, addresses, coupons and shipping are left out; a checkout with invalid input is one refusal.
  A callback whose amount does not match is a refused call.
- The administrator's absolute overwrite of a stock figure is left out: with it no conservation
  can be stated. The database's CHECK `stock >= 0` is what `TypeOK` says of it.
- Claims are taken and steps made by the owner of the order; ownership checks are refusals.
- `MaxNow`, `MaxTokens` end the behaviour, not a call.

Checkout
- Payments are reduced to "an order was paid".
- A raised exception undoes the limiter's take as well, as in the code: the take is in the
  same transaction. The budget itself is the subject of `RateLimit`.
- The stored key lives 24 hours; a model of one checkout does not get there.
- `Impatient = FALSE` bounds the customers of the passing runs to those who stay on the page while a call runs;
  `checkout_leave` lifts it, and shows what then fails. Lost answers and restarts are in every run.

Rate limiter
- Kinds with different window lengths never share a row: `init:checkout` (10 in 60 s) and `init:<user>` (20 in 3600 s)
  share their prefix, not their rows, because their window numbers differ in
  size. Edge functions let a call through when the limiter does not answer: `AskLimiter`.

Edge functions
- A check is what it looks at: a setting, the caller, what he may do, the input. Two checks of the input
  with the same answer in a row are kept as two, because the program is read beside the code.
- What a request does to orders and payments is not repeated here; its refusal may have any cause.
- `paymob-initiate` is in two modules: its checks and their order here, its races in `PaymobInitiate`.
- Message templates are left out. `payment_failed` is one of them (`send-order-notification/index.ts:76`) and nothing
  sends it: the trigger asks for five events and this is none.
- `cancel-expired-orders` takes a hundred orders without an ORDER BY; the scheduled `batch_expire_pending_orders`
  takes all that are due. Two orders stand for its loop.

Notifications
- A cash or InstaPay customer without an address on file is a request not made. The follower of an order is its owner.

Wishlist
- One account. `wanted` is what the customer put on the list on any device and did not take off again.
- A customer who signs in to another account, `clearAll`, deleted products, price alerts, and preferences that fail to write are left out.

Payment page
- The server is one order of `OrderLifecycle`. A call whose answer is lost is a move by
  others and a failure: the page cannot tell the two apart.
- Routes on top of the page and the flag that guards the opened checkout are left out. A URL that
  is not safe makes the page call `cancel()`, which ends the attempt; it is taken as a failure of the call.
- Realtime: a subscription may hear of each update that is committed while it is open, late, in any order, or never. An
  update that was committed before it opened is not delivered to it. The watcher filters by order only
  (`payment_status_watcher.dart:89-93`), so `VerdictsAreNew` and `VerdictsAlwaysNew` rest on this property of the
  service, of which the repository says nothing; polls are not affected.
- Uploads at a time are bounded by `MaxUploads`. `reset()` of the cubit is called by no
  production code; the watcher never adds an error to its stream.

## 7. The proofs

`OrderPaymentProofs` (EXTENDS `OrderPayment`), from the assumptions `WindowsAssumption`,
`LinesAssumption` and `NullAssumption` (the windows are natural numbers, lines and stock are
natural, NULL is not a provider order):

| Theorem | Statement |
|---|---|
| `TypeCorrect` | `Spec => []TypeOK`; stock never goes below zero for any lines and any number of orders |
| `PaymentInvariant` | `Spec => []PaymentInv` |
| `OnePendingAlways`, `PaidOrdersAlwaysSettled` | the two parts that matter |
| `PaymentsSettleTogether` | a payment succeeds only in the step that promotes its order |
| `FinalStatesStay` | delivered and cancelled orders, and payments that left pending, never change |
| `StockAccounted` | `Spec => []StockInv`, whatever the lines say |
| `StockAlwaysConserved` | `Quantity = Need` implies `Spec => []StockConserved` |

`OnePendingPayment` is not inductive: `ConfirmCod` and the callback are only right because of what
`PaidOrdersSettled` says of the other rows, inserting a row for a new order is only right because
an unplaced order has none, and `SetMethod` and `CallbackSuccess` need that only card payments carry
claims and provider orders. `PaymentInv` is the conjunction

    TypeOK /\ OnePendingPayment /\ PaidOrdersSettled /\ UnplacedHaveNoPayment /\ OnlyCardsClaimed

TLC checks its first three parts in the runs. The argument has two halves. Every action is shown to be of
one of two *kinds*: it settles rows that are pending, together with a move of their
order (`Settling`), or it inserts one pending row for an order that awaits none
afterwards but this one (`Inserting`); `StepKinds` collects this from a lemma per group of actions. Each
kind preserves `PaymentInv` (`SettlingInv`, `InsertingInv`), without looking at any action. Records are kept
opaque: lemmas state the effect of an update once, fields are read from it.

For the stock a sum over the orders would need induction over a finite set. `StockConserved` counts pieces
instead: `Reserved(v)` is the cardinality of `Pieces(Need, held, v)`, the union of `{o} \X (1..Need[o][v])` over the orders
that are neither unplaced nor cancelled, which is their sum. Pieces of different orders are disjoint, so the cardinality changes by those of one order
when a set of orders gains one (`FS_Union`, `FS_Interval`). `StockInv` accounts for any lines, the metered ones of finding 1 included:

    TypeOK
    RestoredOnce   an order is cancelled exactly when its lines are restored; the ledger names only cancelled orders
    Balance        stock[v] + pieces(Need, placed orders) = InitialStock[v] + pieces(Quantity, cancelled orders)

Without `RestoredOnce` the three paths that cancel could give back twice or, because each of them looks at one of two
marks, not at all. `StockConserved` follows where a line gives back what it took. `Quantity = Need` says that every
line is sold by the piece (for a line sold by the metre checkout takes `CEIL(metres)`), which the constants of `order_one`
and `order_two` satisfy and those of `order_metered` do not; it is a hypothesis of this theorem and of no other but
`StockConservedWithTriggers`.

`OrderLifecycleProofs` proves `LifecycleImplemented == Spec => ImplementsLifecycle`. `RowMapping`, `StageMapping` and
`PendingRows` say how the mapping reads tables; `Stutter`, `AwaitMove`, `PayMove`, `CloseMove` and `WithdrawMove` each
say which effect on the tables is which abstract move; then one lemma per group of
actions. `PaymentInv` is needed where `Await` replaces *the* awaited rows and where `Pay` leaves none behind.

`OrderWindowProofs` (EXTENDS `OrderPaymentProofs`) adds the clock. `SweepSparesLiveOrders` compares the age of a row
with a reservation that is stored elsewhere and that the customer can renew, so it needs

    WindowInv == PaymentInv /\ no reservation ends later than now + InstapayWindow
                            /\ that of a pending InstaPay row, not later than its creation + InstapayWindow
                            /\ rows not in use name no provider order

| Theorem | Statement |
|---|---|
| `WindowInvariant` | `Spec => []WindowInv` |
| `SweepAlwaysSpares` | the sweep never takes the row of an order that can be paid; it needs `InstapayWindow <= InstapayStale` |
| `LatePaymentsRefused` | nobody but a cash customer is promoted after the reservation ended |
| `ProviderOrdersKept` | a stored provider order is never replaced and its row never turned cancelled |

`EveryRowStep` says of each action that every row is kept, taken from the free ones, or given up in one of
three ways; `EveryOrderStep`, that the reservation of an order is kept or new, and a promotion is in time. The
invariant and the two action properties follow from these two, without the actions.

It also proves `ReviewInvariant == Spec => []ReviewInv` and from it
`ReviewsAlwaysDecide == Spec => []ProofsDecidePayments`, for any number of proofs. A second proof of a payment can be open
when the first has decided it, because policy and index of an insert lock nothing; that it decides nothing is due to
`review_instapay_proof`, which reads the payment under its lock, and to the review and the payment changing in one step. So
`ReviewInv` adds to `PaymentInv` and the property: a proof is of an InstaPay row in use, an approved one of a row that
succeeded, a rejected one of a row that failed. A row that is pending then has no reviewed proof, and a review makes the first.
The other functions leave InstaPay rows undecided (`OthersReviewNothing`): the provider's result
reaches only rows that carry a provider order, which `OnlyCardsClaimed` makes card rows.

`PaymobInitiateProofs` (EXTENDS `PaymobInitiate` and `OrderWindowProofs`) proves every property of the run `initiate`, for
any number of calls, orders, rows and provider orders:

| Theorem | Statement |
|---|---|
| `CallsInvariant` | `PSpec => []CallsInv` |
| `CallsUseTheStore` | `PSpec => Init /\ [][Next]_vars`: the composition implements `OrderPayment` without its fairness, so that what is proved of its states and steps from the safety part holds here too |
| `NeverTwoProviderOrders`, `KeysAlwaysPersisted`, `ProcessesTyped` | parts of the invariant |
| `ChargesPayTheirOrder`, `LiveChargesAlwaysAccepted` | what a charge of the provider comes to |
| `SubmissionsStay` | a submission is never taken back |

That the provider never holds two orders for one order is a matter of three tables and of what dead calls left behind. The
invariant `CallsInv` is `PaymentInv` and

    SentInv        a row that was sent to the provider is the only one of its order, and leaves
                   pending only together with its order; an order in fulfilment awaits no row
    CallInv(r)     a call that holds a claim works on a row in use of its order; while it is about to
                   register, the row says "submitted" under the call's own token
    TokensDistinct no two calls work under one token
    RegisteredInv  an order of the provider belongs to a row that was sent and that no call is about to
                   register; a row names an order of the provider only when it was made for it
    ResultsOfKeys  results are of pages that were given away

TLC checked it as an invariant of the run's instance before it was proved. The proof separates tables from calls: every step of the
tables either leaves rows that were sent alone but for settling them (`Undisturbed`) or rewrites one row
(`OneRowSent`); both keep `SentInv`, and what calls know of rows (`TablesLast`). One call moves at a
time (`Moves`), so `CallsStep` leaves to each action only its own call and what it registers.

`EdgeFunctionsProofs` (EXTENDS `EdgeFunctions`) proves the limiter, from `RateAssumption`, and the programs in front of
which it stands, from `EdgeAssumption` as well (administrators are users, the four kinds of the metered functions are kinds of
the limiter), for any number of calls, users, addresses, kinds and limits:

| Theorem | Statement |
|---|---|
| `RateInvariant` | `Spec => []RateInv`: a counter is of a window that has begun, and agrees with what its caller was granted since the last housekeeping |
| `NobodyElseCounts`, `NobodyElseCountsHere` | a caller is refused only in a window in which he spent his own budget; of the limiter alone, and with the functions and other code taking from it |
| `BudgetBounded`, `BudgetBoundedHere` | grants of a window are at most the limit for each housekeeping and once more; the same two |
| `EdgeInvariant` | `ESpec => []EdgeInv` |
| `SettingsComeFirst`, `RefusedChangesNothing`, `SuccessIsDone` | what an answer says of what was done |
| `OnlyForTheEntitled`, `SubjectsBeforeRecords` | what precedes an effect |
| `WorkWithinBudget` | metered work stays within the budgets that were handed out |

The properties speak of what a call *did*, and a call may be anywhere in one of ten programs, or in what is still done
after a refused or a lost request. So `EdgeInv` speaks of what is *left*, with three relations on sequences of steps:
`NeverAfter(s, A, B)`, no step of B behind one of A; `Guarded(s, E, G)`, a step of G before every step of E; `Without(s, B)`. It is `RateInv` and

    CallTypeOK      what is left consists of steps the function has
    SettingsFirst   no setting is looked for behind an effect, and none any more once something but the claim was done
    HarmLast        if no answer was lost, no step that blames the caller is behind a harmful effect, nor left after one
    SuccessLast     what the function is for was done, or is before every 2xx that is left
    AllEntitled     the caller is known to be entitled, or nothing was done and the check is before every effect
    SubjectsFirst   a record has its subject, or was not made and its subject comes before it
    AskedFirst      the limiter was asked, or no metered work was done and asking comes before it
    WorkOnce        metered work is done once
    Concluded       the properties of calls that came to their end
    WorkCovered     for each caller and window: work done and work still due were granted, or let through

The proof has two halves that meet in these relations. One looks at the programs, not at steps: of each it is shown that it stands in them as a
whole. This is why the handlers are written as checks followed by effects: of a part that is only checks
everything is guarded at once, and sequences of ten to twenty steps are never taken apart index by index. The other looks at the
steps, not at programs: a call goes to the tail of what is left, to what a request says is done when it is refused or lost, or to its end (`Moves`),
and each relation passes to the tail; `Told` and `Undone` say which fallbacks may follow a refusal. `WorkCovered` is where the limiter and
the calls meet: a grant and the work that becomes due are one step, and a killed call only leaves work undone.

TLC checked the parts of `CallInv` and `WorkCovered` on the run's instance with one call before they were proved.

`NotificationsProofs` (EXTENDS `Notifications` and `OrderPaymentProofs`), for any number of orders and messages:

| Theorem | Statement |
|---|---|
| `MessagesInvariant` | `NSpec => []MessagesInv` |
| `MessagesAlwaysHold` | what the customer reads is still true when pg_net delivers it |
| `NeverToldTwice` | no message is told twice |
| `StockConservedWithTriggers` | `Quantity = Need` implies `NSpec => []StockConserved` |

`MessagesInv` is `PaymentInv`, `StockInv` and `NotesInv`: every message that was posted or told is true, and one that is posted has
not been told. That a message stays true needs that no status is entered again; that a new one was not true before needs more than the
status: "payment confirmed" is about a row of `payments`, which `PaidOrdersSettled` denies to an order that waits, and
"cancelled" about stock that is back, which is `RestoredOnce`. `StepKinds` of `OrderPaymentProofs` serves here again: a transaction is a step of `OrderPayment`.

`PaymentFlowProofs` (EXTENDS `PaymentFlow`), from `OrderAssumption` and `RowsAssumption` (the order of the page is an
order; NULL and the two other values of a poll are not rows), for any number of attempts, rows, uploads and other orders:

| Theorem | Statement |
|---|---|
| `FlowInvariant` | `Spec => []FlowInv` |
| `FlowTyped`, `SuccessAlwaysReal`, `NoWaitIsDead` | its parts: types, no false success, no wait that nothing can end |
| `VerdictsAlwaysNew` | a verdict of an earlier attempt never ends the wait of a later one |

`VerdictsAreNew` and `SuccessIsReal` are about what the page was told, and so about all that is on its way to it. `FlowInv` is
the type invariant, the two invariants and

    ServerInv   the order waits for its newest row or for none
    CallInv(a)  rows that an attempt knows as old are settled; when the server has served it, the newest row
                is not one of them, and a confirmation that was served left a row that succeeded
    WatchInv    the same of the watch; every event and poll on its way is of a row of the order that was
                decided after the attempt began

A step of `OrderLifecycle` is first reduced to what it does to a row (`RowStep`: free to pending, pending to settled) and to the
rows that are new to the order (`ServerStep`). That keeps `ServerInv`, and what `Broadcast` sends out, `WatchInv`, whichever
of the moves it was; the steps of the page then leave the server alone, or are a call with one such move.

`CheckoutProofs` (EXTENDS `Checkout`), from `CartsAssumption` (carts are sequences of variants with at least one line, stock is
natural), `CheckoutAssumption` and `WorkerAssumption` (the values that stand for "no key", "no order", "nobody" and for the worker among
the transactions that wait are none of the others), for any number of users, keys, carts and overlapping calls:

| Theorem | Statement |
|---|---|
| `AtomicInvariant` | `ASpec => [](AtomicTypeOK /\ OneOrderPerKey)`, of the promise alone |
| `TransactionInvariant` | `Spec => []TransactionInv` |
| `CheckoutTyped` | its first part |
| `AtomicImplemented` | `Spec => ImplementsAtomic`: the statements are the atomic steps |
| `OneOrderAlways` | proved of `AtomicCheckout`, and carried over by the refinement |
| `UnheardAlwaysKeepKey`, `FailedKeysAlwaysStored` | the client's key, under the assumption `~Impatient` |

A commit implements `Place` only if all pieces are there and the key is still free, although both were
looked at statements earlier. `TransactionInv` says why: of a transaction that inserted its order

    LinesInv(c)   its id names no row, its key no order, and of every variant it updated so far there are
                  as many pieces in stock as it took
    LinesApart    ids, keys and updated variants of two such transactions are distinct
    AnswerInv(c)  an answer is about the order of the call's key, and "closed" only of one that is closed
    WorkerInv     the order the worker restores is pending

Each is kept by a lock: `Insert` waits for `KeyHolders`, `Decrement` for `RowHolders` and the worker, and a
commit takes only from rows that were its own (`CommitPlaces`). Steps that insert nothing are handled by one lemma
(`QuietStep`), whatever they are.

For the client the invariant is `ClientInv`. Of each customer: one call is awaited at most, by the page, which
shows "creating", and under the key on the device; *every transaction that may still place an order runs under the key
on the device, unless that key has its order already*; unheard pending orders have that key. The part in italics is what a transaction
abandoned by a lost answer or a restart is about; leaving a page in flight breaks the first, which
is why the theorems assume `~Impatient` and the run `checkout_leave` finds `FailedKeysStayStored` violated without it.

Only model-checked:
- liveness (`DueOrdersLeavePending`, `CallsEnd`, `WaitsEnd`): fairness and ENABLED are out of the
  prover's reach;
- `Wishlist`, of which the run refutes what its documents promise, and which has no property of its own that a passing run checks.

No module declares a RECURSIVE operator.

## 8. Findings

Where a document or comment of the repository and its code disagree; each is a run that TLC
refutes.

1. `order_metered` — 014:219 restores `NEW.quantity`, but a line sold by the metre took
   `CEIL(metres)` (078:642). 014:86-87 says the stock is restored exactly once.
2. `checkout_leave` — `place_checkout_order_usecase.dart:95` clears the stored key without looking
   whether it is its own. Two calls share a key when the page is left; one fails, the other
   succeeds in the background, and the key of the failed attempt is gone, which `:121-122`
   says stays persisted.
3. `rate_exceeded` — 070:500 compares a window number with seconds, so housekeeping removes every
   row, the one in use included.
4. `flow_rehydrated` — `payment_cubit.dart:192` drops every result unless the page waits, and the
   rehydrated page never does, although `instapay_instructions_page.dart:33-34` says it
   pops on the outcome.
5. `wishlist_full` — 075:137 counts the free places before the ids the account already has are left out, so they use
   places up: with n rows no id behind place 200 - n of the list is taken, and a list of more than a hundred takes nothing
   at its end. The answer replaces the copy of the device (`supabase_wishlist_repository.dart:48`) and the new wish is
   gone, although 075:103-104 says that nothing still wanted is removed by a sync. With a failed call, or with
   customers who sign out, `WishesSurvive` falls also where there is room: a late answer of `restore` replaces what was
   tapped while it was awaited.

Seen while reading and kept out of the runs, because what the text promises is open to reading
or the consequence is small:

- 025:31 asks that terminal states be coherent; `update_order_status` (014:153) cancels a pending
  order and leaves its payment row pending. Nothing can pay it afterwards (`SettlesTogether`), and
  `OrderLifecycle!Close` allows it.
- `instapay-submit-proof/index.ts:256` says that the policy re-checks that the payment is pending. It does so without a lock and before the
  unique index: while a review of an open proof is not committed, a second proof passes the policy, waits at
  the index and is stored open when the payment is decided. `review_instapay_proof` refuses it (073:299-303), so it decides
  nothing (`ProofsDecidePayments`), but it stays open, and so does a proof whose payment expired.
- 014:190-194 and 025:35 say that callback and cancellation both consult the restoration ledger; only the
  administrator's path does. The callback and the expiry rely on `order_items.restored` and on the final
  state of the order, and `StockConserved` holds because of these.
- 035:239-242 says that a claim is permanent and has no release or lease. This is so once the provider may have
  been reached (`SubmittedClaimsKept`); before that the code has both (035:255-264, `release_paymob_initiation_claim`).
- `place_checkout_order_usecase.dart:99` treats an order that was paid meanwhile like a dead one and
  draws a new key.
- `payment_cubit.dart:123-128`: the failure of a proof upload ends whatever attempt the page is in and leaves
  subscription and timer running, which `:176-177` says does not happen. `NoDeadWait`
  holds nevertheless.
- After a lost answer of `confirm_cod_payment` the retry is refused with `order_not_pending` by the change of
  method that precedes it, so the function's `already_confirmed` is not reached from the app.
- `secrets.ts:9-11` says that a function whose setting is missing refuses before it does anything. `paymob-initiate` looks for the
  service key after it took the claim (`index.ts:316`); `MisconfiguredChangesNothing` names that exception.
- `instapay-submit-proof/index.ts:268` removes the file when it did not hear that the row was stored. It does so
  with the customer's own client, and the bucket has no DELETE policy: nothing is removed, which leaves an orphan after a refusal and
  keeps the file of a row whose answer was lost. `RecordsHaveSubjects` holds because of the missing policy (its mutant adds it).
- `checkout/index.ts:102` and the review answer 400 when the answer of the database was lost: `RefusalsHarmless` excepts lost answers.
  The app keeps its key after any failure, which `UnheardOrdersKeepTheirKey` and `OneOrderPerAttempt` are about.
- `supabase_wishlist_sync_remote.dart` turns an answer it cannot read into an empty list, which then replaces the copy
  of the device, although its comment says that such an answer must never poison the local list.
- `paymob-callback/index.ts:184` takes any result that is not a success for a failure, one of a transaction that is still
  pending included; and its limiter counts per address (`:76`), which all results of the provider share.
- `cart_cubit.dart:182`: prices fetched for one wholesale member are attached if any member is signed in when they
  arrive. They are estimates; the order is priced by the server.
- A success that arrives after expiry is refused and recorded nowhere: the captured money has to be
  found and returned by hand. A retry with a changed cart and an old key returns the order of the old
  cart. Changing the method starts a new window each time, without limit.

## 9. What is not modelled

- *Client cart*: the plugin completes reads and writes of the preferences in the order of the calls, so the stored cart is that of the last
  write, and no event of the page comes between reading and showing it at the start; what remains are prices,
  which are estimates.
- *Pricing, membership, coupons, shipping*: read and computed inside the one statement of the checkout RPC, with no counter and no state of
  their own; the model of checkout takes their outcome as accepted or refused.
- *Reviews, catalogue administration*: one guarded statement each. The administrator's overwrite of a stock figure
  is discussed in section 6.
- *Audit trail*: written by triggers, read by nobody else.
- *Pages, localisation, authentication, platform projects, scripts*: no state machine of the store's own.

Signature checks, the
HTTP layer and the provider's inside are represented by what they deliver.
