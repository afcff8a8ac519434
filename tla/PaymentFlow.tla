------------------------------ MODULE PaymentFlow ------------------------------
(***************************************************************************)
(* The payment page of the app: PaymentCubit, its calls to the server and  *)
(* the watcher that tells it what became of the payment. The server is     *)
(* OrderLifecycle: other devices, the provider, the administrator and the  *)
(* worker move the order at any time, and so does a call of this page      *)
(* whose answer never arrived.                                             *)
(***************************************************************************)
EXTENDS OrderLifecycle, Naturals

CONSTANTS
    Order,       \* the order the page was opened for
    Attempts,    \* runs of processPayment that may overlap
    MaxUploads,  \* bound: proof uploads that run at once
    NoRow

VARIABLES
    latest,      \* newest payment row of the order, or NoRow
    status,      \* PaymentState.status
    calls,       \* runs of processPayment
    uploads,     \* submitInstapayProof calls that wait for their answer
    watch        \* subscription, timer and watcher of the page

serverVars == <<stage, rows, latest>>
vars == <<stage, rows, latest, status, calls, uploads, watch>>

ASSUME OrderAssumption == Order \in Orders /\ MaxUploads \in Nat
ASSUME RowsAssumption == Payments \intersect {NoRow, "idle", "pending"} = {}

Methods == {"card", "cod", "instapay"}
Waiting == {"awaitingVerification", "awaitingProof"}
Ended == {"success", "failed", "cancelled", "timedOut"}

\* terminalResultForRow: what a row says to the page
Verdict(s) == IF s \in {"success", "failed"} THEN s ELSE "cancelled"
Decided(p) == rows[p].status \in {"success"} \union Lost
Settled == {p \in Payments : Decided(p)}

NoCall == [method |-> "none", step |-> "none", served |-> FALSE, old |-> {}]
\* old: rows that were settled before an attempt that ends in a watch began
NewCall(m) == [method |-> m, step |-> IF m = "instapay" THEN "initiate" ELSE "method",
               served |-> FALSE, old |-> IF m = "cod" THEN {} ELSE Settled]

\* spent: the watcher emitted its one result; poll: the row a poll has read
NoWatch == [open |-> FALSE, timer |-> FALSE, spent |-> FALSE, poll |-> "idle",
            events |-> {}, old |-> {}]
NewWatch(old) == [NoWatch EXCEPT !.open = TRUE, !.timer = TRUE, !.old = old]

PageInit ==
    /\ status = "selectingMethod"
    /\ calls = [a \in Attempts |-> NoCall]
    /\ uploads = 0
    /\ watch = NoWatch

Init == LInit /\ latest = NoRow /\ PageInit

-----------------------------------------------------------------------------
(* The server. *)

\* rows a step of the server opens, and rows of the order it settles
Opened == {p \in Payments : rows[p] = FreeRow /\ rows'[p] = Row(Order, "pending")}
Updated == {p \in Payments : \E s \in {"success"} \union Lost :
                               rows'[p] = Row(Order, s) /\ rows[p] # rows'[p]}

\* a subscription may hear of every update committed while it is open, in any order,
\* or never; it hears of no older one
Broadcast ==
    /\ latest' = IF Opened = {} THEN latest ELSE CHOOSE p \in Opened : TRUE
    /\ watch' = IF watch.open /\ ~watch.spent
                THEN [watch EXCEPT !.events = @ \union Updated] ELSE watch

OthersMove ==
    /\ LNext
    /\ Broadcast
    /\ UNCHANGED <<status, calls, uploads>>

\* the order keeps the row it waits for, or gets a new one
Renew == \/ RowsOf(Order, "pending") # {} /\ UNCHANGED <<stage, rows>>
         \/ \E p \in Payments : Await(Order, p)

\* the server does what a call asks for
Serve(a) ==
    /\ calls[a] # NoCall /\ ~calls[a].served
    /\ \/ /\ calls[a].step # "confirm"
          /\ stage[Order] = "awaiting" /\ Renew
       \/ /\ calls[a].step = "confirm"
          /\ \/ \E p \in Payments : Pay(Order, p)
             \/ /\ stage[Order] = "fulfilling" /\ RowsOf(Order, "success") # {}
                /\ UNCHANGED <<stage, rows>>
    /\ calls' = [calls EXCEPT ![a].served = TRUE]
    /\ Broadcast
    /\ UNCHANGED <<status, uploads>>

-----------------------------------------------------------------------------
(* Runs of processPayment. *)

ProcessPayment(a, m) ==
    /\ stage[Order] # "unplaced"
    /\ status \notin Waiting \union {"processing"}
    /\ calls[a] = NoCall
    /\ status' = "processing"
    /\ calls' = [calls EXCEPT ![a] = NewCall(m)]
    /\ UNCHANGED <<serverVars, uploads, watch>>

\* mutant: a confirmation without an answer counts as confirmed
ReceiveFailureTrusting(a) ==
    /\ calls[a] # NoCall
    /\ status' = IF calls[a].step = "confirm" THEN "success" ELSE "failed"
    /\ calls' = [calls EXCEPT ![a] = NoCall]
    /\ UNCHANGED <<serverVars, uploads, watch>>

\* a refusal, an error or a deadline, whether or not the server did its part
ReceiveFailure(a) ==
    /\ calls[a] # NoCall
    /\ status' = "failed"
    /\ calls' = [calls EXCEPT ![a] = NoCall]
    /\ UNCHANGED <<serverVars, uploads, watch>>

\* the method is stored: on to the provider, or to the confirmation
ReceiveMethod(a) ==
    /\ calls[a].served /\ calls[a].step = "method"
    /\ calls' = [calls EXCEPT
                   ![a].step = IF calls[a].method = "card" THEN "initiate" ELSE "confirm",
                   ![a].served = FALSE]
    /\ UNCHANGED <<serverVars, status, uploads, watch>>

\* startWatching takes the place of an older subscription
ReceiveSession(a) ==
    /\ calls[a].served /\ calls[a].step = "initiate"
    /\ status' = IF calls[a].method = "card" THEN "awaitingVerification" ELSE "awaitingProof"
    /\ watch' = NewWatch(calls[a].old)
    /\ calls' = [calls EXCEPT ![a] = NoCall]
    /\ UNCHANGED <<serverVars, uploads>>

ReceiveConfirmation(a) ==
    /\ calls[a].served /\ calls[a].step = "confirm"
    /\ status' = "success"
    /\ calls' = [calls EXCEPT ![a] = NoCall]
    /\ UNCHANGED <<serverVars, uploads, watch>>

-----------------------------------------------------------------------------
(* Proof uploads, and leaving. *)

\* the page that started an upload may be gone, and another one started the next
SubmitProof ==
    /\ status = "awaitingProof" /\ uploads < MaxUploads
    /\ uploads' = uploads + 1
    /\ UNCHANGED <<serverVars, status, calls, watch>>

ProofStored ==
    /\ uploads > 0
    /\ uploads' = uploads - 1
    /\ UNCHANGED <<serverVars, status, calls, watch>>

\* mutant: an upload ends twice
ProofFailedTwice ==
    /\ uploads' = uploads - 1
    /\ status' = "failed"
    /\ UNCHANGED <<serverVars, calls, watch>>

\* whatever the page does by now; the watch goes on
ProofFailed ==
    /\ uploads > 0
    /\ uploads' = uploads - 1
    /\ status' = "failed"
    /\ UNCHANGED <<serverVars, calls, watch>>

RearmAbandonedAttempt ==
    /\ status \in Waiting
    /\ status' = "selectingMethod"
    /\ watch' = NoWatch
    /\ UNCHANGED <<serverVars, calls, uploads>>

\* the page is closed, with all it waits for; it may be opened again
LeavePage ==
    /\ status' = "selectingMethod"
    /\ calls' = [a \in Attempts |-> NoCall]
    /\ uploads' = 0
    /\ watch' = NoWatch
    /\ UNCHANGED serverVars

-----------------------------------------------------------------------------
(* The watch. *)

\* mutant: results count for card payments only, as the deadline does
EmitToCards(p) ==
    IF status = "awaitingVerification"
    THEN status' = Verdict(rows[p].status) /\ watch' = NoWatch
    ELSE watch' = [watch EXCEPT !.spent = TRUE, !.poll = "idle", !.events = {}] /\ UNCHANGED status

\* emitTerminal, and the listener that drops what the page does not wait for
Emit(p) ==
    IF status \in Waiting
    THEN status' = Verdict(rows[p].status) /\ watch' = NoWatch
    ELSE watch' = [watch EXCEPT !.spent = TRUE, !.poll = "idle", !.events = {}] /\ UNCHANGED status

HearUpdate(p) ==
    /\ p \in watch.events
    /\ Emit(p)
    /\ UNCHANGED <<serverVars, calls, uploads>>

\* the row a poll reads: a result if it is settled
PollResult(p) == IF Decided(p) THEN p ELSE "pending"

\* mutant: the poll takes any row of the order
PollAnyRow ==
    /\ watch.open /\ ~watch.spent /\ watch.poll = "idle"
    /\ \E p \in Payments : /\ rows[p] # FreeRow
                           /\ watch' = [watch EXCEPT !.poll = PollResult(p)]
    /\ UNCHANGED <<serverVars, status, calls, uploads>>

\* mutant: the deadline of the wait ends the polling as well
PollUntilDeadline ==
    /\ watch.open /\ ~watch.spent /\ watch.poll = "idle" /\ watch.timer
    /\ latest # NoRow
    /\ watch' = [watch EXCEPT !.poll = PollResult(latest)]
    /\ UNCHANGED <<serverVars, status, calls, uploads>>

Poll ==
    /\ watch.open /\ ~watch.spent /\ watch.poll = "idle"
    /\ latest # NoRow
    /\ watch' = [watch EXCEPT !.poll = PollResult(latest)]
    /\ UNCHANGED <<serverVars, status, calls, uploads>>

PollAnswers ==
    /\ watch.poll # "idle"
    /\ \/ watch.poll \in Payments /\ Emit(watch.poll)
       \/ /\ watch.poll = "pending"
          /\ watch' = [watch EXCEPT !.poll = "idle"]
          /\ UNCHANGED status
    /\ UNCHANGED <<serverVars, calls, uploads>>

PollFails ==
    /\ watch.poll # "idle"
    /\ watch' = [watch EXCEPT !.poll = "idle"]
    /\ UNCHANGED <<serverVars, status, calls, uploads>>

\* the deadline of fifteen minutes binds card payments only
WatchTimeout ==
    /\ watch.timer
    /\ IF status = "awaitingVerification"
       THEN status' = "timedOut" /\ watch' = NoWatch
       ELSE watch' = [watch EXCEPT !.timer = FALSE] /\ UNCHANGED status
    /\ UNCHANGED <<serverVars, calls, uploads>>

WatchStep ==
    \/ \E p \in Payments : HearUpdate(p)
    \/ Poll \/ PollAnswers \/ PollFails \/ WatchTimeout

Next ==
    \/ OthersMove
    \/ \E a \in Attempts, m \in Methods : ProcessPayment(a, m)
    \/ \E a \in Attempts : \/ Serve(a) \/ ReceiveFailure(a) \/ ReceiveMethod(a)
                           \/ ReceiveSession(a) \/ ReceiveConfirmation(a)
    \/ SubmitProof \/ ProofStored \/ ProofFailed
    \/ RearmAbandonedAttempt \/ LeavePage
    \/ WatchStep

\* timers fire; a device that keeps polling gets an answer now and then
Fairness == WF_vars(WatchTimeout) /\ WF_vars(Poll) /\ SF_vars(PollAnswers)

Spec == Init /\ [][Next]_vars /\ Fairness

\* the instructions page opened from a link: a cubit of its own, only watching
RehydratedInit ==
    /\ stage = [o \in Orders |-> IF o = Order THEN "awaiting" ELSE "unplaced"]
    /\ latest \in Payments
    /\ rows = [p \in Payments |-> IF p = latest THEN Row(Order, "pending") ELSE FreeRow]
    /\ status = "selectingMethod"
    /\ calls = [a \in Attempts |-> NoCall]
    /\ uploads = 0
    /\ watch = NewWatch({})

RehydratedSpec == RehydratedInit /\ [][OthersMove \/ WatchStep]_vars

-----------------------------------------------------------------------------
(* Properties. *)

\* The page, its calls and its watch have their shape.
FlowTypeOK ==
    /\ latest \in Payments \union {NoRow}
    /\ status \in {"selectingMethod", "processing"} \union Waiting \union Ended
    /\ calls \in [Attempts -> [method : Methods \union {"none"},
                               step : {"none", "method", "initiate", "confirm"},
                               served : BOOLEAN, old : SUBSET Payments]]
    /\ uploads \in 0..MaxUploads
    /\ watch \in [open : BOOLEAN, timer : BOOLEAN, spent : BOOLEAN,
                  poll : {"idle", "pending"} \union Payments,
                  events : SUBSET Payments, old : SUBSET Payments]

\* The page says a payment succeeded only when a payment of the order did, whoever
\* told it: the confirmation of a cash order, an update, or a poll that was slow.
SuccessIsReal == status = "success" => RowsOf(Order, "success") # {}

\* A page that shows progress waits for something: a call that runs, or a watch that
\* can still emit, which for a card ends at its deadline. Otherwise the pay button
\* stays without effect and the customer is stuck.
NoDeadWait ==
    /\ status = "processing" => \E a \in Attempts : calls[a] # NoCall
    /\ status \in Waiting => watch.open /\ ~watch.spent
    /\ status = "awaitingVerification" => watch.timer

\* What is on its way to the page is about a row that was settled after the attempt
\* began: a retry never ends with the result of the attempt before it, although the
\* order keeps the rows of both.
VerdictsAreNew == (watch.events \union ({watch.poll} \intersect Payments)) \intersect watch.old = {}

\* A card wait ends at its deadline, and a wait for a proof ends when the newest payment
\* is decided, although realtime may deliver nothing and polls may fail.
WaitsEnd ==
    /\ status = "awaitingVerification" ~> status # "awaitingVerification"
    /\ (status = "awaitingProof" /\ latest \in Settled)
         ~> (status # "awaitingProof" \/ latest \notin Settled)

\* A claim its run refutes. instapay_instructions_page.dart, 31-34: the rehydrated page
\* resumes the watch so that terminal outcomes still pop it.
RehydratedResultsShown == watch.spent => status \in Ended
=============================================================================
