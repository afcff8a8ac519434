--------------------------- MODULE PaymobInitiate ---------------------------
(***************************************************************************)
(* The edge function paymob-initiate and the payment provider, composed    *)
(* with the database of OrderPayment.  A call of the function is a process *)
(* that awaits the database and the provider one request after another; an *)
(* answer may be lost after its request took effect, and the process may   *)
(* be killed between any two steps.  The provider delivers the results of  *)
(* payments in any order and any number of times.                          *)
(***************************************************************************)
EXTENDS OrderPayment

CONSTANTS
    Requests,   \* calls of the function that run at the same time
    Nothing     \* a field that is not set yet

VARIABLES
    requests,   \* the calls in progress
    registered, \* provider orders that exist, with the order each was made for
    keys,       \* provider orders whose checkout page a customer was given
    results     \* results the provider has: <<provider order, success>>

processVars == <<requests, registered, keys, results>>
allVars == <<vars, processVars>>

Steps == {"idle", "claim", "authenticate", "submit", "register", "persist", "key", "release"}

Idle == [step |-> "idle", order |-> Nothing, payment |-> Nothing, token |-> 0,
         provider |-> NoProvider]

PInit ==
    /\ Init
    /\ requests = [r \in Requests |-> Idle]
    /\ registered = {}
    /\ keys = {}
    /\ results = {}

At(r, step) == requests[r].step = step

Goto(r, step) == requests' = [requests EXCEPT ![r].step = step]

\* the function answers its caller, with or without a checkout page
Return(r) == requests' = [requests EXCEPT ![r] = Idle]

-----------------------------------------------------------------------------
\* the order is read without a lock: it is pending and to be paid by card
Begin(r, o) ==
    /\ At(r, "idle")
    /\ orders[o].status = "pending"
    /\ orders[o].method = "card"
    /\ requests' = [requests EXCEPT ![r].step = "claim", ![r].order = o]
    /\ UNCHANGED <<vars, registered, keys, results>>

\* decideInitiationClaim: "create", and its answer may be lost on the way
ClaimCreate(r) ==
    /\ At(r, "claim")
    /\ \E p \in Payments :
         /\ GetOrClaim(requests[r].order, p)
         /\ \/ requests' = [requests EXCEPT ![r].step = "authenticate",
                                            ![r].payment = p,
                                            ![r].token = tokens + 1]
            \/ Return(r)
    /\ UNCHANGED <<registered, keys, results>>

\* mutant: the provider order of the answer is not looked at
ClaimReissueUnchecked(r) ==
    /\ At(r, "claim")
    /\ ClaimCode(requests[r].order) \in {"existing_provider_order", "initiation_in_progress"}
    /\ \E p \in PendingCards(requests[r].order) :
         requests' = [requests EXCEPT ![r].step = "key",
                                      ![r].provider = payments[p].provider]
    /\ UNCHANGED <<vars, registered, keys, results>>

\* decideInitiationClaim: "reissue" a key for the order the provider has
ClaimReissue(r) ==
    /\ At(r, "claim")
    /\ ClaimCode(requests[r].order) = "existing_provider_order"
    /\ \E p \in PendingCards(requests[r].order) :
         /\ payments[p].provider # NoProvider
         /\ requests' = [requests EXCEPT ![r].step = "key",
                                         ![r].provider = payments[p].provider]
    /\ UNCHANGED <<vars, registered, keys, results>>

\* decideInitiationClaim: "reject" or "in_progress"
ClaimReject(r) ==
    /\ At(r, "claim")
    /\ ClaimCode(requests[r].order) \notin {"claimed", "existing_provider_order"}
    /\ Return(r)
    /\ UNCHANGED <<vars, registered, keys, results>>

Authenticate(r) ==
    /\ At(r, "authenticate")
    /\ Goto(r, "submit") \/ Goto(r, "release")
    /\ UNCHANGED <<vars, registered, keys, results>>

\* before the order is sent to the provider the claim says so; without a clear
\* answer nothing is sent and the claim is released
Submit(r) ==
    /\ At(r, "submit")
    /\ LET p == requests[r].payment
           token == requests[r].token
       IN \/ MarkSubmitted(p, token) /\ (Goto(r, "register") \/ Goto(r, "release"))
          \/ ~HoldsClaim(p, token) /\ Goto(r, "release") /\ UNCHANGED vars
    /\ UNCHANGED <<registered, keys, results>>

Unregistered == {x \in Providers : \A made \in registered : made.provider # x}

\* mutant: the key is fetched before the provider order is persisted
RegisterThenKey(r) ==
    /\ At(r, "register")
    /\ \E x \in Unregistered :
         /\ registered' = registered \union {[provider |-> x, order |-> requests[r].order]}
         /\ requests' = [requests EXCEPT ![r].step = "key", ![r].provider = x]
    /\ UNCHANGED <<vars, keys, results>>

\* the provider creates the order, and the answer may miss the five seconds
Register(r) ==
    /\ At(r, "register")
    /\ \/ \E x \in Unregistered :
            /\ registered' = registered \union {[provider |-> x, order |-> requests[r].order]}
            /\ \/ requests' = [requests EXCEPT ![r].step = "persist", ![r].provider = x]
               \/ Return(r)
       \/ Return(r) /\ registered' = registered
    /\ UNCHANGED <<vars, keys, results>>

\* mutant: a refusal of the database is not looked at
PersistUnchecked(r) ==
    /\ At(r, "persist")
    /\ LET persist == PersistProviderOrder(requests[r].payment, requests[r].token,
                                           requests[r].provider)
       IN persist \/ UNCHANGED vars
    /\ Goto(r, "key")
    /\ UNCHANGED <<registered, keys, results>>

\* a refusal of the database ends the call, and so does a lost answer
Persist(r) ==
    /\ At(r, "persist")
    /\ \/ /\ PersistProviderOrder(requests[r].payment, requests[r].token,
                                  requests[r].provider)
          /\ Goto(r, "key") \/ Return(r)
       \/ Return(r) /\ UNCHANGED vars
    /\ UNCHANGED <<registered, keys, results>>

\* the payment key, and with it the checkout page
GetKey(r) ==
    /\ At(r, "key")
    /\ keys' = keys \union {requests[r].provider} \/ keys' = keys
    /\ Return(r)
    /\ UNCHANGED <<vars, registered, results>>

Release(r) ==
    /\ At(r, "release")
    /\ ReleaseClaim(requests[r].payment, requests[r].token) \/ UNCHANGED vars
    /\ Return(r)
    /\ UNCHANGED <<registered, keys, results>>

\* the isolate that runs the call is killed
Crash(r) ==
    /\ ~At(r, "idle")
    /\ Return(r)
    /\ UNCHANGED <<vars, registered, keys, results>>

-----------------------------------------------------------------------------
\* The customer pays on the checkout page; a declined attempt may be repeated.
Attempt(x, success) ==
    /\ x \in keys
    /\ <<x, TRUE>> \notin results
    /\ results' = results \union {<<x, success>>}
    /\ UNCHANGED <<vars, requests, registered, keys>>

\* paymob-callback hands a result over, whether or not it did before
Callback(x, success) ==
    /\ <<x, success>> \in results
    /\ IF success THEN CallbackSuccess(x) ELSE CallbackFailure(x)
    /\ UNCHANGED processVars

\* what happens to an order besides its initiations
Elsewhere ==
    /\ \/ Tick
       \/ \E o \in Orders, m \in Methods : CreateOrder(o, m) \/ SetMethod(o, m)
       \/ \E o \in Orders : ConfirmCod(o) \/ ExpireOrder(o)
       \/ \E o \in Orders, s \in OrderStatuses : AdminUpdate(o, s)
    /\ UNCHANGED processVars

PNext ==
    \/ \E r \in Requests :
         \/ \E o \in Orders : Begin(r, o)
         \/ ClaimCreate(r) \/ ClaimReissue(r) \/ ClaimReject(r)
         \/ Authenticate(r) \/ Submit(r) \/ Register(r) \/ Persist(r)
         \/ GetKey(r) \/ Release(r) \/ Crash(r)
    \/ \E x \in Providers, success \in BOOLEAN : Attempt(x, success) \/ Callback(x, success)
    \/ Elsewhere

PSpec == PInit /\ [][PNext]_allVars

-----------------------------------------------------------------------------
RequestRecord == [step : Steps, order : Orders \union {Nothing},
                  payment : Payments \union {Nothing}, token : Nat,
                  provider : Providers \union {NoProvider}]

\* The shape of the processes' state.
ProcessTypeOK ==
    /\ requests \in [Requests -> RequestRecord]
    /\ registered \in SUBSET [provider : Providers, order : Orders]
    /\ keys \in SUBSET Providers
    /\ results \in SUBSET (Providers \X BOOLEAN)

Captured == {x \in Providers : <<x, TRUE>> \in results}

\* The provider never holds two orders for one order of the store, whatever calls
\* overlap, time out, lose their answers or die: a customer cannot pay twice.
OneProviderOrder ==
    \A a, b \in registered : a.order = b.order => a = b

\* A customer only ever sees the checkout page of a provider order that the database
\* knows, so that every result of it finds its payment.
KeysArePersisted ==
    \A x \in keys : \E p \in Payments : payments[p].provider = x

\* When the card of a customer was charged for an order that is in fulfilment, that
\* charge is what paid it: it was not paid once more by cash or transfer.
ChargePaysItsOrder ==
    \A made \in registered :
      made.provider \in Captured /\ orders[made.order].status \in Paid =>
        \A p \in Successful(made.order) : payments[p].provider = made.provider

\* As long as an order can be paid, a charge made for it is accepted whenever its
\* result comes.
LiveChargesAccepted ==
    \A made \in registered :
      made.provider \in Captured /\ Live(made.order) =>
        \E p \in Payments : payments[p].provider = made.provider /\ AcceptsCallback(p)

Rank(phase) == CASE phase = "none" -> 0
                 [] phase = "pre_provider" -> 1
                 [] phase = "provider_submitted" -> 2
                 [] OTHER -> 3

\* A claim that may have reached the provider is never taken back, although the call
\* that lost the answer of the database tries to release it.
SubmittedClaimsKept ==
    [][\A p \in Payments :
         Rank(payments[p].phase) >= 2 => Rank(payments'[p].phase) >= Rank(payments[p].phase)]_allVars
=============================================================================
