---------------------------- MODULE EdgeFunctions ----------------------------
(***************************************************************************)
(* The edge functions, from the arrival of a request to its answer.  Each  *)
(* handler is a program: the checks and the awaited requests it makes, in  *)
(* their order, and what it does when one of them fails.  A call runs its  *)
(* program one step at a time; the answer of a request may be lost after   *)
(* it took effect, and the isolate may be killed between two steps.  What  *)
(* the requests do to orders and payments is the business of OrderPayment; *)
(* here an effect is its name.  The limiter in front of four of the        *)
(* handlers is the one of RateLimit.                                       *)
(***************************************************************************)
EXTENDS RateLimit, Sequences

CONSTANTS
    Admins,     \* users whose profile says is_admin
    MaxCalls,   \* bound on the calls of a behaviour
    MaxDirect,  \* bound on the limiter calls of other code
    Directs     \* bound on what they ask: kind, caller and id

ASSUME EdgeAssumption ==
    /\ Admins \subseteq Users
    /\ {"acct", "init", "proof", "cb"} \subseteq Kinds
    /\ MaxCalls \in Nat
    /\ MaxDirect \in Nat
    /\ Directs \subseteq Kinds \X Users \X Callers

VARIABLES
    call,       \* the call in progress, or the last one
    calls,      \* calls so far
    direct,     \* limiter calls of other code so far
    worked,     \* metered work done for each caller, by kind and window
    opened      \* calls the limiter did not answer

edgeVars == <<call, calls, direct, worked, opened>>
allVars == <<vars, edgeVars>>

-----------------------------------------------------------------------------
(* The steps of a program: the code of the answer when the step fails, or   *)
(* what is still done when a request is refused or its answer is lost.      *)

Check(op, name, code) == [op |-> op, name |-> name, code |-> code]

Setting(name, code) == Check("setting", name, code)

\* an input is checked, or a row is read, and the handler may end here
Expect(code) == Check("expect", "", code)

\* the body is read, which may throw, and checked
Body(code) == Check("body", "", code)

\* auth.getUser() finds the caller
Session == Check("session", "", 401)

\* the request is what it says: it names the caller's own order or account,
\* carries the internal key, or is signed by the provider
Genuine(code) == Check("genuine", "", code)

Admin(code) == Check("admin", "", code)
NotAdmin(code) == Check("not_admin", "", code)

Metered(kind) == Check("metered", kind, 429)

Answer(code) == Check("answer", "", code)

\* a request whose failure is only logged
Try(effect) == Check("try", effect, 500)

\* a request that takes effect, or is refused, or whose answer is lost
DoOr(effect, ifRefused, ifLost) ==
    [op |-> "do", name |-> effect, refused |-> ifRefused, lost |-> ifLost]

Do(effect, code) == DoOr(effect, <<Answer(code)>>, <<Answer(code)>>)

\* requireCors, and OPTIONS
Cors == <<Setting("CORS_ALLOWED_ORIGINS", 500), Expect(200)>>

ServiceRole(code) == Setting("SUPABASE_SERVICE_ROLE_KEY", code)

\* requireSecretHeader, and its two halves in the notification functions
Key(secret, code) == <<Setting(secret, code), Genuine(401)>>

\* verifyHmac over the canonical fields of the transaction
Signed == Genuine(401)

-----------------------------------------------------------------------------
(* The programs: what is checked, and what is done once all of it held. *)

\* session, address
CheckoutChecks == Cors \o <<Session, Body(400)>>

Checkout == CheckoutChecks \o <<Do("order", 400), Answer(200)>>

\* mutant: the profile is read after the account was deleted
DeleteAccountLateCheck ==
    Cors \o <<Expect(405), Session, Metered("acct"), Body(400), Genuine(403), Expect(400),
              Expect(403), ServiceRole(503), Do("account", 500), Expect(500), NotAdmin(403),
              Answer(200)>>

\* mutant: the limiter is asked once the work is done
DeleteAccountLateMeter ==
    Cors \o <<Expect(405), Session, Body(400), Genuine(403), Expect(400), Expect(403),
              ServiceRole(503), Expect(500), NotAdmin(403), Do("account", 500),
              Metered("acct"), Answer(200)>>

\* method, session, limiter, user id, own account, e-mail on file, e-mail typed, profile
DeleteChecks ==
    Cors \o <<Expect(405), Session, Metered("acct"), Body(400), Genuine(403), Expect(400),
              Expect(403), ServiceRole(503), Expect(500), NotAdmin(403)>>

DeleteAccount == DeleteChecks \o <<Do("account", 500), Answer(200)>>

\* mutant: the address customers pay to is looked up last
InstapayInitiateLateSetting ==
    Cors \o <<Expect(405), Session, Metered("init"), Body(400), Genuine(403),
              Do("method", 400), Expect(404), Expect(400), Expect(404), Expect(500),
              Setting("INSTAPAY_MERCHANT_ADDRESS", 500), Answer(200)>>

TransferChecks ==
    Cors \o <<Expect(405), Session, Metered("init"),
              Setting("INSTAPAY_MERCHANT_ADDRESS", 500), Body(400), Genuine(403)>>

\* the method is switched, and then the order, its payment and the amount are read back
InstapayInitiate ==
    TransferChecks \o <<Do("method", 400), Expect(404), Expect(400), Expect(404),
                        Expect(500), Answer(200)>>

\* session and limiter, then length and form of the request
ProofChecks ==
    Cors \o <<Expect(405), Session, Metered("proof"), Body(413), Expect(400), Expect(400),
              Expect(400), Expect(413)>>

\* own pending payment, number of proofs, encoding, size, format, signature
FileChecks ==
    <<Genuine(404), Expect(404), Expect(429), Expect(400), Expect(400), Expect(400),
      Expect(400)>>

\* mutant: the policy that lets a customer remove the files of his folder
RemovalAllowed == "removed"

\* the bucket has no policy for DELETE, so remove() of the customer's client does nothing
Removal == "removal_refused"

\* mutant: a refused row is not reported
ProofWritesUnchecked == <<Do("file", 500), Try("proof"), Answer(201)>>

\* the file, the row; when the row failed, or its answer was lost, the file is removed
ProofWrites ==
    <<Do("file", 500),
      DoOr("proof", <<Try(Removal), Expect(409), Answer(500)>>,
                    <<Try(Removal), Answer(500)>>),
      Answer(201)>>

InstapaySubmitProof == ProofChecks \o FileChecks \o ProofWrites

\* mutant: the profile is not looked at
InstapayReviewAnyone ==
    Cors \o <<Expect(405), Session, Body(400), ServiceRole(500), Expect(403),
              Do("review", 400), Answer(200)>>

\* method, session, body, profile, is_admin
ReviewChecks ==
    Cors \o <<Expect(405), Session, Body(400), ServiceRole(500), Expect(403), Admin(403)>>

InstapayReview == ReviewChecks \o <<Do("review", 400), Answer(200)>>

\* method, session, e-mail, body, own order, its state and method, credentials
InitiateChecks ==
    Cors \o <<Expect(405), Session, Expect(400), Body(400), Genuine(404), Expect(404),
              Expect(400), Expect(400), Setting("PAYMOB_API_KEY", 503),
              Setting("PAYMOB_IFRAME_ID", 503)>>

\* no claim: a page of the order the provider has, an initiation in progress, a refusal,
\* an incomplete answer
InitiateUnclaimed == <<Expect(200), Expect(502), Expect(409), Expect(400), Answer(500)>>

\* the claim, and only then the key its next transitions need
InitiateClaim ==
    <<DoOr("claim", InitiateUnclaimed, <<Answer(500)>>), ServiceRole(503)>>

\* before the submission is recorded a failure releases the claim, after it never
InitiateProvider ==
    LET release == <<Try("release"), Answer(502)>> IN
    <<DoOr("submitted", release, release), Do("registered", 502), Do("persisted", 502),
      Expect(502), Answer(200)>>

PaymobInitiate == InitiateChecks \o (InitiateClaim \o InitiateProvider)

\* method, limiter, body, secret, form of the transaction, signature, fields, amount
CallbackChecks ==
    <<Expect(200), Expect(400), ServiceRole(503), Metered("cb"), Body(400),
      Setting("PAYMOB_HMAC_SECRET", 503), Expect(400), Signed, Expect(400), Expect(400)>>

\* a result handled before is answered like the first
CallbackResult ==
    <<DoOr("result", <<Expect(200), Expect(400), Answer(500)>>, <<Answer(500)>>),
      Answer(200)>>

PaymobCallback == CallbackChecks \o CallbackResult

WorkerChecks ==
    Cors \o Key("SCHEDULER_SECRET", 401)
         \o <<ServiceRole(503), Setting("SUPABASE_URL", 503)>>

\* the sweep, the query, and for every order found the expiry; neither the sweep nor
\* an expiry that fails ends the pass
CancelExpiredOrders ==
    WorkerChecks \o <<Try("sweep"), Expect(500), Expect(200), Try("expiry"),
                      Try("next_expiry"), Answer(200)>>

\* fields, locale, event
NotificationChecks ==
    Cors \o Key("NOTIFICATIONS_INTERNAL_KEY", 503)
         \o <<Body(400), Expect(400), Expect(400), Setting("RESEND_API_KEY", 200),
              Setting("SUPABASE_URL", 503), ServiceRole(503)>>

\* the row, the mail, and what became of it
NotificationSends ==
    LET failed == <<Try("failed"), Answer(502)>> IN
    <<Do("row", 500), DoOr("mail", failed, failed), Try("sent"), Answer(200)>>

SendOrderNotification == NotificationChecks \o NotificationSends

\* order id, status, owner
PushChecks ==
    Cors \o Key("PUSH_ORDER_STATUS_INTERNAL_KEY", 503)
         \o <<Body(400), Expect(400), ServiceRole(503), Expect(200),
              Setting("ONESIGNAL_APP_ID", 200)>>

PushOrderStatus == PushChecks \o <<Do("push", 502), Answer(200)>>

Functions == {"checkout", "delete-account", "instapay-initiate", "instapay-submit-proof",
              "instapay-review", "paymob-initiate", "paymob-callback",
              "cancel-expired-orders", "send-order-notification", "push-order-status"}

Program(fn) ==
    CASE fn = "checkout"                -> Checkout
      [] fn = "delete-account"          -> DeleteAccount
      [] fn = "instapay-initiate"       -> InstapayInitiate
      [] fn = "instapay-submit-proof"   -> InstapaySubmitProof
      [] fn = "instapay-review"         -> InstapayReview
      [] fn = "paymob-initiate"         -> PaymobInitiate
      [] fn = "paymob-callback"         -> PaymobCallback
      [] fn = "cancel-expired-orders"   -> CancelExpiredOrders
      [] fn = "send-order-notification" -> SendOrderNotification
      [] fn = "push-order-status"       -> PushOrderStatus

\* what a function is for; the worker's expiries may all fail
Purpose(fn) ==
    CASE fn = "checkout"                -> {"order"}
      [] fn = "delete-account"          -> {"account"}
      [] fn = "instapay-initiate"       -> {"method"}
      [] fn = "instapay-submit-proof"   -> {"file", "proof"}
      [] fn = "instapay-review"         -> {"review"}
      [] fn = "paymob-initiate"         -> {"claim", "submitted", "registered", "persisted"}
      [] fn = "paymob-callback"         -> {"result"}
      [] fn = "cancel-expired-orders"   -> {}
      [] fn = "send-order-notification" -> {"row", "mail"}
      [] fn = "push-order-status"       -> {"push"}

\* called with a key or a signature, without a session
Machines ==
    {"paymob-callback", "cancel-expired-orders", "send-order-notification",
     "push-order-status"}

Kind(fn) ==
    CASE fn = "delete-account"        -> "acct"
      [] fn = "instapay-initiate"     -> "init"
      [] fn = "instapay-submit-proof" -> "proof"
      [] fn = "paymob-callback"       -> "cb"

-----------------------------------------------------------------------------
\* no window: the limiter was not asked yet
NotAsked == -1

NoCall == [fn |-> "checkout", caller |-> CHOOSE c \in Callers : TRUE, genuine |-> FALSE,
           todo |-> <<>>, did |-> {}, lost |-> FALSE, window |-> NotAsked, code |-> 0,
           why |-> "none"]

EInit ==
    /\ Init
    /\ call = NoCall
    /\ calls = 0
    /\ direct = 0
    /\ worked = [row \in Rows |-> 0]
    /\ opened = 0

Running == call.todo # <<>>
At(op) == Running /\ Head(call.todo).op = op
Step == Head(call.todo)

Begin(fn, caller, genuine) ==
    /\ ~Running
    /\ calls < MaxCalls
    /\ fn \in Machines => caller \in Addresses
    /\ calls' = calls + 1
    /\ call' = [NoCall EXCEPT !.fn = fn, !.caller = caller, !.genuine = genuine,
                              !.todo = Program(fn)]
    /\ UNCHANGED <<vars, direct, worked, opened>>

Advance == call' = [call EXCEPT !.todo = Tail(@)]

Finish(code, why) == call' = [call EXCEPT !.todo = <<>>, !.code = code, !.why = why]

\* requireSecret, requireCors and what handlers read themselves: the deployment may
\* define the setting or not
CheckSetting ==
    /\ At("setting")
    /\ Advance \/ Finish(Step.code, "setting")
    /\ UNCHANGED <<vars, calls, direct, worked, opened>>

\* who calls, and for whom; a session may have run out
CheckCaller ==
    /\ \/ /\ At("session")
          /\ \/ call.caller \in Users /\ Advance
             \/ Finish(401, "caller")
       \/ /\ At("genuine")
          /\ IF call.genuine THEN Advance ELSE Finish(Step.code, "caller")
       \/ /\ At("admin")
          /\ IF call.caller \in Admins THEN Advance ELSE Finish(Step.code, "caller")
       \/ /\ At("not_admin")
          /\ IF call.caller \notin Admins THEN Advance ELSE Finish(Step.code, "caller")
    /\ UNCHANGED <<vars, calls, direct, worked, opened>>

CheckInput ==
    /\ \/ At("expect") \/ At("body")
    /\ \/ Advance
       \/ Finish(Step.code, "input")
       \/ At("body") /\ Finish(500, "input")
    /\ UNCHANGED <<vars, calls, direct, worked, opened>>

\* enforceRateLimit: refused, granted, or no answer, which lets the call through
AskLimiter ==
    /\ At("metered")
    /\ LET kind == Step.name
           through == call' = [call EXCEPT !.todo = Tail(@), !.window = Window(kind)]
       IN \/ /\ Take(kind, call.caller, call.caller)
             /\ IF Within(kind, <<kind, call.caller, Window(kind)>>)
                THEN through ELSE Finish(429, "limiter")
             /\ opened' = opened
          \/ /\ Take(kind, call.caller, call.caller) \/ UNCHANGED vars
             /\ through
             /\ opened' = opened + 1
    /\ UNCHANGED <<calls, direct, worked>>

\* the work the limiter is there for
MeteredEffects == {"account", "method", "file", "result"}

\* it counts for the window the limiter was asked in
Work(effect) ==
    LET kind == Kind(call.fn)
        row == <<kind, call.caller, IF call.window = NotAsked THEN Window(kind) ELSE call.window>>
    IN worked' = IF effect \in MeteredEffects
                 THEN [worked EXCEPT ![row] = @ + 1] ELSE worked

\* a request whose answer the handler acts upon
Request ==
    /\ At("do")
    /\ \/ /\ call' = [call EXCEPT !.todo = Step.refused]
          /\ worked' = worked
       \/ /\ call' = [call EXCEPT !.todo = Tail(@), !.did = @ \union {Step.name}]
          /\ Work(Step.name)
       \/ /\ call' = [call EXCEPT !.todo = Step.lost, !.did = @ \union {Step.name},
                                  !.lost = TRUE]
          /\ Work(Step.name)
    /\ UNCHANGED <<vars, calls, direct, opened>>

\* a request whose answer is only logged
BestEffort ==
    /\ At("try")
    /\ \/ Advance
       \/ call' = [call EXCEPT !.todo = Tail(@), !.did = @ \union {Step.name}]
    /\ UNCHANGED <<vars, calls, direct, worked, opened>>

Respond ==
    /\ At("answer")
    /\ Finish(Step.code, "answer")
    /\ UNCHANGED <<vars, calls, direct, worked, opened>>

\* the isolate that runs the call is killed
Kill ==
    /\ Running
    /\ Finish(0, "killed")
    /\ UNCHANGED <<vars, calls, direct, worked, opened>>

\* the coupon check and the checkout RPC take from the limiter as well, and so may
\* any client with a session, for any bucket
TakeDirectly(kind, caller, id) ==
    /\ direct < MaxDirect
    /\ direct' = direct + 1
    /\ Take(kind, caller, id)
    /\ UNCHANGED <<call, calls, worked, opened>>

ETick == Tick /\ UNCHANGED edgeVars

ENext ==
    \/ \E fn \in Functions, caller \in Callers, genuine \in BOOLEAN :
          Begin(fn, caller, genuine)
    \/ CheckSetting \/ CheckCaller \/ CheckInput \/ AskLimiter
    \/ Request \/ BestEffort \/ Respond \/ Kill
    \/ \E ask \in Directs : TakeDirectly(ask[1], ask[2], ask[3])
    \/ ETick

ESpec == EInit /\ [][ENext]_allVars

-----------------------------------------------------------------------------
Answered == ~Running /\ call.why \notin {"none", "killed"}

\* secrets.ts: a call that a missing setting ends has changed nothing.  One handler
\* does not keep it: paymob-initiate looks for the service key after it took the claim.
MisconfiguredChangesNothing ==
    Answered /\ call.why = "setting" =>
      call.did \subseteq IF call.fn = "paymob-initiate" THEN {"claim"} ELSE {}

\* What a call that is told no may still have changed although every answer came: the
\* InstaPay function switches the method before it reads the order back, and the file
\* of a proof is uploaded before its row is refused.
Residue(fn) ==
    CASE fn = "instapay-initiate"     -> {"method"}
      [] fn = "instapay-submit-proof" -> {"file", "removal_refused"}
      [] OTHER                        -> {}

\* A caller who is told that his request is wrong has changed nothing, unless an answer
\* was lost on the way: then checkout and the review say 400 to what was done.
RefusalsHarmless ==
    Answered /\ call.code \in 400..499 /\ ~call.lost => call.did \subseteq Residue(call.fn)

\* A caller who is told that the request is done finds it done.
DoneMeansDone ==
    Answered /\ call.code \in 200..299 /\ call.why = "answer" =>
      Purpose(call.fn) \subseteq call.did

\* Whatever was done was done for someone entitled to it: accounts fall by their own
\* customer, reviews by an administrator, and the machines' functions serve no one
\* without their key or signature.
EffectsEntitled ==
    call.did # {} =>
      /\ call.fn \notin Machines => call.caller \in Users
      /\ call.fn = "instapay-review" => call.caller \in Admins
      /\ call.fn = "delete-account" => call.caller \notin Admins
      /\ call.fn \notin {"checkout", "instapay-review"} => call.genuine

\* A proof never names a file that is not there, although the function removes the file
\* whenever it did not hear that the row was stored; a notification row never says "sent"
\* of a mail the provider did not take; a provider order is stored only if it exists.
RecordsHaveSubjects ==
    /\ "proof" \in call.did => "file" \in call.did /\ "removed" \notin call.did
    /\ "sent" \in call.did => "mail" \in call.did
    /\ "persisted" \in call.did => "registered" \in call.did

\* What the metered functions do for a caller in a window stays within the budget of
\* the window, as often as it was handed out, and the calls the limiter let through
\* without an answer.
WorkMetered ==
    \A row \in Rows : worked[row] <= Limit[row[1]] * (prunes + 1) + opened
=============================================================================
