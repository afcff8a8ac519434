---------------------------- MODULE Notifications ----------------------------
(***************************************************************************)
(* What customers are told of their orders.  Two triggers on the orders    *)
(* table run inside every transaction of OrderPayment that places an order *)
(* or changes its status.  They ask pg_net to call the functions that mail *)
(* and push, with keys from the Vault.  pg_net makes a call after the      *)
(* commit, at most once, in no order and without anyone hearing how it     *)
(* ended; a request the trigger could not make is a warning in a log.      *)
(***************************************************************************)
EXTENDS OrderPayment

CONSTANTS
    Watched,    \* bound: the orders whose messages are followed
    Vaults,     \* the Vaults a deployment may have: sets of names
    MaxPosts    \* bound on the requests under way; beyond it they fail

ASSUME NotificationsAssumption ==
    /\ Watched \subseteq Orders
    /\ MaxPosts \in Nat

VARIABLES
    vault,      \* the names that have a secret
    posts,      \* requests of net.http_post that are not finished
    told        \* messages a provider took, by order, channel and event

noteVars == <<vault, posts, told>>

Mails == {"order_placed", "payment_confirmed", "order_shipped", "order_delivered",
          "order_cancelled"}
Pushes == {"processing", "shipped", "delivered", "cancelled"}
Messages == Watched \X (({"mail"} \X Mails) \union ({"push"} \X Pushes))

\* v_event of the trigger
MailOf(status) ==
    CASE status = "pending"   -> {"order_placed"}
      [] status = "paid"      -> {"payment_confirmed"}
      [] status = "shipped"   -> {"order_shipped"}
      [] status = "delivered" -> {"order_delivered"}
      [] status = "cancelled" -> {"order_cancelled"}
      [] OTHER                -> {}

\* the requests the trigger makes for a new status, if the Vault has their key
Wanted(o, status) ==
    {o} \X (   {"mail"} \X (IF "NOTIFICATIONS_INTERNAL_KEY" \in vault THEN MailOf(status) ELSE {})
        \union {"push"} \X (IF "PUSH_ORDER_STATUS_INTERNAL_KEY" \in vault
                            THEN {status} \intersect Pushes ELSE {}))

\* orders the triggers fire for: AFTER INSERT, and AFTER UPDATE OF status WHEN it changed
Changed == {o \in Watched : orders'[o].status # orders[o].status}

\* mutant: the transaction waits until the request before it was answered
DispatchWaiting ==
    /\ Changed # {} => posts = {}
    /\ \E made \in SUBSET UNION {Wanted(o, orders'[o].status) : o \in Changed} :
         posts' = posts \union made
    /\ UNCHANGED <<vault, told>>

\* dispatch_order_notification: a customer without an address, an account that is gone
\* and a request that fails are passed over
Dispatch ==
    /\ \E made \in SUBSET UNION {Wanted(o, orders'[o].status) : o \in Changed} :
         /\ "PROJECT_URL" \in vault \/ made = {}
         /\ posts' = posts \union made
         /\ Cardinality(posts') <= MaxPosts
    /\ UNCHANGED <<vault, told>>

NInit ==
    /\ Init
    /\ vault \in Vaults
    /\ posts = {}
    /\ told = [message \in Messages |-> 0]

\* a transaction of OrderPayment, with its triggers
Transaction == Next /\ Dispatch

\* the function called hands the message to its provider, or refuses, skips or fails
Deliver(post) ==
    /\ post \in posts
    /\ posts' = posts \ {post}
    /\ told' = told \/ told' = [told EXCEPT ![post] = @ + 1]
    /\ UNCHANGED <<vars, vault>>

NNext == Transaction \/ \E post \in Messages : Deliver(post)

\* pg_cron, as in OrderPayment; nothing is assumed of pg_net
NFairness == \A o \in Orders : WF_<<vars, noteVars>>(ExpireOrder(o) /\ Dispatch)

NSpec == NInit /\ [][NNext]_<<vars, noteVars>> /\ NFairness

-----------------------------------------------------------------------------
\* what is true of an order for good once a message about it is
TrueOf(o, event) ==
    CASE event = "order_placed"                    -> orders[o].status # "none"
      [] event = "payment_confirmed"               -> Successful(o) # {}
      [] event = "processing" ->
           orders[o].status \in {"processing", "shipped", "delivered", "cancelled"}
      [] event \in {"order_shipped", "shipped"} ->
           orders[o].status \in {"shipped", "delivered", "cancelled"}
      [] event \in {"order_delivered", "delivered"} -> orders[o].status = "delivered"
      [] event \in {"order_cancelled", "cancelled"} ->
           orders[o].status = "cancelled" /\ orders[o].restored

\* However late a message of dispatch_order_notification comes, what it says holds: a
\* confirmed payment is recorded, a cancelled order stays cancelled and its stock is back.
MessagesHold ==
    \A m \in Messages : told[m] > 0 => TrueOf(m[1], m[2][2])

\* No customer gets the same message twice, whatever the callers of the nine functions
\* repeat: no status of an order is ever entered twice.
ToldOnce == \A m \in Messages : told[m] <= 1
=============================================================================
