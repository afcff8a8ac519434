------------------------------ MODULE RateLimit ------------------------------
(***************************************************************************)
(* rate_limit_take, the fixed-window counter in front of the edge          *)
(* functions, the coupon check and the checkout RPC.  A counter row is     *)
(* named by its bucket and by the number of its window, epoch divided by   *)
(* the window's length; about one call in a hundred also removes old rows. *)
(***************************************************************************)
EXTENDS Integers, FiniteSets

CONSTANTS
    Users,          \* callers with a session
    Addresses,      \* callers without one: the IPs paymob-callback names
    Kinds,          \* bucket kinds: acct, init, proof, cb, validate_coupon
    Limit,          \* takes per window, for each kind
    WindowSeconds,  \* length of the windows of a kind
    Retention,      \* 172800
    Epoch,          \* the time the model starts at
    MaxNow,         \* bound on the clock
    MaxPrunes       \* bound on the housekeepings

ASSUME RateAssumption ==
    /\ Users \intersect Addresses = {}
    /\ Limit \in [Kinds -> Nat \ {0}]
    /\ WindowSeconds \in [Kinds -> Nat \ {0}]
    /\ Retention \in Nat
    /\ Epoch \in Nat
    /\ MaxNow \in Nat
    /\ Epoch <= MaxNow
    /\ MaxPrunes \in Nat

VARIABLES
    count,      \* rate_limits.count; no row counts as zero
    now,        \* seconds
    prunes,     \* housekeepings so far
    granted,    \* takes granted to each caller, by kind and window
    refused     \* callers refused, with kind and window

vars == <<count, now, prunes, granted, refused>>

Callers == Users \union Addresses
Windows == {t \div w : t \in Epoch..MaxNow, w \in {WindowSeconds[kind] : kind \in Kinds}}
Rows == Kinds \X Callers \X Windows

Window(kind) == now \div WindowSeconds[kind]

\* mutant: the id of the request names the bucket, whoever calls
BucketAsked(caller, id) == IF caller \in Users THEN id ELSE id

\* a session names its own bucket, whatever id was asked for
Bucket(caller, id) == IF caller \in Users THEN caller ELSE id

\* mutant: one take too many
WithinAtMost(kind, row) == count[row] <= Limit[kind]

\* ON CONFLICT DO UPDATE ... WHERE count < p_limit
Within(kind, row) == count[row] < Limit[kind]

\* window_id < epoch - 172800
Prunable(row) == row[3] < now - Retention

\* DELETE, after the take was counted; random() < 0.01 may or may not say so
Prune(counts) ==
    \/ count' = counts /\ prunes' = prunes
    \/ /\ prunes < MaxPrunes
       /\ prunes' = prunes + 1
       /\ count' = [row \in Rows |-> IF Prunable(row) THEN 0 ELSE counts[row]]

Init ==
    /\ count = [row \in Rows |-> 0]
    /\ now = Epoch
    /\ prunes = 0
    /\ granted = [row \in Rows |-> 0]
    /\ refused = {}

Take(kind, caller, id) ==
    LET row == <<kind, Bucket(caller, id), Window(kind)>>
        own == <<kind, caller, Window(kind)>>
    IN  /\ caller \in Addresses => id = caller
        /\ IF Within(kind, row)
           THEN /\ Prune([count EXCEPT ![row] = @ + 1])
                /\ granted' = [granted EXCEPT ![own] = @ + 1]
                /\ refused' = refused
           ELSE /\ Prune(count)
                /\ refused' = refused \union {own}
                /\ granted' = granted
        /\ UNCHANGED now

Tick ==
    /\ now < MaxNow
    /\ now' = now + 1
    /\ UNCHANGED <<count, prunes, granted, refused>>

Next ==
    \/ \E kind \in Kinds, caller \in Callers, id \in Callers : Take(kind, caller, id)
    \/ Tick

Spec == Init /\ [][Next]_vars

-----------------------------------------------------------------------------
\* A caller is only refused after he himself was granted the full budget of the
\* window: nobody else's calls and no other window's count against him.
RefusedOnlyWhenSpent == \A row \in refused : granted[row] >= Limit[row[1]]

\* Between two housekeepings a window hands out its budget once.
BudgetPerHousekeeping ==
    \A row \in Rows : granted[row] <= Limit[row[1]] * (prunes + 1)

\* rate_limit.ts and migration 060: the limit is the number of takes per window, and
\* the housekeeping only removes dead windows.
WithinLimit == \A row \in Rows : granted[row] <= Limit[row[1]]
=============================================================================
