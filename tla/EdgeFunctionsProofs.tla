------------------------- MODULE EdgeFunctionsProofs -------------------------
(* Theorems of RateLimit and EdgeFunctions, for any callers, kinds, limits and  *)
(* windows, and any number of calls.  The first part is about the limiter.  The *)
(* second gives every step of a program its kind, and shows of each of the ten  *)
(* programs that its steps stand in the order the properties need.  The third   *)
(* shows that whatever a call does, what is left of its program stays in that   *)
(* order, and that work it still owes was paid for.                             *)
EXTENDS EdgeFunctions, TLAPS

\* The state keeps its shape.
RateTypeOK ==
    /\ count \in [Rows -> Nat]
    /\ granted \in [Rows -> Nat]
    /\ now \in Epoch..MaxNow
    /\ prunes \in Nat
    /\ refused \subseteq Rows

\* No row counts beyond the limit, what it counts was granted to the caller it is named
\* for, and only a housekeeping makes the one fall behind the other.
RowsInv ==
    \A row \in Rows :
      /\ count[row] <= Limit[row[1]]
      /\ count[row] <= granted[row]
      /\ granted[row] <= Limit[row[1]] * prunes + count[row]

RateInv == RateTypeOK /\ RowsInv /\ RefusedOnlyWhenSpent

-----------------------------------------------------------------------------
\* The limit of a row is a positive number.
LEMMA LimitPositive == \A row \in Rows : Limit[row[1]] \in Nat /\ Limit[row[1]] > 0
  BY RateAssumption DEF Rows

\* One more housekeeping adds one more budget.
LEMMA OneMoreBudget ==
  ASSUME NEW l \in Nat, NEW p \in Nat
  PROVE  l * (p + 1) = l * p + l /\ l * p \in Nat
  OBVIOUS

\* The row that a call takes from is the row of its caller.
LEMMA OwnRow ==
  ASSUME now \in Epoch..MaxNow,
         NEW kind \in Kinds, NEW caller \in Callers, NEW id \in Callers,
         caller \in Addresses => id = caller
  PROVE  /\ Bucket(caller, id) = caller
         /\ <<kind, caller, Window(kind)>> \in Rows
  <1>1. Bucket(caller, id) = caller
    BY RateAssumption DEF Bucket, Callers
  <1>2. Window(kind) \in Windows
    BY DEF Window, Windows
  <1>3. QED
    BY <1>1, <1>2 DEF Rows

\* What a housekeeping makes of the counters: they stay, or become zero at its price.
LEMMA PruneEffect ==
  ASSUME NEW counts \in [Rows -> Nat], prunes \in Nat, Prune(counts)
  PROVE  /\ count' \in [Rows -> Nat]
         /\ prunes' \in Nat
         /\ \/ count' = counts /\ prunes' = prunes
            \/ /\ prunes' = prunes + 1
               /\ \A row \in Rows : count'[row] = 0 \/ count'[row] = counts[row]
  <1>1. CASE count' = counts /\ prunes' = prunes
    BY <1>1
  <1>2. CASE /\ prunes' = prunes + 1
             /\ count' = [row \in Rows |-> IF Prunable(row) THEN 0 ELSE counts[row]]
    BY <1>2
  <1>3. QED
    BY <1>1, <1>2 DEF Prune

\* A housekeeping keeps what holds of the counters before it.
LEMMA PruneKeepsRows ==
  ASSUME NEW counts \in [Rows -> Nat], NEW grants \in [Rows -> Nat], prunes \in Nat,
         Prune(counts), granted' = grants,
         \A row \in Rows :
           /\ counts[row] <= Limit[row[1]]
           /\ counts[row] <= grants[row]
           /\ grants[row] <= Limit[row[1]] * prunes + counts[row]
  PROVE  RowsInv'
  <1> SUFFICES ASSUME NEW row \in Rows
               PROVE  /\ count'[row] <= Limit[row[1]]
                      /\ count'[row] <= grants[row]
                      /\ grants[row] <= Limit[row[1]] * prunes' + count'[row]
    BY DEF RowsInv
  <1> DEFINE limit == Limit[row[1]]
  <1>1. limit \in Nat /\ counts[row] \in Nat /\ grants[row] \in Nat
    BY LimitPositive
  <1>2. limit * (prunes + 1) = limit * prunes + limit /\ limit * prunes \in Nat
    BY <1>1, OneMoreBudget
  <1>3. /\ counts[row] <= limit
        /\ counts[row] <= grants[row]
        /\ grants[row] <= limit * prunes + counts[row]
    OBVIOUS
  <1>4. CASE count' = counts /\ prunes' = prunes
    BY <1>3, <1>4
  <1>5. CASE prunes' = prunes + 1 /\ (count'[row] = 0 \/ count'[row] = counts[row])
    <2> HIDE DEF limit
    <2>1. limit * prunes' = limit * prunes + limit
      BY <1>2, <1>5
    <2>2. grants[row] <= limit * prunes' + count'[row]
      BY <1>1, <1>2, <1>3, <1>5, <2>1
    <2>3. count'[row] <= limit /\ count'[row] <= grants[row]
      BY <1>1, <1>3, <1>5
    <2>4. QED
      BY <2>2, <2>3 DEF limit
  <1>6. QED
    BY <1>4, <1>5, PruneEffect

-----------------------------------------------------------------------------
\* The invariant holds at the start.
LEMMA RateStart == Init => RateInv
  <1> SUFFICES ASSUME Init PROVE RateInv
    OBVIOUS
  <1>1. RateTypeOK
    BY RateAssumption DEF Init, RateTypeOK
  <1>2. RowsInv
    <2> SUFFICES ASSUME NEW row \in Rows
                 PROVE  /\ 0 <= Limit[row[1]]
                        /\ 0 <= Limit[row[1]] * 0 + 0
      BY DEF Init, RowsInv
    <2>1. Limit[row[1]] \in Nat
      BY LimitPositive
    <2>2. Limit[row[1]] * 0 = 0
      BY <2>1
    <2>3. QED
      BY <2>1, <2>2
  <1>3. RefusedOnlyWhenSpent
    BY DEF Init, RefusedOnlyWhenSpent
  <1>4. QED
    BY <1>1, <1>2, <1>3 DEF RateInv

\* A granted take counts in the row of its caller.
LEMMA GrantKeeps ==
  ASSUME RateInv,
         NEW own \in Rows, count[own] < Limit[own[1]],
         Prune([count EXCEPT ![own] = @ + 1]),
         granted' = [granted EXCEPT ![own] = @ + 1],
         refused' = refused, now' = now
  PROVE  RateInv'
  <1> DEFINE counts == [count EXCEPT ![own] = @ + 1]
             grants == [granted EXCEPT ![own] = @ + 1]
  <1> USE DEF RateInv, RateTypeOK
  <1>1. counts \in [Rows -> Nat] /\ grants \in [Rows -> Nat]
    OBVIOUS
  <1>2. \A row \in Rows :
          /\ counts[row] = IF row = own THEN count[row] + 1 ELSE count[row]
          /\ grants[row] = IF row = own THEN granted[row] + 1 ELSE granted[row]
    OBVIOUS
  <1>3. ASSUME NEW row \in Rows
        PROVE  /\ counts[row] <= Limit[row[1]]
               /\ counts[row] <= grants[row]
               /\ grants[row] <= Limit[row[1]] * prunes + counts[row]
    <2>1. /\ count[row] \in Nat /\ granted[row] \in Nat /\ Limit[row[1]] \in Nat
          /\ Limit[row[1]] * prunes \in Nat
      BY LimitPositive, OneMoreBudget
    <2>2. /\ count[row] <= Limit[row[1]]
          /\ count[row] <= granted[row]
          /\ granted[row] <= Limit[row[1]] * prunes + count[row]
      BY DEF RowsInv
    <2> HIDE DEF counts, grants
    <2>3. CASE row = own
      <3>1. counts[row] = count[row] + 1 /\ grants[row] = granted[row] + 1
        BY <1>2, <2>3
      <3>2. QED
        BY <2>1, <2>2, <2>3, <3>1
    <2>4. CASE row # own
      <3>1. counts[row] = count[row] /\ grants[row] = granted[row]
        BY <1>2, <2>4
      <3>2. QED
        BY <2>2, <3>1
    <2>5. QED
      BY <2>3, <2>4
  <1>4. RowsInv'
    BY <1>1, <1>3, PruneKeepsRows
  <1>5. RateTypeOK'
    BY <1>1, PruneEffect
  <1>6. RefusedOnlyWhenSpent'
    <2> SUFFICES ASSUME NEW row \in refused
                 PROVE  granted'[row] >= Limit[row[1]]
      BY DEF RefusedOnlyWhenSpent
    <2>1. granted[row] >= Limit[row[1]] /\ granted[row] \in Nat /\ Limit[row[1]] \in Nat
      BY LimitPositive DEF RefusedOnlyWhenSpent
    <2>2. granted'[row] = granted[row] \/ granted'[row] = granted[row] + 1
      OBVIOUS
    <2>3. QED
      BY <2>1, <2>2
  <1>7. QED
    BY <1>4, <1>5, <1>6

\* A refused take finds the row of its caller full, by takes of that caller.
LEMMA RefusalKeeps ==
  ASSUME RateInv,
         NEW own \in Rows, ~(count[own] < Limit[own[1]]),
         Prune(count), granted' = granted,
         refused' = refused \union {own}, now' = now
  PROVE  RateInv'
  <1> USE DEF RateInv, RateTypeOK
  <1>1. RowsInv'
    BY PruneKeepsRows DEF RowsInv
  <1>2. RateTypeOK'
    BY PruneEffect
  <1>3. granted[own] >= Limit[own[1]]
    BY LimitPositive DEF RowsInv
  <1>4. RefusedOnlyWhenSpent'
    BY <1>3 DEF RefusedOnlyWhenSpent
  <1>5. QED
    BY <1>1, <1>2, <1>4

\* A take keeps the invariant.
LEMMA TakeKeeps ==
  ASSUME RateInv, NEW kind \in Kinds, NEW caller \in Callers, NEW id \in Callers,
         Take(kind, caller, id)
  PROVE  RateInv'
  <1> DEFINE own == <<kind, caller, Window(kind)>>
  <1>1. caller \in Addresses => id = caller
    BY DEF Take
  <1>2. Bucket(caller, id) = caller /\ own \in Rows
    BY <1>1, OwnRow DEF RateInv, RateTypeOK
  <1>3. own[1] = kind
    OBVIOUS
  <1>4. CASE Within(kind, own)
    <2>1. /\ Prune([count EXCEPT ![own] = @ + 1])
          /\ granted' = [granted EXCEPT ![own] = @ + 1]
          /\ refused' = refused /\ now' = now
      BY <1>2, <1>4 DEF Take
    <2>2. count[own] < Limit[own[1]]
      BY <1>3, <1>4 DEF Within
    <2> HIDE DEF own
    <2>3. QED
      BY <1>2, <2>1, <2>2, GrantKeeps
  <1>5. CASE ~Within(kind, own)
    <2>1. /\ Prune(count)
          /\ granted' = granted
          /\ refused' = refused \union {own} /\ now' = now
      BY <1>2, <1>5 DEF Take
    <2>2. ~(count[own] < Limit[own[1]])
      BY <1>3, <1>5 DEF Within
    <2> HIDE DEF own
    <2>3. QED
      BY <1>2, <2>1, <2>2, RefusalKeeps
  <1>6. QED
    BY <1>4, <1>5

\* Every step keeps the invariant.
LEMMA RateStep == RateInv /\ [Next]_vars => RateInv'
  <1> SUFFICES ASSUME RateInv, [Next]_vars PROVE RateInv'
    OBVIOUS
  <1>1. CASE \E kind \in Kinds, caller \in Callers, id \in Callers : Take(kind, caller, id)
    BY <1>1, TakeKeeps
  <1>2. CASE Tick
    <2>1. /\ count' = count /\ granted' = granted /\ prunes' = prunes
          /\ refused' = refused /\ now' \in Epoch..MaxNow
      BY <1>2, RateAssumption DEF Tick, RateInv, RateTypeOK
    <2>2. QED
      BY <2>1 DEF RateInv, RateTypeOK, RowsInv, RefusedOnlyWhenSpent
  <1>3. CASE UNCHANGED vars
    BY <1>3 DEF vars, RateInv, RateTypeOK, RowsInv, RefusedOnlyWhenSpent
  <1>4. QED
    BY <1>1, <1>2, <1>3 DEF Next

-----------------------------------------------------------------------------
\* The inductive invariant of rate_limit_take: counters below their limit, and behind what
\* was granted by whole budgets only.
THEOREM RateInvariant == Spec => []RateInv
  BY RateStart, RateStep, PTL DEF Spec

\* Nobody is refused by rate_limit_take before he was granted the budget of the window
\* himself, whatever buckets other callers ask for.
THEOREM NobodyElseCounts == Spec => []RefusedOnlyWhenSpent
  <1>1. RateInv => RefusedOnlyWhenSpent
    BY DEF RateInv
  <1>2. QED
    BY <1>1, RateInvariant, PTL

\* A window hands out its budget once for every housekeeping, and once more.
LEMMA WithinBudget == RateInv => BudgetPerHousekeeping
  <1> SUFFICES ASSUME RateInv, NEW row \in Rows
               PROVE  granted[row] <= Limit[row[1]] * (prunes + 1)
    BY DEF BudgetPerHousekeeping
  <1>1. /\ Limit[row[1]] \in Nat /\ prunes \in Nat
        /\ granted[row] \in Nat /\ count[row] \in Nat
    BY LimitPositive DEF RateInv, RateTypeOK
  <1>2. count[row] <= Limit[row[1]]
        /\ granted[row] <= Limit[row[1]] * prunes + count[row]
    BY DEF RateInv, RowsInv
  <1>3. /\ Limit[row[1]] * (prunes + 1) = Limit[row[1]] * prunes + Limit[row[1]]
        /\ Limit[row[1]] * prunes \in Nat
    BY <1>1, OneMoreBudget
  <1>4. QED
    BY <1>1, <1>2, <1>3

\* A window hands out its budget once, and once more for each housekeeping of
\* rate_limit_take.
THEOREM BudgetBounded == Spec => []BudgetPerHousekeeping
  BY WithinBudget, RateInvariant, PTL

-----------------------------------------------------------------------------
(* What the programs are made of. *)

SettingNames ==
    {"CORS_ALLOWED_ORIGINS", "SUPABASE_SERVICE_ROLE_KEY", "SUPABASE_URL",
     "INSTAPAY_MERCHANT_ADDRESS", "PAYMOB_API_KEY", "PAYMOB_IFRAME_ID", "PAYMOB_HMAC_SECRET",
     "SCHEDULER_SECRET", "NOTIFICATIONS_INTERNAL_KEY", "RESEND_API_KEY",
     "PUSH_ORDER_STATUS_INTERNAL_KEY", "ONESIGNAL_APP_ID"}

\* the kind of the limiter that stands in front of a function, if one does
Meters(fn) ==
    CASE fn = "delete-account"        -> {"acct"}
      [] fn = "instapay-initiate"     -> {"init"}
      [] fn = "instapay-submit-proof" -> {"proof"}
      [] fn = "paymob-callback"       -> {"cb"}
      [] OTHER                        -> {}

Fallbacks == {"removal_refused", "release", "failed"}

\* everything a function may do
EffectsOf(fn) ==
    Purpose(fn) \union
    CASE fn = "instapay-submit-proof"   -> {"removal_refused"}
      [] fn = "paymob-initiate"         -> {"release"}
      [] fn = "cancel-expired-orders"   -> {"sweep", "expiry", "next_expiry"}
      [] fn = "send-order-notification" -> {"failed", "sent"}
      [] OTHER                          -> {}

Plain(ops, names, codes) == [op : ops, name : names, code : codes]

\* the kinds of steps
Settings == Plain({"setting"}, SettingNames, Nat)
Sessions == Plain({"session"}, {""}, {401})
Genuines == Plain({"genuine"}, {""}, Nat)
AdminSteps == Plain({"admin"}, {""}, Nat)
NotAdmins == Plain({"not_admin"}, {""}, Nat)
Inputs == Plain({"expect", "body"}, {""}, Nat)
Asks(fn) == Plain({"metered"}, Meters(fn), {429})
Answers == Plain({"answer"}, {""}, Nat)
Tries(fn) == Plain({"try"}, EffectsOf(fn), {500})

Checks(fn) ==
    Settings \union Sessions \union Genuines \union AdminSteps \union NotAdmins
        \union Inputs \union Asks(fn)

\* what is still done when a request is refused or its answer is lost
Afters(fn) ==
    Plain({"expect"}, {""}, Nat) \union Plain({"answer"}, {""}, 400..599)
        \union Plain({"try"}, EffectsOf(fn) \intersect Fallbacks, {500})

\* after a refusal that may be the caller's fault, and after one that is not
Told(fn) == {x \in Afters(fn) : x.op = "try" => x.name \in Residue(fn)}
Undone(fn) == {x \in Afters(fn) : x.code \notin 400..499}

Dos(fn) ==
    [op : {"do"}, name : EffectsOf(fn),
     refused : Seq(Told(fn)) \union Seq(Undone(fn)), lost : Seq(Afters(fn))]

Steps(fn) == Checks(fn) \union Answers \union Tries(fn) \union Dos(fn)

\* the requests, and all steps, that may have one of some effects
DosOf(fn, names) == {x \in Dos(fn) : x.name \in names}
Deeds(fn, names) == {x \in Tries(fn) \union Dos(fn) : x.name \in names}

\* the steps after which the caller may be told that his request is wrong
Harsh(fn) ==
    {x \in Steps(fn) : IF x.op = "do" THEN x.refused \notin Seq(Undone(fn))
                                      ELSE x.code \in 400..499}

Successes == Plain({"answer"}, {""}, 200..299)

\* the effects a caller who is told no must not find
Harmful(fn) == EffectsOf(fn) \ Residue(fn)

\* no B behind an A; a G before every E; no B; a G somewhere
NeverAfter(s, A, B) == \A i, j \in 1..Len(s) : i < j /\ s[i] \in A => s[j] \notin B
Guarded(s, E, G) == \A j \in 1..Len(s) : s[j] \in E => \E i \in 1..(j - 1) : s[i] \in G
Without(s, B) == \A i \in 1..Len(s) : s[i] \notin B
Has(s, G) == \E i \in 1..Len(s) : s[i] \in G

-----------------------------------------------------------------------------
(* The inductive invariant: what is left of the program of the call, and what  *)
(* the call did so far, fit together.                                           *)

AllEffects == UNION {EffectsOf(fn) : fn \in Functions}
Todos == UNION {Seq(Steps(fn)) : fn \in Functions}
Reasons == {"none", "setting", "caller", "input", "limiter", "answer", "killed"}

CallType ==
    [fn : Functions, caller : Callers \union {NoCall.caller}, genuine : BOOLEAN, todo : Todos,
     did : SUBSET AllEffects, lost : BOOLEAN, window : Windows \union {NotAsked}, code : Nat,
     why : Reasons]

\* The call keeps its shape, and belongs to one of the functions.
CallTypeOK ==
    /\ call \in CallType
    /\ call.todo \in Seq(Steps(call.fn))
    /\ call.did \subseteq EffectsOf(call.fn)
    /\ Running => call.caller \in Callers /\ call.why = "none"

\* A call that did something but claim looks for no setting any more.
SettingsFirst ==
    LET acts == Deeds(call.fn, EffectsOf(call.fn) \ {"claim"}) IN
    /\ NeverAfter(call.todo, acts, Settings)
    /\ call.did \subseteq {"claim"} \/ Without(call.todo, Settings)

\* A call that did something harmful blames its caller no more, if no answer was lost.
HarmLast ==
    ~call.lost =>
      /\ NeverAfter(call.todo, Deeds(call.fn, Harmful(call.fn)), Harsh(call.fn))
      /\ call.did \subseteq Residue(call.fn) \/ Without(call.todo, Harsh(call.fn))

\* Metered work is done once.
WorkOnce ==
    LET work == Deeds(call.fn, MeteredEffects) IN
    /\ NeverAfter(call.todo, work, work)
    /\ call.did \intersect MeteredEffects = {} \/ Without(call.todo, work)

\* What the function is for was done, or will be before the answer says so.
SuccessLast ==
    \A e \in Purpose(call.fn) :
      e \in call.did \/ Guarded(call.todo, Successes, DosOf(call.fn, {e}))

\* the caller is known to be entitled, or nothing was done and the check is ahead
Entitled(holds, G) ==
    holds \/ (call.did = {} /\ Guarded(call.todo, Deeds(call.fn, EffectsOf(call.fn)), G))

\* Before the first effect the caller is known to be entitled to it.
AllEntitled ==
    /\ call.fn \notin Machines => Entitled(call.caller \in Users, Sessions)
    /\ call.fn = "instapay-review" => Entitled(call.caller \in Admins, AdminSteps)
    /\ call.fn = "delete-account" => Entitled(call.caller \notin Admins, NotAdmins)
    /\ call.fn \notin {"checkout", "instapay-review"} => Entitled(call.genuine, Genuines)

\* the subject is there, or the record is not and will not be before it
Follows(b, a) ==
    \/ a \in call.did
    \/ b \notin call.did /\ Guarded(call.todo, Deeds(call.fn, {b}), DosOf(call.fn, {a}))

\* Files, mails and provider orders come before the records that name them.
SubjectsFirst ==
    Follows("proof", "file") /\ Follows("sent", "mail") /\ Follows("persisted", "registered")

\* The limiter was asked, or no metered work was done and the limiter is ahead.
AskedFirst ==
    IF call.window = NotAsked
    THEN /\ call.did \intersect MeteredEffects = {}
         /\ Guarded(call.todo, Deeds(call.fn, MeteredEffects), Asks(call.fn))
    ELSE Meters(call.fn) = {Kind(call.fn)}

\* the work a running call may still do for what the limiter granted it
Due(row) ==
    IF /\ Running /\ call.window # NotAsked /\ call.did \intersect MeteredEffects = {}
       /\ row = <<Kind(call.fn), call.caller, call.window>>
    THEN 1 ELSE 0

\* The work that was done and the work that is due were granted, or let through.
WorkCovered ==
    \A row \in Rows : worked[row] + Due(row) <= granted[row] + opened

-----------------------------------------------------------------------------
(* Sequences of steps, taken apart and put together. *)

\* The rest of a sequence.
LEMMA TailOf ==
  ASSUME NEW S, NEW s \in Seq(S), s # <<>>
  PROVE  /\ Tail(s) \in Seq(S) /\ Head(s) = s[1] /\ Head(s) \in S
         /\ Len(s) \in Nat /\ Len(s) > 0 /\ Len(Tail(s)) = Len(s) - 1
         /\ \A i \in 1..Len(Tail(s)) : Tail(s)[i] = s[i + 1]
  OBVIOUS

\* Two sequences, one behind the other.
LEMMA ConcatOf ==
  ASSUME NEW S, NEW s \in Seq(S), NEW t \in Seq(S)
  PROVE  /\ s \o t \in Seq(S)
         /\ Len(s) \in Nat /\ Len(t) \in Nat /\ Len(s \o t) = Len(s) + Len(t)
         /\ \A i \in 1..Len(s) : (s \o t)[i] = s[i]
         /\ \A i \in 1..Len(t) : (s \o t)[Len(s) + i] = t[i]
         /\ \A i \in 1..Len(s \o t) : i > Len(s) =>
              i - Len(s) \in 1..Len(t) /\ (s \o t)[i] = t[i - Len(s)]
  OBVIOUS

\* An order of steps holds of the rest, and more of it once the first of them was an A.
LEMMA NeverAfterTail ==
  ASSUME NEW S, NEW s \in Seq(S), s # <<>>, NEW A, NEW B, NeverAfter(s, A, B)
  PROVE  /\ NeverAfter(Tail(s), A, B)
         /\ Head(s) \in A => Without(Tail(s), B)
<1>1. \A i \in 1..Len(Tail(s)) : i + 1 \in 1..Len(s) /\ 1 \in 1..Len(s) /\ 1 < i + 1
  BY TailOf
<1>2. NeverAfter(Tail(s), A, B)
  BY <1>1, TailOf DEF NeverAfter
<1>3. Head(s) \in A => Without(Tail(s), B)
  BY <1>1, TailOf DEF NeverAfter, Without
<1> QED BY <1>2, <1>3

\* What does not occur does not occur in the rest, nor at the head.
LEMMA WithoutTail ==
  ASSUME NEW S, NEW s \in Seq(S), s # <<>>, NEW B, Without(s, B)
  PROVE  Without(Tail(s), B) /\ Head(s) \notin B
<1>1. \A i \in 1..Len(Tail(s)) : i + 1 \in 1..Len(s)
  BY TailOf
<1> QED BY <1>1, TailOf DEF Without

\* The head is not guarded, and unless it is the guard the rest stays guarded.
LEMMA GuardedTail ==
  ASSUME NEW S, NEW s \in Seq(S), s # <<>>, NEW E, NEW G, Guarded(s, E, G)
  PROVE  /\ Head(s) \notin E
         /\ Head(s) \notin G => Guarded(Tail(s), E, G)
<1>1. Head(s) \notin E
  BY TailOf DEF Guarded
<1>2. ASSUME Head(s) \notin G, NEW j \in 1..Len(Tail(s)), Tail(s)[j] \in E
      PROVE  \E i \in 1..(j - 1) : Tail(s)[i] \in G
  <2>1. j + 1 \in 1..Len(s) /\ s[j + 1] \in E
    BY <1>2, TailOf
  <2>2. PICK i \in 1..j : s[i] \in G
    BY <2>1 DEF Guarded
  <2>3. i # 1
    BY <1>2, <2>2, TailOf
  <2>4. i - 1 \in 1..(j - 1) /\ i - 1 \in 1..Len(Tail(s)) /\ (i - 1) + 1 = i
    BY <2>3
  <2>5. Tail(s)[i - 1] = s[i]
    BY <2>4, TailOf
  <2> QED BY <2>2, <2>4, <2>5
<1> QED BY <1>1, <1>2 DEF Guarded

\* An order of steps holds of two sequences that keep it, unless one breaks it for the other.
LEMMA NeverAfterConcat ==
  ASSUME NEW S, NEW s \in Seq(S), NEW t \in Seq(S), NEW A, NEW B,
         NeverAfter(s, A, B), NeverAfter(t, A, B), Without(s, A) \/ Without(t, B)
  PROVE  NeverAfter(s \o t, A, B)
<1> SUFFICES ASSUME NEW i \in 1..Len(s \o t), NEW j \in 1..Len(s \o t), i < j,
                    (s \o t)[i] \in A
             PROVE  (s \o t)[j] \notin B
  BY DEF NeverAfter
<1>1. CASE j <= Len(s)
  BY <1>1, ConcatOf DEF NeverAfter
<1>2. CASE i > Len(s)
  <2>1. /\ i - Len(s) \in 1..Len(t) /\ (s \o t)[i] = t[i - Len(s)]
        /\ j - Len(s) \in 1..Len(t) /\ (s \o t)[j] = t[j - Len(s)]
        /\ i - Len(s) < j - Len(s)
    BY <1>2, ConcatOf
  <2> QED BY <2>1 DEF NeverAfter
<1>3. CASE i <= Len(s) /\ j > Len(s)
  BY <1>3, ConcatOf DEF Without
<1> QED BY <1>1, <1>2, <1>3, ConcatOf

\* What the first sequence holds guards the second.
LEMMA GuardedConcat ==
  ASSUME NEW S, NEW s \in Seq(S), NEW t \in Seq(S), NEW E, NEW G,
         Without(s, E), Has(s, G) \/ Guarded(t, E, G)
  PROVE  Guarded(s \o t, E, G)
<1> SUFFICES ASSUME NEW j \in 1..Len(s \o t), (s \o t)[j] \in E
             PROVE  \E i \in 1..(j - 1) : (s \o t)[i] \in G
  BY DEF Guarded
<1>1. j > Len(s)
  BY ConcatOf DEF Without
<1>2. CASE Has(s, G)
  <2>1. PICK i \in 1..Len(s) : s[i] \in G
    BY <1>2 DEF Has
  <2>2. i \in 1..(j - 1)
    BY <1>1, ConcatOf
  <2> QED BY <2>1, <2>2, ConcatOf
<1>3. CASE Guarded(t, E, G)
  <2>1. j - Len(s) \in 1..Len(t) /\ t[j - Len(s)] \in E
    BY <1>1, ConcatOf
  <2>2. PICK i \in 1..(j - Len(s) - 1) : t[i] \in G
    BY <1>3, <2>1 DEF Guarded
  <2>3. Len(s) + i \in 1..(j - 1) /\ i \in 1..Len(t)
    BY <2>1, ConcatOf
  <2> QED BY <2>2, <2>3, ConcatOf
<1> QED BY <1>2, <1>3

\* What one of two sequences holds both hold together.
LEMMA HasConcat ==
  ASSUME NEW S, NEW s \in Seq(S), NEW t \in Seq(S), NEW G, Has(s, G) \/ Has(t, G)
  PROVE  Has(s \o t, G)
<1>1. CASE Has(s, G)
  BY <1>1, ConcatOf DEF Has
<1>2. CASE Has(t, G)
  <2>1. PICK i \in 1..Len(t) : t[i] \in G
    BY <1>2 DEF Has
  <2>2. Len(s) + i \in 1..Len(s \o t)
    BY ConcatOf
  <2> QED BY <2>1, <2>2, ConcatOf DEF Has
<1> QED BY <1>1, <1>2

\* Nothing to guard.
LEMMA NothingGuarded ==
  ASSUME NEW s, NEW E, NEW G, Without(s, E)
  PROVE  Guarded(s, E, G)
  BY DEF Without, Guarded

\* Nothing to come too late.
LEMMA NothingBefore ==
  ASSUME NEW S, NEW s \in Seq(S), NEW A, NEW B, Without(s, A) \/ Without(s, B)
  PROVE  NeverAfter(s, A, B)
  BY DEF Without, NeverAfter

-----------------------------------------------------------------------------
(* What each kind of step is. *)

\* Each check is of its kind.
LEMMA CheckKinds ==
  ASSUME NEW fn, NEW code \in Nat
  PROVE  /\ Session \in Sessions
         /\ Genuine(code) \in Genuines /\ Admin(code) \in AdminSteps /\ NotAdmin(code) \in NotAdmins
         /\ Expect(code) \in Inputs /\ Body(code) \in Inputs
         /\ \A name \in SettingNames : Setting(name, code) \in Settings
         /\ \A name \in Meters(fn) : Metered(name) \in Asks(fn)
<1>1. Session \in Sessions
  BY DEF Session, Sessions, Plain, Check
<1>2. Genuine(code) \in Genuines /\ Admin(code) \in AdminSteps /\ NotAdmin(code) \in NotAdmins
  BY DEF Genuine, Genuines, Admin, AdminSteps, NotAdmin, NotAdmins, Plain, Check
<1>3. Expect(code) \in Inputs /\ Body(code) \in Inputs
  BY DEF Expect, Body, Inputs, Plain, Check
<1>4. \A name \in SettingNames : Setting(name, code) \in Settings
  BY DEF Setting, Settings, Plain, Check
<1>5. \A name \in Meters(fn) : Metered(name) \in Asks(fn)
  BY DEF Metered, Asks, Plain, Check
<1> QED BY <1>1, <1>2, <1>3, <1>4, <1>5

\* What is left to do is of its kind.
LEMMA AfterKinds ==
  ASSUME NEW fn, NEW code \in Nat
  PROVE  /\ Expect(code) \in Told(fn)
         /\ code \in 400..599 => Answer(code) \in Told(fn)
         /\ code \in 500..599 => Answer(code) \in Undone(fn)
         /\ \A name \in EffectsOf(fn) \intersect Fallbacks :
              /\ Try(name) \in Undone(fn)
              /\ name \in Residue(fn) => Try(name) \in Told(fn)
<1>1. Expect(code) \in Told(fn)
  BY ZenonT(60) DEF Expect, Told, Afters, Plain, Check
<1>2. code \in 400..599 => Answer(code) \in Told(fn)
  BY ZenonT(60) DEF Answer, Told, Afters, Plain, Check
<1>3. code \in 500..599 => Answer(code) \in Undone(fn)
  <2>1. code \in 500..599 => code \in 400..599 /\ code \notin 400..499
    OBVIOUS
  <2>2. code \in 400..599 => Answer(code) \in Afters(fn)
    BY <1>2 DEF Told
  <2>3. Answer(code).code = code
    BY DEF Answer, Check
  <2> QED BY <2>1, <2>2, <2>3 DEF Undone
<1>4. \A name \in EffectsOf(fn) \intersect Fallbacks :
        /\ Try(name) \in Undone(fn)
        /\ name \in Residue(fn) => Try(name) \in Told(fn)
  BY DEF Try, Undone, Told, Afters, Plain, Check
<1> QED BY <1>1, <1>2, <1>3, <1>4

\* A request is one, when what is left to do after it is.
LEMMA DoOrKinds ==
  ASSUME NEW fn, NEW name \in EffectsOf(fn),
         NEW no \in Seq(Told(fn)) \union Seq(Undone(fn)), NEW gone \in Seq(Afters(fn))
  PROVE  /\ DoOr(name, no, gone) \in Dos(fn)
         /\ DoOr(name, no, gone).name = name
         /\ DoOr(name, no, gone).refused = no
  BY DEF DoOr, Dos

\* A request that only answers when it fails.
LEMMA DoKinds ==
  ASSUME NEW fn, NEW name \in EffectsOf(fn), NEW code \in 400..599
  PROVE  /\ Do(name, code) \in Dos(fn) /\ Do(name, code).name = name
         /\ code \in 500..599 => Do(name, code).refused \in Seq(Undone(fn))
<1> DEFINE s == <<Answer(code)>>
<1>1. code \in Nat
  OBVIOUS
<1>2. Answer(code) \in Told(fn) /\ Answer(code) \in Afters(fn)
  BY <1>1, AfterKinds DEF Told
<1>3. s \in Seq(Told(fn)) \union Seq(Undone(fn)) /\ s \in Seq(Afters(fn))
  BY <1>2
<1>4. Do(name, code) = DoOr(name, s, s)
  BY DEF Do
<1>5. code \in 500..599 => s \in Seq(Undone(fn))
  BY <1>1, AfterKinds
<1> HIDE DEF s
<1> QED BY <1>3, <1>4, <1>5, DoOrKinds

\* A best effort is one.
LEMMA TryKinds ==
  ASSUME NEW fn, NEW name \in EffectsOf(fn)
  PROVE  Try(name) \in Tries(fn) /\ Try(name).name = name
  BY DEF Try, Tries, Plain, Check

\* An answer is one.
LEMMA AnswerKinds ==
  ASSUME NEW code \in Nat
  PROVE  Answer(code) \in Answers /\ Answer(code).code = code
  BY DEF Answer, Answers, Plain, Check

\* The kinds are apart.
LEMMA KindsApart ==
  ASSUME NEW fn
  PROVE  /\ \A x \in Settings : x.op = "setting"
         /\ \A x \in Sessions : x.op = "session" /\ x.code = 401
         /\ \A x \in Genuines : x.op = "genuine"
         /\ \A x \in AdminSteps : x.op = "admin"
         /\ \A x \in NotAdmins : x.op = "not_admin"
         /\ \A x \in Inputs : x.op \in {"expect", "body"}
         /\ \A x \in Asks(fn) : x.op = "metered" /\ x.name \in Meters(fn) /\ x.code = 429
         /\ \A x \in Answers : x.op = "answer"
         /\ \A x \in Tries(fn) : x.op = "try" /\ x.name \in EffectsOf(fn) /\ x.code = 500
         /\ \A x \in Dos(fn) : /\ x.op = "do" /\ x.name \in EffectsOf(fn)
                              /\ x.refused \in Seq(Told(fn)) \union Seq(Undone(fn))
                              /\ x.lost \in Seq(Afters(fn))
  BY ZenonT(60) DEF Settings, Sessions, Genuines, AdminSteps, NotAdmins, Inputs, Asks, Answers, Tries, Dos,
         Plain

-----------------------------------------------------------------------------
(* The order of a program's steps. *)

\* records that name a subject, and what must be done first
Subjects == {<<"proof", "file">>, <<"sent", "mail">>, <<"persisted", "registered">>}

Ordered(fn, s) ==
    /\ s \in Seq(Steps(fn))
    /\ NeverAfter(s, Deeds(fn, EffectsOf(fn) \ {"claim"}), Settings)
    /\ NeverAfter(s, Deeds(fn, Harmful(fn)), Harsh(fn))
    /\ NeverAfter(s, Deeds(fn, MeteredEffects), Deeds(fn, MeteredEffects))
    /\ \A e \in Purpose(fn) : Guarded(s, Successes, DosOf(fn, {e}))
    /\ \A p \in Subjects : Guarded(s, Deeds(fn, {p[1]}), DosOf(fn, {p[2]}))

\* Which steps change something, and which answers say so.
LEMMA DeedsAre ==
  ASSUME NEW fn
  PROVE  /\ \A names : \A x \in Tries(fn) \union Dos(fn) : x \in Deeds(fn, names) <=> x.name \in names
         /\ \A names : \A x \in Dos(fn) : x \in DosOf(fn, names) <=> x.name \in names
         /\ \A names : \A x \in Checks(fn) \union Answers : x \notin Deeds(fn, names)
         /\ \A x \in Tries(fn) \union Dos(fn) : x \notin Settings /\ x \notin Successes
         /\ \A x \in Checks(fn) : x \notin Successes
         /\ \A x \in Answers : x \notin Settings
         /\ Inputs \subseteq Checks(fn) /\ Inputs \intersect Settings = {}
<1>1. \A names : \A x \in Tries(fn) \union Dos(fn) : x \in Deeds(fn, names) <=> x.name \in names
  BY DEF Deeds
<1>2. \A names : \A x \in Dos(fn) : x \in DosOf(fn, names) <=> x.name \in names
  BY DEF DosOf
<1>3. \A x \in Checks(fn) :
        x.op \in {"setting", "session", "genuine", "admin", "not_admin", "expect", "body", "metered"}
  BY KindsApart DEF Checks
<1>4. \A x \in Tries(fn) \union Dos(fn) : x.op \in {"try", "do"}
  BY KindsApart
<1>5. /\ \A x \in Answers : x.op = "answer"
      /\ \A x \in Settings : x.op = "setting"
      /\ \A x \in Inputs : x.op \in {"expect", "body"}
  BY KindsApart
<1>6. \A x \in Successes : x.op = "answer"
  BY DEF Successes, Plain
<1>7. Inputs \subseteq Checks(fn)
  BY DEF Checks
<1>8. \A names : \A x \in Deeds(fn, names) : x.op \in {"try", "do"}
  BY <1>4 DEF Deeds
<1> QED BY <1>1, <1>2, <1>3, <1>4, <1>5, <1>6, <1>7, <1>8

\* Checks in front change nothing of the order.
LEMMA ChecksInFront ==
  ASSUME NEW fn, NEW c \in Seq(Checks(fn)), NEW s, Ordered(fn, s)
  PROVE  Ordered(fn, c \o s)
<1> DEFINE S == Steps(fn)
<1>1. c \in Seq(S) /\ s \in Seq(S)
  <2>1. Checks(fn) \subseteq S
    BY DEF Steps
  <2>2. c \in Seq(S)
    BY <2>1
  <2> QED BY <2>2 DEF Ordered
<1>2. \A names : Without(c, Deeds(fn, names))
  BY DeedsAre DEF Without
<1>3. Without(c, Successes)
  BY DeedsAre DEF Without
<1> HIDE DEF S
<1>4. c \o s \in Seq(S)
  BY <1>1, ConcatOf
<1>5. ASSUME NEW names, NEW B, NeverAfter(s, Deeds(fn, names), B)
      PROVE  NeverAfter(c \o s, Deeds(fn, names), B)
  <2>1. NeverAfter(c, Deeds(fn, names), B)
    BY <1>1, <1>2, NothingBefore
  <2> QED BY <1>1, <1>2, <1>5, <2>1, NeverAfterConcat
<1>6. \A e \in Purpose(fn) : Guarded(c \o s, Successes, DosOf(fn, {e}))
  BY <1>1, <1>3, GuardedConcat DEF Ordered
<1>7. \A p \in Subjects : Guarded(c \o s, Deeds(fn, {p[1]}), DosOf(fn, {p[2]}))
  BY <1>1, <1>2, GuardedConcat DEF Ordered
<1> QED BY <1>4, <1>5, <1>6, <1>7 DEF Ordered, S

\* A check that stands among them guards whatever follows.
LEMMA CheckGuards ==
  ASSUME NEW fn, NEW c \in Seq(Checks(fn)), NEW s \in Seq(Steps(fn)), NEW names, NEW G,
         Has(c, G)
  PROVE  Guarded(c \o s, Deeds(fn, names), G)
<1>1. Checks(fn) \subseteq Steps(fn)
  BY DEF Steps
<1>2. c \in Seq(Steps(fn))
  BY <1>1
<1>3. Without(c, Deeds(fn, names))
  BY DeedsAre DEF Without
<1> QED BY <1>2, <1>3, GuardedConcat

\* Which steps may tell the caller that his request is wrong.
LEMMA HarshAre ==
  ASSUME NEW fn
  PROVE  /\ \A x \in Checks(fn) : x \in Harsh(fn) => x.code \in 400..499
         /\ \A x \in Answers : x \in Harsh(fn) => x.code \in 400..499
         /\ \A x \in Tries(fn) : x \notin Harsh(fn)
<1>1. \A x \in Checks(fn) \union Answers \union Tries(fn) : x.op # "do"
  BY KindsApart DEF Checks
<1>2. \A x \in Tries(fn) : x.code = 500
  BY KindsApart
<1>3. \A x \in Tries(fn) : x \in Harsh(fn) => x.code \in 400..499
  BY <1>1 DEF Harsh
<1>4. 500 \notin 400..499
  OBVIOUS
<1>5. \A x \in Tries(fn) : x \notin Harsh(fn)
  BY <1>2, <1>3, <1>4
<1>6. /\ \A x \in Checks(fn) : x \in Harsh(fn) => x.code \in 400..499
      /\ \A x \in Answers : x \in Harsh(fn) => x.code \in 400..499
  BY <1>1 DEF Harsh
<1> QED BY <1>5, <1>6

\* A request may, unless no refusal of it is told to the caller as his fault.
LEMMA HarshDo ==
  ASSUME NEW fn, NEW x \in Dos(fn), x.refused \in Seq(Undone(fn))
  PROVE  x \notin Harsh(fn)
<1>1. x.op = "do"
  BY KindsApart
<1> QED BY <1>1 DEF Harsh

\* Answers that say the request is done.
LEMMA Success ==
  ASSUME NEW fn, NEW code \in 200..299
  PROVE  /\ Answer(code) \in Answers /\ Answer(code) \in Successes /\ Answer(code) \in Steps(fn)
         /\ Answer(code) \notin Harsh(fn)
<1>1. Answer(code) \in Answers /\ Answer(code).code = code
  BY AnswerKinds
<1>2. Answer(code) \in Successes
  BY DEF Answer, Check, Successes, Plain
<1>3. Answer(code).code \notin 400..499
  BY <1>1
<1>4. Answer(code) \notin Harsh(fn)
  BY <1>1, <1>3, HarshAre
<1> QED BY <1>1, <1>2, <1>4 DEF Steps

\* One request, and its answer.
LEMMA OneRequest ==
  ASSUME NEW fn, NEW x \in Dos(fn), Purpose(fn) = {x.name},
         x.name \notin {"proof", "sent", "persisted"}
  PROVE  Ordered(fn, <<x, Answer(200)>>)
<1> DEFINE y == Answer(200)
<1>1. y \in Answers /\ y \in Successes /\ y \in Steps(fn) /\ y \notin Harsh(fn)
  BY Success
<1> HIDE DEF y
<1>2. x \in Steps(fn)
  BY DEF Steps
<1>3. /\ \A names : y \notin Deeds(fn, names)
      /\ x \in DosOf(fn, {x.name}) /\ x \notin Successes /\ y \notin Settings
      /\ \A p \in Subjects : x \notin Deeds(fn, {p[1]})
  BY <1>1, DeedsAre DEF Subjects
<1>4. /\ <<x, y>> \in Seq(Steps(fn))
      /\ NeverAfter(<<x, y>>, Deeds(fn, EffectsOf(fn) \ {"claim"}), Settings)
  BY <1>1, <1>2, <1>3 DEF NeverAfter
<1>5. /\ NeverAfter(<<x, y>>, Deeds(fn, Harmful(fn)), Harsh(fn))
      /\ NeverAfter(<<x, y>>, Deeds(fn, MeteredEffects), Deeds(fn, MeteredEffects))
  BY <1>1, <1>3 DEF NeverAfter
<1>6. Guarded(<<x, y>>, Successes, DosOf(fn, {x.name}))
  BY <1>3 DEF Guarded
<1>7. \A p \in Subjects : Guarded(<<x, y>>, Deeds(fn, {p[1]}), DosOf(fn, {p[2]}))
  BY <1>3 DEF Guarded
<1> QED BY <1>4, <1>5, <1>6, <1>7 DEF Ordered, y

\* What the InstaPay function does: the method, and what it reads back.
LEMMA TransferOrdered ==
  Ordered("instapay-initiate",
          <<Do("method", 400), Expect(404), Expect(400), Expect(404), Expect(500), Answer(200)>>)
<1> DEFINE fn == "instapay-initiate"
           x == Do("method", 400)
           a == Expect(404)
           b == Expect(400)
           c == Expect(500)
           y == Answer(200)
<1>1. EffectsOf(fn) = {"method"} /\ Purpose(fn) = {"method"} /\ Residue(fn) = {"method"}
  BY DEF EffectsOf, Purpose, Residue
<1>2. x \in Dos(fn) /\ x.name = "method"
  BY <1>1, DoKinds
<1>3. a \in Inputs /\ b \in Inputs /\ c \in Inputs
  BY CheckKinds
<1>4. y \in Answers /\ y \in Successes /\ y \in Steps(fn)
  BY Success
<1> HIDE DEF fn, x, a, b, c, y
<1>5. x \in Steps(fn) /\ a \in Steps(fn) /\ b \in Steps(fn) /\ c \in Steps(fn)
  BY <1>2, <1>3, DeedsAre DEF Steps
<1>6. /\ \A z \in {a, b, c} :
           z \notin Settings /\ z \notin Successes /\ (\A names : z \notin Deeds(fn, names))
      /\ \A names : y \notin Deeds(fn, names)
      /\ y \notin Settings /\ x \notin Successes /\ x \in DosOf(fn, {"method"})
      /\ x \notin Deeds(fn, Harmful(fn)) /\ \A p \in Subjects : x \notin Deeds(fn, {p[1]})
  BY <1>1, <1>2, <1>3, <1>4, DeedsAre DEF Harmful, Subjects
<1> DEFINE s == <<x, a, b, a, c, y>>
<1>7. /\ s \in Seq(Steps(fn))
      /\ NeverAfter(s, Deeds(fn, EffectsOf(fn) \ {"claim"}), Settings)
  BY <1>4, <1>5, <1>6 DEF NeverAfter
<1>8. /\ NeverAfter(s, Deeds(fn, Harmful(fn)), Harsh(fn))
      /\ NeverAfter(s, Deeds(fn, MeteredEffects), Deeds(fn, MeteredEffects))
  BY <1>6 DEF NeverAfter
<1>9. \A e \in Purpose(fn) : Guarded(s, Successes, DosOf(fn, {e}))
  BY <1>1, <1>6 DEF Guarded
<1>10. \A p \in Subjects : Guarded(s, Deeds(fn, {p[1]}), DosOf(fn, {p[2]}))
  BY <1>6 DEF Guarded
<1> QED BY <1>7, <1>8, <1>9, <1>10 DEF Ordered, fn, x, a, b, c, y

\* What the upload of a proof does: the file, and only then the row that names it.
LEMMA ProofOrdered == Ordered("instapay-submit-proof", ProofWrites)
<1> DEFINE fn == "instapay-submit-proof"
           x == Do("file", 500)
           no == <<Try(Removal), Expect(409), Answer(500)>>
           gone == <<Try(Removal), Answer(500)>>
           y == DoOr("proof", no, gone)
           z == Answer(201)
<1>1. /\ EffectsOf(fn) = {"file", "proof", "removal_refused"} /\ Purpose(fn) = {"file", "proof"}
      /\ Residue(fn) = {"file", "removal_refused"} /\ Removal = "removal_refused"
  BY DEF EffectsOf, Purpose, Residue, Removal
<1>2. x \in Dos(fn) /\ x.name = "file"
  <2>1. "file" \in EffectsOf(fn)
    BY <1>1
  <2> QED BY <2>1, DoKinds
<1>3. y \in Dos(fn) /\ y.name = "proof"
  <2>1. Try(Removal) \in Told(fn) /\ Expect(409) \in Told(fn) /\ Answer(500) \in Told(fn)
    <3>1. Removal \in EffectsOf(fn) \intersect Fallbacks /\ Removal \in Residue(fn)
      BY <1>1 DEF Fallbacks
    <3> QED BY <3>1, AfterKinds
  <2>2. no \in Seq(Told(fn)) /\ gone \in Seq(Told(fn))
    BY <2>1
  <2>3. Told(fn) \subseteq Afters(fn)
    BY DEF Told
  <2>4. gone \in Seq(Afters(fn))
    BY <2>1, <2>3
  <2> HIDE DEF no, gone
  <2>5. no \in Seq(Told(fn)) \union Seq(Undone(fn)) /\ "proof" \in EffectsOf(fn)
    BY <1>1, <2>2
  <2> QED BY <2>4, <2>5, DoOrKinds
<1>4. z \in Answers /\ z \in Successes /\ z \in Steps(fn) /\ z \notin Harsh(fn)
  BY Success
<1> HIDE DEF fn, x, y, z
<1>5. x \in Steps(fn) /\ y \in Steps(fn)
  BY <1>2, <1>3 DEF Steps
<1>6. /\ \A names : z \notin Deeds(fn, names)
      /\ z \notin Settings /\ x \notin Successes /\ y \notin Successes
      /\ x \notin Settings /\ y \notin Settings
      /\ x \in DosOf(fn, {"file"}) /\ y \in DosOf(fn, {"proof"})
      /\ x \notin Deeds(fn, Harmful(fn)) /\ y \notin Deeds(fn, MeteredEffects)
      /\ \A p \in Subjects : /\ x \notin Deeds(fn, {p[1]})
                             /\ y \in Deeds(fn, {p[1]}) => p[2] = "file"
  BY <1>1, <1>2, <1>3, <1>4, DeedsAre DEF Harmful, Subjects, MeteredEffects
<1> DEFINE s == <<x, y, z>>
<1>7. /\ s \in Seq(Steps(fn))
      /\ NeverAfter(s, Deeds(fn, EffectsOf(fn) \ {"claim"}), Settings)
  BY <1>4, <1>5, <1>6 DEF NeverAfter
<1>8. /\ NeverAfter(s, Deeds(fn, Harmful(fn)), Harsh(fn))
      /\ NeverAfter(s, Deeds(fn, MeteredEffects), Deeds(fn, MeteredEffects))
  BY <1>4, <1>6 DEF NeverAfter
<1>9. \A e \in Purpose(fn) : Guarded(s, Successes, DosOf(fn, {e}))
  BY <1>1, <1>6, SMTT(30) DEF Guarded
<1>10. \A p \in Subjects : Guarded(s, Deeds(fn, {p[1]}), DosOf(fn, {p[2]}))
  BY <1>6 DEF Guarded
<1>11. ProofWrites = s
  BY DEF ProofWrites, s, x, y, z
<1> QED BY <1>7, <1>8, <1>9, <1>10, <1>11 DEF Ordered, fn

\* What the worker does: every part of it on its own.
LEMMA WorkerOrdered ==
  Ordered("cancel-expired-orders",
          <<Try("sweep"), Expect(500), Expect(200), Try("expiry"), Try("next_expiry"), Answer(200)>>)
<1> DEFINE fn == "cancel-expired-orders"
           x == Try("sweep")
           a == Expect(500)
           b == Expect(200)
           u == Try("expiry")
           v == Try("next_expiry")
           y == Answer(200)
<1>1. EffectsOf(fn) = {"sweep", "expiry", "next_expiry"} /\ Purpose(fn) = {}
  BY DEF EffectsOf, Purpose
<1>2. /\ x \in Tries(fn) /\ x.name = "sweep" /\ u \in Tries(fn) /\ u.name = "expiry"
      /\ v \in Tries(fn) /\ v.name = "next_expiry"
  BY <1>1, TryKinds
<1>3. a \in Inputs /\ b \in Inputs /\ a.code = 500 /\ b.code = 200
  <2>1. a \in Inputs /\ b \in Inputs
    BY CheckKinds
  <2> QED BY <2>1 DEF Expect, Check
<1>4. y \in Answers /\ y \in Successes /\ y \in Steps(fn) /\ y \notin Harsh(fn)
  BY Success
<1> HIDE DEF fn, x, a, b, u, v, y
<1>5. /\ x \in Steps(fn) /\ a \in Steps(fn) /\ b \in Steps(fn) /\ u \in Steps(fn) /\ v \in Steps(fn)
  BY <1>2, <1>3, DeedsAre DEF Steps
<1>6. /\ \A z \in {a, b, y} : z \notin Settings /\ (\A names : z \notin Deeds(fn, names))
      /\ \A z \in {x, u, v} : /\ z \notin Settings /\ z \notin Harsh(fn)
                              /\ z \notin Deeds(fn, MeteredEffects)
                              /\ \A p \in Subjects : z \notin Deeds(fn, {p[1]})
  BY <1>1, <1>2, <1>3, <1>4, DeedsAre, HarshAre DEF Subjects, MeteredEffects
<1>7. a \notin Harsh(fn) /\ b \notin Harsh(fn)
  <2>1. 500 \notin 400..499 /\ 200 \notin 400..499
    OBVIOUS
  <2> QED BY <1>3, <2>1, DeedsAre, HarshAre
<1> DEFINE s == <<x, a, b, u, v, y>>
<1>8. /\ s \in Seq(Steps(fn))
      /\ NeverAfter(s, Deeds(fn, EffectsOf(fn) \ {"claim"}), Settings)
  BY <1>4, <1>5, <1>6 DEF NeverAfter
<1>9. /\ NeverAfter(s, Deeds(fn, Harmful(fn)), Harsh(fn))
      /\ NeverAfter(s, Deeds(fn, MeteredEffects), Deeds(fn, MeteredEffects))
  BY <1>4, <1>6, <1>7 DEF NeverAfter
<1>10. \A p \in Subjects : Guarded(s, Deeds(fn, {p[1]}), DosOf(fn, {p[2]}))
  BY <1>6 DEF Guarded
<1> QED BY <1>1, <1>8, <1>9, <1>10 DEF Ordered, fn, x, a, b, u, v, y

\* What a notification does: the row, the mail, and what became of it.
LEMMA SendsOrdered == Ordered("send-order-notification", NotificationSends)
<1> DEFINE fn == "send-order-notification"
           failed == <<Try("failed"), Answer(502)>>
           x == Do("row", 500)
           y == DoOr("mail", failed, failed)
           u == Try("sent")
           z == Answer(200)
<1>1. EffectsOf(fn) = {"row", "mail", "failed", "sent"} /\ Purpose(fn) = {"row", "mail"}
  BY DEF EffectsOf, Purpose
<1>2. x \in Dos(fn) /\ x.name = "row"
  <2>1. "row" \in EffectsOf(fn)
    BY <1>1
  <2> QED BY <2>1, DoKinds
<1>3. y \in Dos(fn) /\ y.name = "mail" /\ y.refused \in Seq(Undone(fn))
  <2>1. Try("failed") \in Undone(fn) /\ Answer(502) \in Undone(fn)
    <3>1. "failed" \in EffectsOf(fn) \intersect Fallbacks
      BY <1>1 DEF Fallbacks
    <3> QED BY <3>1, AfterKinds
  <2>2. failed \in Seq(Undone(fn))
    BY <2>1
  <2>3. Undone(fn) \subseteq Afters(fn)
    BY DEF Undone
  <2>4. failed \in Seq(Afters(fn))
    BY <2>1, <2>3
  <2> HIDE DEF failed
  <2>5. failed \in Seq(Told(fn)) \union Seq(Undone(fn)) /\ "mail" \in EffectsOf(fn)
    BY <1>1, <2>2
  <2> QED BY <2>2, <2>4, <2>5, DoOrKinds
<1>4. z \in Answers /\ z \in Successes /\ z \in Steps(fn) /\ z \notin Harsh(fn)
  BY Success
<1>5. u \in Tries(fn) /\ u.name = "sent"
  BY <1>1, TryKinds
<1> HIDE DEF fn, x, y, z, u
<1>6. x \in Steps(fn) /\ y \in Steps(fn) /\ u \in Steps(fn) /\ y \notin Harsh(fn) /\ u \notin Harsh(fn)
  BY <1>2, <1>3, <1>5, HarshDo, HarshAre DEF Steps
<1>7. /\ \A names : z \notin Deeds(fn, names)
      /\ \A w \in {x, y, u} : w \notin Settings /\ w \notin Successes /\ w \notin Deeds(fn, MeteredEffects)
      /\ z \notin Settings
      /\ x \in DosOf(fn, {"row"}) /\ y \in DosOf(fn, {"mail"})
      /\ \A p \in Subjects : /\ x \notin Deeds(fn, {p[1]}) /\ y \notin Deeds(fn, {p[1]})
                             /\ u \in Deeds(fn, {p[1]}) => p[2] = "mail"
  BY <1>2, <1>3, <1>4, <1>5, DeedsAre DEF Subjects, MeteredEffects
<1> DEFINE s == <<x, y, u, z>>
<1>8. /\ s \in Seq(Steps(fn))
      /\ NeverAfter(s, Deeds(fn, EffectsOf(fn) \ {"claim"}), Settings)
  BY <1>4, <1>6, <1>7 DEF NeverAfter
<1>9. /\ NeverAfter(s, Deeds(fn, Harmful(fn)), Harsh(fn))
      /\ NeverAfter(s, Deeds(fn, MeteredEffects), Deeds(fn, MeteredEffects))
  BY <1>4, <1>6, <1>7 DEF NeverAfter
<1>10. \A e \in Purpose(fn) : Guarded(s, Successes, DosOf(fn, {e}))
  BY <1>1, <1>7 DEF Guarded
<1>11. \A p \in Subjects : Guarded(s, Deeds(fn, {p[1]}), DosOf(fn, {p[2]}))
  BY <1>7 DEF Guarded
<1>12. NotificationSends = s
  BY DEF NotificationSends, s, x, y, z, u
<1> QED BY <1>8, <1>9, <1>10, <1>11, <1>12 DEF Ordered, fn

\* What paymob-initiate does: the claim, the key, the three calls and their records.
LEMMA ProviderOrdered == Ordered("paymob-initiate", InitiateClaim \o InitiateProvider)
<1> DEFINE fn == "paymob-initiate"
           no == InitiateUnclaimed
           gone == <<Answer(500)>>
           release == <<Try("release"), Answer(502)>>
           c == DoOr("claim", no, gone)
           k == ServiceRole(503)
           x == DoOr("submitted", release, release)
           r == Do("registered", 502)
           p == Do("persisted", 502)
           a == Expect(502)
           y == Answer(200)
<1>1. /\ EffectsOf(fn) = {"claim", "submitted", "registered", "persisted", "release"}
      /\ Purpose(fn) = {"claim", "submitted", "registered", "persisted"}
  BY DEF EffectsOf, Purpose
<1>2. c \in Dos(fn) /\ c.name = "claim"
  <2>1. /\ Expect(200) \in Told(fn) /\ Expect(502) \in Told(fn) /\ Expect(409) \in Told(fn)
        /\ Expect(400) \in Told(fn) /\ Answer(500) \in Told(fn)
    BY AfterKinds
  <2>2. no \in Seq(Told(fn)) /\ gone \in Seq(Told(fn))
    BY <2>1 DEF InitiateUnclaimed
  <2>3. gone \in Seq(Afters(fn))
    BY <2>1 DEF Told
  <2> HIDE DEF no, gone
  <2>4. no \in Seq(Told(fn)) \union Seq(Undone(fn)) /\ "claim" \in EffectsOf(fn)
    BY <1>1, <2>2
  <2> QED BY <2>3, <2>4, DoOrKinds
<1>3. x \in Dos(fn) /\ x.name = "submitted" /\ x.refused \in Seq(Undone(fn))
  <2>1. Try("release") \in Undone(fn) /\ Answer(502) \in Undone(fn)
    <3>1. "release" \in EffectsOf(fn) \intersect Fallbacks
      BY <1>1 DEF Fallbacks
    <3> QED BY <3>1, AfterKinds
  <2>2. release \in Seq(Undone(fn))
    BY <2>1
  <2>3. release \in Seq(Afters(fn))
    BY <2>1 DEF Undone
  <2> HIDE DEF release
  <2>4. release \in Seq(Told(fn)) \union Seq(Undone(fn)) /\ "submitted" \in EffectsOf(fn)
    BY <1>1, <2>2
  <2> QED BY <2>2, <2>3, <2>4, DoOrKinds
<1>4. /\ r \in Dos(fn) /\ r.name = "registered" /\ r.refused \in Seq(Undone(fn))
      /\ p \in Dos(fn) /\ p.name = "persisted" /\ p.refused \in Seq(Undone(fn))
  <2>1. "registered" \in EffectsOf(fn) /\ "persisted" \in EffectsOf(fn)
    BY <1>1
  <2> QED BY <2>1, DoKinds
<1>5. k \in Settings /\ a \in Inputs /\ k.code = 503 /\ a.code = 502
  <2>1. k \in Settings /\ a \in Inputs
    BY CheckKinds DEF ServiceRole, SettingNames
  <2> QED BY <2>1 DEF ServiceRole, Setting, Expect, Check
<1>6. y \in Answers /\ y \in Successes /\ y \in Steps(fn) /\ y \notin Harsh(fn)
  BY Success
<1> HIDE DEF fn, c, k, x, r, p, a, y
<1>7. Settings \subseteq Checks(fn)
  BY DEF Checks
<1>8. /\ c \in Steps(fn) /\ k \in Steps(fn) /\ x \in Steps(fn) /\ r \in Steps(fn)
      /\ p \in Steps(fn) /\ a \in Steps(fn)
  BY <1>2, <1>3, <1>4, <1>5, <1>7, DeedsAre DEF Steps
<1>9. k \notin Harsh(fn) /\ a \notin Harsh(fn)
  <2>1. 503 \notin 400..499 /\ 502 \notin 400..499
    OBVIOUS
  <2> QED BY <1>5, <1>7, <2>1, DeedsAre, HarshAre
<1>10. x \notin Harsh(fn) /\ r \notin Harsh(fn) /\ p \notin Harsh(fn)
  BY <1>3, <1>4, HarshDo
<1>11. /\ \A names : k \notin Deeds(fn, names) /\ a \notin Deeds(fn, names) /\ y \notin Deeds(fn, names)
       /\ a \notin Settings /\ y \notin Settings /\ k \notin Successes /\ a \notin Successes
  BY <1>5, <1>6, <1>7, DeedsAre
<1>12. /\ \A z \in {c, x, r, p} : /\ z \notin Settings /\ z \notin Successes
                                  /\ z \notin Deeds(fn, MeteredEffects)
       /\ c \notin Deeds(fn, EffectsOf(fn) \ {"claim"})
  BY <1>2, <1>3, <1>4, DeedsAre, SMTT(30) DEF MeteredEffects
<1>13. /\ c \in DosOf(fn, {"claim"}) /\ x \in DosOf(fn, {"submitted"})
       /\ r \in DosOf(fn, {"registered"}) /\ p \in DosOf(fn, {"persisted"})
  BY <1>2, <1>3, <1>4, DeedsAre
<1>14. ASSUME NEW q \in Subjects
       PROVE  /\ c \notin Deeds(fn, {q[1]}) /\ x \notin Deeds(fn, {q[1]}) /\ r \notin Deeds(fn, {q[1]})
              /\ p \in Deeds(fn, {q[1]}) => q[2] = "registered"
  <2>1. q[1] \in {"proof", "sent", "persisted"} /\ (q[1] = "persisted" => q[2] = "registered")
    BY DEF Subjects
  <2> QED BY <1>2, <1>3, <1>4, <2>1, DeedsAre
<1> DEFINE s == <<c, k>>
           t == <<x, r, p, a, y>>
           S == Steps(fn)
<1>15. s \in Seq(S) /\ t \in Seq(S)
  BY <1>6, <1>8
<1>16. /\ Without(s, Deeds(fn, EffectsOf(fn) \ {"claim"})) /\ Without(t, Settings)
       /\ Without(t, Harsh(fn)) /\ Without(s, Successes)
  BY <1>6, <1>9, <1>10, <1>11, <1>12 DEF Without
<1>17. Without(s, Deeds(fn, MeteredEffects)) /\ Without(t, Deeds(fn, MeteredEffects))
  BY <1>11, <1>12 DEF Without
<1>18. NeverAfter(s, Deeds(fn, Harmful(fn)), Harsh(fn))
  BY <1>9 DEF NeverAfter
<1>19. Has(s, DosOf(fn, {"claim"}))
  BY <1>13 DEF Has
<1>20. /\ Guarded(t, Successes, DosOf(fn, {"submitted"}))
       /\ Guarded(t, Successes, DosOf(fn, {"registered"}))
       /\ Guarded(t, Successes, DosOf(fn, {"persisted"}))
  BY <1>11, <1>12, <1>13 DEF Guarded
<1>21. \A q \in Subjects : Without(s, Deeds(fn, {q[1]}))
  BY <1>11, <1>14 DEF Without
<1>22. \A q \in Subjects : Guarded(t, Deeds(fn, {q[1]}), DosOf(fn, {q[2]}))
  BY <1>11, <1>13, <1>14 DEF Guarded
<1>23. InitiateClaim = s /\ InitiateProvider = t
  BY DEF InitiateClaim, InitiateProvider, s, t, c, k, x, r, p, a, y
<1> HIDE DEF s, t, S
<1>24. s \o t \in Seq(S)
  BY <1>15, ConcatOf
<1>25. NeverAfter(s \o t, Deeds(fn, EffectsOf(fn) \ {"claim"}), Settings)
  BY <1>15, <1>16, NothingBefore, NeverAfterConcat
<1>26. NeverAfter(s \o t, Deeds(fn, Harmful(fn)), Harsh(fn))
  BY <1>15, <1>16, <1>18, NothingBefore, NeverAfterConcat
<1>27. NeverAfter(s \o t, Deeds(fn, MeteredEffects), Deeds(fn, MeteredEffects))
  BY <1>15, <1>17, NothingBefore, NeverAfterConcat
<1>28. ASSUME NEW e \in Purpose(fn) PROVE Guarded(s \o t, Successes, DosOf(fn, {e}))
  <2>1. Has(s, DosOf(fn, {e})) \/ Guarded(t, Successes, DosOf(fn, {e}))
    BY <1>1, <1>19, <1>20
  <2> QED BY <1>15, <1>16, <2>1, GuardedConcat
<1>29. \A q \in Subjects : Guarded(s \o t, Deeds(fn, {q[1]}), DosOf(fn, {q[2]}))
  BY <1>15, <1>21, <1>22, GuardedConcat
<1> QED BY <1>23, <1>24, <1>25, <1>26, <1>27, <1>28, <1>29 DEF Ordered, fn, S

-----------------------------------------------------------------------------
(* Every program is in order, and its checks come first. *)

Sound(fn) ==
    LET program == Program(fn)
        deeds == Deeds(fn, EffectsOf(fn)) IN
    /\ Ordered(fn, program)
    /\ fn \notin Machines => Guarded(program, deeds, Sessions)
    /\ fn = "instapay-review" => Guarded(program, deeds, AdminSteps)
    /\ fn = "delete-account" => Guarded(program, deeds, NotAdmins)
    /\ fn \notin {"checkout", "instapay-review"} => Guarded(program, deeds, Genuines)
    /\ Guarded(program, Deeds(fn, MeteredEffects), Asks(fn))

\* A program is its checks, and then what it does.
LEMMA SoundOf ==
  ASSUME NEW fn, NEW c \in Seq(Checks(fn)), NEW s, Ordered(fn, s), Program(fn) = c \o s,
         fn \notin Machines => Has(c, Sessions),
         fn = "instapay-review" => Has(c, AdminSteps),
         fn = "delete-account" => Has(c, NotAdmins),
         fn \notin {"checkout", "instapay-review"} => Has(c, Genuines),
         EffectsOf(fn) \intersect MeteredEffects = {} \/ Has(c, Asks(fn))
  PROVE  Sound(fn)
<1>1. Ordered(fn, c \o s)
  BY ChecksInFront
<1>2. s \in Seq(Steps(fn)) /\ c \o s \in Seq(Steps(fn))
  BY <1>1 DEF Ordered
<1>3. \A G : Has(c, G) => Guarded(c \o s, Deeds(fn, EffectsOf(fn)), G)
  BY <1>2, CheckGuards
<1>4. Guarded(c \o s, Deeds(fn, MeteredEffects), Asks(fn))
  <2>1. CASE Has(c, Asks(fn))
    BY <1>2, <2>1, CheckGuards
  <2>2. CASE EffectsOf(fn) \intersect MeteredEffects = {}
    <3>1. Deeds(fn, MeteredEffects) = {}
      BY <2>2, KindsApart DEF Deeds
    <3> QED BY <3>1 DEF Guarded
  <2> QED BY <2>1, <2>2
<1> QED BY <1>1, <1>3, <1>4 DEF Sound

\* A check is a check of any function.
LEMMA CheckSteps ==
  ASSUME NEW fn, NEW code \in Nat
  PROVE  /\ Session \in Checks(fn) /\ Genuine(code) \in Checks(fn) /\ Admin(code) \in Checks(fn)
         /\ NotAdmin(code) \in Checks(fn) /\ Expect(code) \in Checks(fn) /\ Body(code) \in Checks(fn)
         /\ \A name \in SettingNames : Setting(name, code) \in Checks(fn)
         /\ ServiceRole(code) \in Checks(fn)
         /\ \A name \in Meters(fn) : Metered(name) \in Checks(fn)
<1>1. ServiceRole(code) \in Settings
  BY CheckKinds DEF ServiceRole, SettingNames
<1> QED BY <1>1, CheckKinds DEF Checks

\* requireCors
LEMMA CorsChecks ==
  ASSUME NEW fn
  PROVE  Cors \in Seq(Checks(fn))
<1>1. Setting("CORS_ALLOWED_ORIGINS", 500) \in Checks(fn) /\ Expect(200) \in Checks(fn)
  BY CheckSteps DEF SettingNames
<1> QED BY <1>1 DEF Cors

\* checkout
LEMMA SoundCheckout == Sound("checkout")
<1> DEFINE fn == "checkout"
           c == <<Session, Body(400)>>
           x == Do("order", 400)
<1>1. EffectsOf(fn) = {"order"} /\ Purpose(fn) = {"order"}
  BY DEF EffectsOf, Purpose
<1>2. x \in Dos(fn) /\ x.name = "order"
  BY <1>1, DoKinds
<1>3. Session \in Checks(fn) /\ Body(400) \in Checks(fn) /\ Session \in Sessions
  BY CheckSteps, CheckKinds
<1>4. c \in Seq(Checks(fn)) /\ Has(c, Sessions)
  BY <1>3 DEF Has
<1>5. Program(fn) = CheckoutChecks \o <<x, Answer(200)>> /\ CheckoutChecks = Cors \o c
  BY DEF Program, Checkout, CheckoutChecks
<1> HIDE DEF fn, c, x
<1>6. Ordered(fn, <<x, Answer(200)>>)
  BY <1>1, <1>2, OneRequest
<1>7. CheckoutChecks \in Seq(Checks(fn)) /\ Has(CheckoutChecks, Sessions)
  BY <1>4, <1>5, CorsChecks, ConcatOf, HasConcat
<1>8. EffectsOf(fn) \intersect MeteredEffects = {}
  BY <1>1 DEF MeteredEffects
<1> QED BY <1>5, <1>6, <1>7, <1>8, SoundOf DEF fn

\* delete-account
LEMMA SoundDelete == Sound("delete-account")
<1> DEFINE fn == "delete-account"
           c == <<Expect(405), Session, Metered("acct"), Body(400), Genuine(403), Expect(400),
                  Expect(403), ServiceRole(503), Expect(500), NotAdmin(403)>>
           x == Do("account", 500)
<1>1. EffectsOf(fn) = {"account"} /\ Purpose(fn) = {"account"} /\ Meters(fn) = {"acct"}
  BY DEF EffectsOf, Purpose, Meters
<1>2. x \in Dos(fn) /\ x.name = "account"
  BY <1>1, DoKinds
<1>3. /\ Expect(405) \in Checks(fn) /\ Session \in Checks(fn) /\ Metered("acct") \in Checks(fn)
      /\ Body(400) \in Checks(fn) /\ Genuine(403) \in Checks(fn) /\ Expect(400) \in Checks(fn)
      /\ Expect(403) \in Checks(fn) /\ ServiceRole(503) \in Checks(fn) /\ Expect(500) \in Checks(fn)
      /\ NotAdmin(403) \in Checks(fn)
  BY <1>1, CheckSteps
<1>4. /\ Session \in Sessions /\ Genuine(403) \in Genuines /\ NotAdmin(403) \in NotAdmins
      /\ Metered("acct") \in Asks(fn)
  BY <1>1, CheckKinds
<1>5. c \in Seq(Checks(fn))
  BY <1>3
<1>6. Has(c, Sessions) /\ Has(c, Genuines) /\ Has(c, NotAdmins) /\ Has(c, Asks(fn))
  BY <1>4 DEF Has
<1>7. Program(fn) = DeleteChecks \o <<x, Answer(200)>>
  BY DEF Program, DeleteAccount
<1>10. DeleteChecks = Cors \o c
  BY DEF DeleteChecks
<1> HIDE DEF fn, c, x
<1>8. Ordered(fn, <<x, Answer(200)>>)
  BY <1>1, <1>2, OneRequest
<1>9. /\ DeleteChecks \in Seq(Checks(fn))
      /\ \A G : Has(c, G) => Has(DeleteChecks, G)
  BY <1>5, <1>10, CorsChecks, ConcatOf, HasConcat
<1> QED BY <1>6, <1>7, <1>8, <1>9, SoundOf DEF fn

\* instapay-initiate
LEMMA SoundTransfer == Sound("instapay-initiate")
<1> DEFINE fn == "instapay-initiate"
           c == <<Expect(405), Session, Metered("init"),
                  Setting("INSTAPAY_MERCHANT_ADDRESS", 500), Body(400), Genuine(403)>>
           s == <<Do("method", 400), Expect(404), Expect(400), Expect(404), Expect(500), Answer(200)>>
<1>1. Meters(fn) = {"init"}
  BY DEF Meters
<1>2. /\ Expect(405) \in Checks(fn) /\ Session \in Checks(fn) /\ Metered("init") \in Checks(fn)
      /\ Setting("INSTAPAY_MERCHANT_ADDRESS", 500) \in Checks(fn) /\ Body(400) \in Checks(fn)
      /\ Genuine(403) \in Checks(fn)
  BY <1>1, CheckSteps DEF SettingNames
<1>3. Session \in Sessions /\ Genuine(403) \in Genuines /\ Metered("init") \in Asks(fn)
  BY <1>1, CheckKinds
<1>4. c \in Seq(Checks(fn))
  BY <1>2
<1>5. Has(c, Sessions) /\ Has(c, Genuines) /\ Has(c, Asks(fn))
  BY <1>3 DEF Has
<1>6. Program(fn) = TransferChecks \o s /\ TransferChecks = Cors \o c
  BY DEF Program, InstapayInitiate, TransferChecks
<1>7. Ordered(fn, s)
  BY TransferOrdered
<1> HIDE DEF fn, c, s
<1>8. /\ TransferChecks \in Seq(Checks(fn))
      /\ \A G : Has(c, G) => Has(TransferChecks, G)
  BY <1>4, <1>6, CorsChecks, ConcatOf, HasConcat
<1> QED BY <1>5, <1>6, <1>7, <1>8, SoundOf DEF fn

\* instapay-submit-proof
LEMMA SoundProof == Sound("instapay-submit-proof")
<1> DEFINE fn == "instapay-submit-proof"
           c == <<Expect(405), Session, Metered("proof"), Body(413), Expect(400), Expect(400),
                  Expect(400), Expect(413)>>
<1>1. Meters(fn) = {"proof"}
  BY DEF Meters
<1>2. /\ Expect(405) \in Checks(fn) /\ Session \in Checks(fn) /\ Metered("proof") \in Checks(fn)
      /\ Body(413) \in Checks(fn) /\ Expect(400) \in Checks(fn) /\ Expect(413) \in Checks(fn)
      /\ Genuine(404) \in Checks(fn) /\ Expect(404) \in Checks(fn) /\ Expect(429) \in Checks(fn)
  BY <1>1, CheckSteps
<1>3. Session \in Sessions /\ Genuine(404) \in Genuines /\ Metered("proof") \in Asks(fn)
  BY <1>1, CheckKinds
<1>4. c \in Seq(Checks(fn)) /\ FileChecks \in Seq(Checks(fn))
  BY <1>2 DEF FileChecks
<1>5. Has(c, Sessions) /\ Has(c, Asks(fn)) /\ Has(FileChecks, Genuines)
  BY <1>3 DEF Has, FileChecks
<1>6. Program(fn) = (ProofChecks \o FileChecks) \o ProofWrites /\ ProofChecks = Cors \o c
  BY DEF Program, InstapaySubmitProof, ProofChecks
<1>7. Ordered(fn, ProofWrites)
  BY ProofOrdered
<1> HIDE DEF fn, c
<1>8. /\ ProofChecks \in Seq(Checks(fn))
      /\ Has(ProofChecks, Sessions) /\ Has(ProofChecks, Asks(fn))
  BY <1>4, <1>5, <1>6, CorsChecks, ConcatOf, HasConcat
<1> DEFINE d == ProofChecks \o FileChecks
<1>9. d \in Seq(Checks(fn)) /\ Has(d, Sessions) /\ Has(d, Asks(fn)) /\ Has(d, Genuines)
  BY <1>4, <1>5, <1>8, ConcatOf, HasConcat
<1>10. Program(fn) = d \o ProofWrites
  BY <1>6
<1> HIDE DEF d
<1> QED BY <1>7, <1>9, <1>10, SoundOf DEF fn

\* instapay-review
LEMMA SoundReview == Sound("instapay-review")
<1> DEFINE fn == "instapay-review"
           c == <<Expect(405), Session, Body(400), ServiceRole(500), Expect(403), Admin(403)>>
           x == Do("review", 400)
<1>1. EffectsOf(fn) = {"review"} /\ Purpose(fn) = {"review"}
  BY DEF EffectsOf, Purpose
<1>2. x \in Dos(fn) /\ x.name = "review"
  BY <1>1, DoKinds
<1>3. /\ Expect(405) \in Checks(fn) /\ Session \in Checks(fn) /\ Body(400) \in Checks(fn)
      /\ ServiceRole(500) \in Checks(fn) /\ Expect(403) \in Checks(fn) /\ Admin(403) \in Checks(fn)
  BY CheckSteps
<1>4. Session \in Sessions /\ Admin(403) \in AdminSteps
  BY CheckKinds
<1>5. c \in Seq(Checks(fn)) /\ Has(c, Sessions) /\ Has(c, AdminSteps)
  BY <1>3, <1>4 DEF Has
<1>6. Program(fn) = ReviewChecks \o <<x, Answer(200)>>
  BY DEF Program, InstapayReview
<1>10. ReviewChecks = Cors \o c
  BY DEF ReviewChecks
<1> HIDE DEF fn, c, x
<1>7. Ordered(fn, <<x, Answer(200)>>)
  BY <1>1, <1>2, OneRequest
<1>8. /\ ReviewChecks \in Seq(Checks(fn)) /\ Has(ReviewChecks, Sessions)
      /\ Has(ReviewChecks, AdminSteps)
  BY <1>5, <1>10, CorsChecks, ConcatOf, HasConcat
<1>9. EffectsOf(fn) \intersect MeteredEffects = {}
  BY <1>1 DEF MeteredEffects
<1> QED BY <1>6, <1>7, <1>8, <1>9, SoundOf DEF fn

\* paymob-initiate
LEMMA SoundInitiate == Sound("paymob-initiate")
<1> DEFINE fn == "paymob-initiate"
           c == <<Expect(405), Session, Expect(400), Body(400), Genuine(404), Expect(404),
                  Expect(400), Expect(400), Setting("PAYMOB_API_KEY", 503),
                  Setting("PAYMOB_IFRAME_ID", 503)>>
           s == InitiateClaim \o InitiateProvider
<1>1. EffectsOf(fn) \intersect MeteredEffects = {}
  BY DEF EffectsOf, Purpose, MeteredEffects
<1>2. /\ Expect(405) \in Checks(fn) /\ Session \in Checks(fn) /\ Expect(400) \in Checks(fn)
      /\ Body(400) \in Checks(fn) /\ Genuine(404) \in Checks(fn) /\ Expect(404) \in Checks(fn)
      /\ Setting("PAYMOB_API_KEY", 503) \in Checks(fn)
      /\ Setting("PAYMOB_IFRAME_ID", 503) \in Checks(fn)
  BY CheckSteps DEF SettingNames
<1>3. Session \in Sessions /\ Genuine(404) \in Genuines
  BY CheckKinds
<1>4. c \in Seq(Checks(fn))
  BY <1>2
<1>5. Has(c, Sessions) /\ Has(c, Genuines)
  BY <1>3 DEF Has
<1>6. Program(fn) = InitiateChecks \o s
  BY DEF Program, PaymobInitiate
<1>9. InitiateChecks = Cors \o c
  BY DEF InitiateChecks
<1>7. Ordered(fn, s)
  BY ProviderOrdered
<1> HIDE DEF fn, c, s
<1>8. /\ InitiateChecks \in Seq(Checks(fn)) /\ Has(InitiateChecks, Sessions)
      /\ Has(InitiateChecks, Genuines)
  BY <1>4, <1>5, <1>9, CorsChecks, ConcatOf, HasConcat
<1> QED BY <1>1, <1>6, <1>7, <1>8, SoundOf DEF fn

\* paymob-callback
LEMMA SoundCallback == Sound("paymob-callback")
<1> DEFINE fn == "paymob-callback"
           no == <<Expect(200), Expect(400), Answer(500)>>
           gone == <<Answer(500)>>
           x == DoOr("result", no, gone)
<1>1. EffectsOf(fn) = {"result"} /\ Purpose(fn) = {"result"} /\ Meters(fn) = {"cb"}
  BY DEF EffectsOf, Purpose, Meters
<1>2. x \in Dos(fn) /\ x.name = "result"
  <2>1. Expect(200) \in Told(fn) /\ Expect(400) \in Told(fn) /\ Answer(500) \in Told(fn)
    BY AfterKinds
  <2>2. no \in Seq(Told(fn))
    BY <2>1
  <2>3. gone \in Seq(Afters(fn))
    BY <2>1 DEF Told
  <2> HIDE DEF no, gone
  <2>4. no \in Seq(Told(fn)) \union Seq(Undone(fn)) /\ "result" \in EffectsOf(fn)
    BY <1>1, <2>2
  <2> QED BY <2>3, <2>4, DoOrKinds
<1>3. /\ Expect(200) \in Checks(fn) /\ Expect(400) \in Checks(fn) /\ ServiceRole(503) \in Checks(fn)
      /\ Metered("cb") \in Checks(fn) /\ Body(400) \in Checks(fn)
      /\ Setting("PAYMOB_HMAC_SECRET", 503) \in Checks(fn) /\ Signed \in Checks(fn)
  BY <1>1, CheckSteps DEF SettingNames, Signed
<1>4. Signed \in Genuines /\ Metered("cb") \in Asks(fn)
  BY <1>1, CheckKinds DEF Signed
<1>5. CallbackChecks \in Seq(Checks(fn))
  BY <1>3 DEF CallbackChecks
<1>6. Has(CallbackChecks, Genuines) /\ Has(CallbackChecks, Asks(fn))
  BY <1>4 DEF Has, CallbackChecks
<1>7. Program(fn) = CallbackChecks \o <<x, Answer(200)>>
  BY DEF Program, PaymobCallback, CallbackResult
<1>8. fn \in Machines
  BY DEF Machines
<1> HIDE DEF fn, x
<1>9. Ordered(fn, <<x, Answer(200)>>)
  BY <1>1, <1>2, OneRequest
<1> QED BY <1>5, <1>6, <1>7, <1>8, <1>9, SoundOf DEF fn

\* cancel-expired-orders
LEMMA SoundWorker == Sound("cancel-expired-orders")
<1> DEFINE fn == "cancel-expired-orders"
           k == Key("SCHEDULER_SECRET", 401)
           c == <<ServiceRole(503), Setting("SUPABASE_URL", 503)>>
           s == <<Try("sweep"), Expect(500), Expect(200), Try("expiry"), Try("next_expiry"), Answer(200)>>
<1>1. EffectsOf(fn) \intersect MeteredEffects = {} /\ fn \in Machines
  BY DEF EffectsOf, Purpose, MeteredEffects, Machines
<1>2. /\ Setting("SCHEDULER_SECRET", 401) \in Checks(fn) /\ Genuine(401) \in Checks(fn)
      /\ ServiceRole(503) \in Checks(fn) /\ Setting("SUPABASE_URL", 503) \in Checks(fn)
  BY CheckSteps DEF SettingNames
<1>3. Genuine(401) \in Genuines
  BY CheckKinds
<1>4. k \in Seq(Checks(fn)) /\ c \in Seq(Checks(fn)) /\ Has(k, Genuines)
  BY <1>2, <1>3 DEF Key, Has
<1>5. Program(fn) = WorkerChecks \o s /\ WorkerChecks = (Cors \o k) \o c
  BY SMTT(30) DEF Program, CancelExpiredOrders, WorkerChecks
<1>6. Ordered(fn, s)
  BY WorkerOrdered
<1> HIDE DEF fn, k, c, s
<1>7. Cors \o k \in Seq(Checks(fn)) /\ Has(Cors \o k, Genuines)
  BY <1>4, CorsChecks, ConcatOf, HasConcat
<1>8. WorkerChecks \in Seq(Checks(fn)) /\ Has(WorkerChecks, Genuines)
  BY <1>4, <1>5, <1>7, ConcatOf, HasConcat
<1> QED BY <1>1, <1>5, <1>6, <1>8, SoundOf DEF fn

\* send-order-notification
LEMMA SoundNotification == Sound("send-order-notification")
<1> DEFINE fn == "send-order-notification"
           k == Key("NOTIFICATIONS_INTERNAL_KEY", 503)
           c == <<Body(400), Expect(400), Expect(400), Setting("RESEND_API_KEY", 200),
                  Setting("SUPABASE_URL", 503), ServiceRole(503)>>
<1>1. EffectsOf(fn) \intersect MeteredEffects = {} /\ fn \in Machines
  BY DEF EffectsOf, Purpose, MeteredEffects, Machines
<1>2. /\ Setting("NOTIFICATIONS_INTERNAL_KEY", 503) \in Checks(fn) /\ Genuine(401) \in Checks(fn)
      /\ Body(400) \in Checks(fn) /\ Expect(400) \in Checks(fn)
      /\ Setting("RESEND_API_KEY", 200) \in Checks(fn)
      /\ ServiceRole(503) \in Checks(fn) /\ Setting("SUPABASE_URL", 503) \in Checks(fn)
  BY CheckSteps DEF SettingNames
<1>3. Genuine(401) \in Genuines
  BY CheckKinds
<1>4. k \in Seq(Checks(fn)) /\ c \in Seq(Checks(fn)) /\ Has(k, Genuines)
  BY <1>2, <1>3 DEF Key, Has
<1>5. Program(fn) = NotificationChecks \o NotificationSends /\ NotificationChecks = (Cors \o k) \o c
  BY DEF Program, SendOrderNotification, NotificationChecks
<1>6. Ordered(fn, NotificationSends)
  BY SendsOrdered
<1> HIDE DEF fn, k, c
<1>7. Cors \o k \in Seq(Checks(fn)) /\ Has(Cors \o k, Genuines)
  BY <1>4, CorsChecks, ConcatOf, HasConcat
<1>8. NotificationChecks \in Seq(Checks(fn)) /\ Has(NotificationChecks, Genuines)
  BY <1>4, <1>5, <1>7, ConcatOf, HasConcat
<1> QED BY <1>1, <1>5, <1>6, <1>8, SoundOf DEF fn

\* push-order-status
LEMMA SoundPush == Sound("push-order-status")
<1> DEFINE fn == "push-order-status"
           k == Key("PUSH_ORDER_STATUS_INTERNAL_KEY", 503)
           c == <<Body(400), Expect(400), ServiceRole(503), Expect(200),
                  Setting("ONESIGNAL_APP_ID", 200)>>
           x == Do("push", 502)
<1>1. EffectsOf(fn) = {"push"} /\ Purpose(fn) = {"push"} /\ fn \in Machines
  BY DEF EffectsOf, Purpose, Machines
<1>2. x \in Dos(fn) /\ x.name = "push"
  BY <1>1, DoKinds
<1>3. /\ Setting("PUSH_ORDER_STATUS_INTERNAL_KEY", 503) \in Checks(fn) /\ Genuine(401) \in Checks(fn)
      /\ Body(400) \in Checks(fn) /\ Expect(400) \in Checks(fn) /\ ServiceRole(503) \in Checks(fn)
      /\ Expect(200) \in Checks(fn) /\ Setting("ONESIGNAL_APP_ID", 200) \in Checks(fn)
  BY CheckSteps DEF SettingNames
<1>4. Genuine(401) \in Genuines
  BY CheckKinds
<1>5. k \in Seq(Checks(fn)) /\ c \in Seq(Checks(fn)) /\ Has(k, Genuines)
  BY <1>3, <1>4 DEF Key, Has
<1>6. Program(fn) = PushChecks \o <<x, Answer(200)>> /\ PushChecks = (Cors \o k) \o c
  BY DEF Program, PushOrderStatus, PushChecks
<1> HIDE DEF fn, k, c, x
<1>7. Ordered(fn, <<x, Answer(200)>>)
  BY <1>1, <1>2, OneRequest
<1>8. Cors \o k \in Seq(Checks(fn)) /\ Has(Cors \o k, Genuines)
  BY <1>5, CorsChecks, ConcatOf, HasConcat
<1>9. PushChecks \in Seq(Checks(fn)) /\ Has(PushChecks, Genuines)
  BY <1>5, <1>6, <1>8, ConcatOf, HasConcat
<1>10. EffectsOf(fn) \intersect MeteredEffects = {}
  BY <1>1 DEF MeteredEffects
<1> QED BY <1>1, <1>6, <1>7, <1>9, <1>10, SoundOf DEF fn

\* Each of the ten programs.
LEMMA AllSound == \A fn \in Functions : Sound(fn)
  BY SoundCheckout, SoundDelete, SoundTransfer, SoundProof, SoundReview, SoundInitiate,
     SoundCallback, SoundWorker, SoundNotification, SoundPush DEF Functions

-----------------------------------------------------------------------------
(* What a step makes of the call. *)

Begins ==
    \E fn \in Functions, caller \in Callers, genuine \in BOOLEAN :
       call' = [NoCall EXCEPT !.fn = fn, !.caller = caller, !.genuine = genuine,
                              !.todo = Program(fn)]

SameCall ==
    /\ Running
    /\ call' \in CallType
    /\ call'.fn = call.fn /\ call'.caller = call.caller /\ call'.genuine = call.genuine

\* a check holds, or a request whose answer nobody reads fails
Passes ==
    /\ SameCall /\ call'.todo = Tail(call.todo)
    /\ call'.did = call.did /\ call'.lost = call.lost
    /\ call'.code = call.code /\ call'.why = call.why
    /\ Step \notin Dos(call.fn)
    /\ Step \in Sessions => call.caller \in Users
    /\ Step \in Genuines => call.genuine
    /\ Step \in AdminSteps => call.caller \in Admins
    /\ Step \in NotAdmins => call.caller \notin Admins
    /\ IF Step \in Asks(call.fn) THEN call'.window \in Windows ELSE call'.window = call.window

\* a request takes effect
Does ==
    /\ SameCall /\ call'.todo = Tail(call.todo)
    /\ Step \in Tries(call.fn) \union Dos(call.fn)
    /\ call'.did = call.did \union {Step.name} /\ call'.lost = call.lost
    /\ call'.code = call.code /\ call'.why = call.why /\ call'.window = call.window

\* a request is refused
Refuses ==
    /\ SameCall /\ call'.todo = Step.refused /\ Step \in Dos(call.fn)
    /\ call'.did = call.did /\ call'.lost = call.lost
    /\ call'.code = call.code /\ call'.why = call.why /\ call'.window = call.window

\* a request takes effect, and its answer is lost
Loses ==
    /\ SameCall /\ call'.todo = Step.lost /\ Step \in Dos(call.fn)
    /\ call'.did = call.did \union {Step.name} /\ call'.lost = TRUE
    /\ call'.code = call.code /\ call'.why = call.why /\ call'.window = call.window

\* the call is answered, or killed
Ends ==
    /\ SameCall /\ call'.todo = <<>>
    /\ call'.did = call.did /\ call'.lost = call.lost /\ call'.window = call.window
    /\ call'.why = "setting" => Step \in Settings
    /\ call'.code \in 400..499 => Step \in Harsh(call.fn)
    /\ call'.why = "answer" /\ call'.code \in 200..299 => Step \in Successes

Moves == Passes \/ Does \/ Refuses \/ Loses \/ Ends

\* A step is of the kind its name says.
LEMMA StepKinds ==
  ASSUME NEW fn, NEW x \in Steps(fn)
  PROVE  /\ x.op = "setting" => x \in Settings
         /\ x.op = "session" => x \in Sessions
         /\ x.op = "genuine" => x \in Genuines
         /\ x.op = "admin" => x \in AdminSteps
         /\ x.op = "not_admin" => x \in NotAdmins
         /\ x.op \in {"expect", "body"} => x \in Inputs
         /\ x.op = "metered" => x \in Asks(fn)
         /\ x.op = "answer" => x \in Answers
         /\ x.op = "try" => x \in Tries(fn)
         /\ x.op = "do" => x \in Dos(fn)
         /\ x \in Sessions => x.op = "session"
         /\ x \in Genuines => x.op = "genuine"
         /\ x \in AdminSteps => x.op = "admin"
         /\ x \in NotAdmins => x.op = "not_admin"
         /\ x \in Asks(fn) => x.op = "metered"
         /\ x \in Dos(fn) => x.op = "do"
  BY KindsApart DEF Steps, Checks

\* What is left to do when a request failed is something a function does.
LEMMA AfterSteps ==
  ASSUME NEW fn
  PROVE  Afters(fn) \subseteq Steps(fn) /\ Told(fn) \subseteq Afters(fn) /\ Undone(fn) \subseteq Afters(fn)
<1>1. Plain({"expect"}, {""}, Nat) \subseteq Inputs
  BY DEF Inputs, Plain
<1>2. Plain({"answer"}, {""}, 400..599) \subseteq Answers
  <2>1. 400..599 \subseteq Nat
    OBVIOUS
  <2> QED BY <2>1, ZenonT(60) DEF Answers, Plain
<1>3. Plain({"try"}, EffectsOf(fn) \intersect Fallbacks, {500}) \subseteq Tries(fn)
  BY DEF Tries, Plain
<1>4. Inputs \subseteq Checks(fn)
  BY DEF Checks
<1>5. ASSUME NEW x \in Afters(fn) PROVE x \in Steps(fn)
  <2>0. \/ x \in Plain({"expect"}, {""}, Nat)
        \/ x \in Plain({"answer"}, {""}, 400..599)
        \/ x \in Plain({"try"}, EffectsOf(fn) \intersect Fallbacks, {500})
    BY ZenonT(60) DEF Afters
  <2>1. CASE x \in Plain({"expect"}, {""}, Nat)
    <3>1. x \in Inputs
      BY <1>1, <2>1, ZenonT(60)
    <3> QED BY <1>4, <3>1, ZenonT(60) DEF Steps
  <2>2. CASE x \in Plain({"answer"}, {""}, 400..599)
    <3>1. x \in Answers
      BY <1>2, <2>2, ZenonT(60)
    <3> QED BY <3>1, ZenonT(60) DEF Steps
  <2>3. CASE x \in Plain({"try"}, EffectsOf(fn) \intersect Fallbacks, {500})
    <3>1. x \in Tries(fn)
      BY <1>3, <2>3, ZenonT(60)
    <3> QED BY <3>1, ZenonT(60) DEF Steps
  <2> QED BY <2>0, <2>1, <2>2, <2>3, ZenonT(60)
<1> QED BY <1>5 DEF Told, Undone

\* Every step but a request has a code.
LEMMA CodesOf ==
  ASSUME NEW fn, NEW x \in Steps(fn), x.op # "do"
  PROVE  x.code \in Nat
<1>1. x \in Checks(fn) \/ x \in Answers \/ x \in Tries(fn)
  BY KindsApart DEF Steps
<1>2. CASE x \in Settings \union Genuines \union AdminSteps \union NotAdmins \union Inputs \union Answers
  BY <1>2 DEF Settings, Genuines, AdminSteps, NotAdmins, Inputs, Answers, Plain
<1>3. CASE x \in Sessions \union Asks(fn) \union Tries(fn)
  BY <1>3, KindsApart
<1> QED BY <1>1, <1>2, <1>3 DEF Checks

\* Where a running call stands.
LEMMA AtStep ==
  ASSUME CallTypeOK, Running
  PROVE  /\ Step \in Steps(call.fn) /\ Step = Head(call.todo) /\ call.fn \in Functions
         /\ Tail(call.todo) \in Seq(Steps(call.fn))
         /\ Seq(Steps(call.fn)) \subseteq Todos
         /\ EffectsOf(call.fn) \subseteq AllEffects
         /\ Step.op # "do" => Step.code \in Nat
         /\ Step.op # "do" /\ Step.code \in 400..499 => Step \in Harsh(call.fn)
<1> DEFINE fn == call.fn
<1>1. fn \in Functions /\ call.todo \in Seq(Steps(fn)) /\ call.todo # <<>>
  BY DEF CallTypeOK, CallType, Running
<1>2. Step \in Steps(fn) /\ Step = Head(call.todo) /\ Tail(call.todo) \in Seq(Steps(fn))
  BY <1>1, TailOf DEF Step
<1>3. Seq(Steps(fn)) \subseteq Todos /\ EffectsOf(fn) \subseteq AllEffects
  BY <1>1 DEF Todos, AllEffects
<1>4. \A x \in Steps(fn) : x.op # "do" => x.code \in Nat
  BY CodesOf
<1>5. Step.op # "do" /\ Step.code \in 400..499 => Step \in Harsh(fn)
  BY <1>2 DEF Harsh
<1> QED BY <1>1, <1>2, <1>3, <1>4, <1>5

\* A check that holds is passed.
LEMMA PassOf ==
  ASSUME CallTypeOK, Running, Advance, Step.op # "do", Step.op # "metered",
         Step.op = "session" => call.caller \in Users,
         Step.op = "genuine" => call.genuine,
         Step.op = "admin" => call.caller \in Admins,
         Step.op = "not_admin" => call.caller \notin Admins
  PROVE  Passes
<1>1. Tail(call.todo) \in Todos /\ Step \in Steps(call.fn)
  BY AtStep
<1>2. /\ call' \in CallType /\ call'.fn = call.fn /\ call'.caller = call.caller
      /\ call'.genuine = call.genuine /\ call'.todo = Tail(call.todo) /\ call'.did = call.did
      /\ call'.lost = call.lost /\ call'.code = call.code /\ call'.why = call.why
      /\ call'.window = call.window
  BY <1>1 DEF CallTypeOK, CallType, Advance
<1>3. /\ Step \notin Dos(call.fn) /\ Step \notin Asks(call.fn)
      /\ Step \in Sessions => call.caller \in Users
      /\ Step \in Genuines => call.genuine
      /\ Step \in AdminSteps => call.caller \in Admins
      /\ Step \in NotAdmins => call.caller \notin Admins
  BY <1>1, StepKinds
<1> QED BY <1>2, <1>3 DEF Passes, SameCall

\* A call that is finished ends.
LEMMA EndOf ==
  ASSUME CallTypeOK, Running, NEW code \in Nat, NEW why \in Reasons, Finish(code, why),
         why = "setting" => Step \in Settings,
         code \in 400..499 => Step \in Harsh(call.fn),
         why = "answer" /\ code \in 200..299 => Step \in Successes
  PROVE  Ends
<1>1. <<>> \in Todos
  <2>1. <<>> \in Seq(Steps(call.fn))
    OBVIOUS
  <2> QED BY <2>1, AtStep
<1>2. /\ call' \in CallType /\ call'.fn = call.fn /\ call'.caller = call.caller
      /\ call'.genuine = call.genuine /\ call'.todo = <<>> /\ call'.did = call.did
      /\ call'.lost = call.lost /\ call'.code = code /\ call'.why = why
      /\ call'.window = call.window
  BY <1>1 DEF CallTypeOK, CallType, Finish
<1> QED BY <1>2 DEF Ends, SameCall

\* requireSecret and requireCors let a call pass or end it.
LEMMA SettingMoves ==
  ASSUME CallTypeOK, CheckSetting
  PROVE  Passes \/ Ends
<1>1. Running /\ Step.op = "setting"
  BY DEF CheckSetting, At, Step
<1>2. Step \in Settings /\ Step.code \in Nat
  BY <1>1, AtStep, StepKinds
<1>3. CASE Advance
  BY <1>1, <1>3, PassOf
<1>4. CASE Finish(Step.code, "setting")
  BY <1>1, <1>2, <1>4, AtStep, EndOf DEF Reasons
<1> QED BY <1>3, <1>4 DEF CheckSetting

\* So do the checks of the caller.
LEMMA CallerMoves ==
  ASSUME CallTypeOK, CheckCaller
  PROVE  Passes \/ Ends
<1>1. Running /\ Step.op \in {"session", "genuine", "admin", "not_admin"}
  BY DEF CheckCaller, At, Step
<1>2. Step.code \in Nat /\ (Step.op = "session" => Step.code = 401)
  <2>1. Step.code \in Nat /\ (Step.op = "session" => Step \in Sessions)
    BY <1>1, AtStep, StepKinds
  <2>2. \A x \in Sessions : x.code = 401
    BY KindsApart
  <2> QED BY <2>1, <2>2
<1>3. CASE Finish(Step.code, "caller")
  BY <1>1, <1>2, <1>3, AtStep, EndOf, ZenonT(60) DEF Reasons
<1>4. CASE /\ Advance
           /\ Step.op = "session" => call.caller \in Users
           /\ Step.op = "genuine" => call.genuine
           /\ Step.op = "admin" => call.caller \in Admins
           /\ Step.op = "not_admin" => call.caller \notin Admins
  BY <1>1, <1>4, PassOf
<1>5. CASE At("session")
  <2>1. Step.op = "session"
    BY <1>5 DEF At, Step
  <2>2. (call.caller \in Users /\ Advance) \/ Finish(401, "caller")
    BY <1>5, <2>1 DEF CheckCaller, At, Step
  <2> QED BY <1>2, <1>3, <1>4, <2>1, <2>2
<1>6. CASE ~At("session")
  <2>1. Step.op # "session"
    BY <1>1, <1>6 DEF At, Step
  <2> QED BY <1>1, <1>3, <1>4, <2>1 DEF CheckCaller, At, Step
<1> QED BY <1>5, <1>6

\* So do those of his request.
LEMMA InputMoves ==
  ASSUME CallTypeOK, CheckInput
  PROVE  Passes \/ Ends
<1>1. Running /\ Step.op \in {"expect", "body"}
  BY DEF CheckInput, At, Step
<1>2. Step.code \in Nat
  BY <1>1, AtStep
<1>3. CASE Advance
  BY <1>1, <1>3, PassOf
<1>4. CASE Finish(Step.code, "input")
  BY <1>1, <1>2, <1>4, AtStep, EndOf, ZenonT(60) DEF Reasons
<1>5. CASE Finish(500, "input")
  <2>1. 500 \in Nat /\ 500 \notin 400..499
    OBVIOUS
  <2> QED BY <1>1, <1>5, <2>1, EndOf DEF Reasons
<1> QED BY <1>3, <1>4, <1>5 DEF CheckInput

\* An answer ends the call.
LEMMA RespondMoves ==
  ASSUME CallTypeOK, Respond
  PROVE  Ends
<1>1. Running /\ Step.op = "answer" /\ Finish(Step.code, "answer")
  BY DEF Respond, At, Step
<1>2. Step \in Answers /\ Step.code \in Nat
  BY <1>1, AtStep, StepKinds
<1>3. Step.code \in 200..299 => Step \in Successes
  BY <1>2 DEF Answers, Successes, Plain
<1> QED BY <1>1, <1>2, <1>3, AtStep, EndOf, ZenonT(60) DEF Reasons

\* So does the end of the isolate.
LEMMA KillMoves ==
  ASSUME CallTypeOK, Kill
  PROVE  Ends
<1>1. Running /\ Finish(0, "killed")
  BY DEF Kill
<1>2. 0 \in Nat /\ 0 \notin 400..499
  OBVIOUS
<1> QED BY <1>1, <1>2, EndOf DEF Reasons

\* A limiter stands in front of a function under the function's own kind.
LEMMA MeterOf ==
  ASSUME NEW fn \in Functions, NEW kind \in Meters(fn)
  PROVE  kind = Kind(fn) /\ kind \in Kinds /\ Meters(fn) = {Kind(fn)}
<1>1. fn \in {"delete-account", "instapay-initiate", "instapay-submit-proof", "paymob-callback"}
  BY DEF Meters, Functions
<1>2. Meters(fn) = {Kind(fn)} /\ Kind(fn) \in {"acct", "init", "proof", "cb"}
  BY <1>1 DEF Meters, Kind
<1> QED BY <1>2, EdgeAssumption

\* The limiter lets the call pass or ends it.
LEMMA LimiterMoves ==
  ASSUME CallTypeOK, now \in Epoch..MaxNow, AskLimiter
  PROVE  /\ Step \in Asks(call.fn) /\ Step.name = Kind(call.fn) /\ Step.name \in Kinds
         /\ Meters(call.fn) = {Kind(call.fn)}
         /\ \/ Passes /\ call'.window = Window(Step.name)
            \/ Ends
<1> DEFINE kind == Step.name
<1>1. Running /\ Step.op = "metered"
  BY DEF AskLimiter, At, Step
<1>2. Step \in Steps(call.fn) /\ Step \in Asks(call.fn) /\ call.fn \in Functions
  BY <1>1, AtStep, StepKinds
<1>3. kind \in Meters(call.fn) /\ Step.code = 429
  BY <1>2, KindsApart
<1>4. kind = Kind(call.fn) /\ kind \in Kinds /\ Meters(call.fn) = {Kind(call.fn)}
  BY <1>2, <1>3, MeterOf
<1>5. Window(kind) \in Windows
  BY <1>4 DEF Window, Windows
<1>6. CASE call' = [call EXCEPT !.todo = Tail(@), !.window = Window(kind)]
  <2>1. Tail(call.todo) \in Todos
    BY <1>1, AtStep
  <2>2. /\ call' \in CallType /\ call'.fn = call.fn /\ call'.caller = call.caller
        /\ call'.genuine = call.genuine /\ call'.todo = Tail(call.todo) /\ call'.did = call.did
        /\ call'.lost = call.lost /\ call'.code = call.code /\ call'.why = call.why
        /\ call'.window = Window(kind)
    BY <1>5, <1>6, <2>1 DEF CallTypeOK, CallType
  <2>3. /\ Step \notin Dos(call.fn) /\ Step \notin Sessions /\ Step \notin Genuines
        /\ Step \notin AdminSteps /\ Step \notin NotAdmins
    BY <1>1, <1>2, StepKinds
  <2>4. Passes
    BY <1>1, <1>2, <1>5, <2>2, <2>3 DEF Passes, SameCall
  <2> QED BY <1>2, <1>4, <2>2, <2>4
<1>7. CASE Finish(429, "limiter")
  <2>1. 429 \in Nat /\ 429 \in 400..499
    OBVIOUS
  <2>2. Step \in Harsh(call.fn)
    BY <1>1, <1>3, <2>1, AtStep
  <2>3. Ends
    BY <1>1, <1>7, <2>1, <2>2, EndOf DEF Reasons
  <2> QED BY <1>2, <1>4, <2>3
<1> QED BY <1>6, <1>7 DEF AskLimiter

\* A request is refused, takes effect, or takes effect and its answer is lost.
LEMMA RequestMoves ==
  ASSUME CallTypeOK, Request
  PROVE  /\ Running /\ Step \in Dos(call.fn)
         /\ \/ Refuses /\ worked' = worked
            \/ Does /\ Work(Step.name)
            \/ Loses /\ Work(Step.name)
<1>1. Running /\ Step.op = "do"
  BY DEF Request, At, Step
<1>2. Step \in Dos(call.fn) /\ call.fn \in Functions
  BY <1>1, AtStep, StepKinds
<1>3. /\ Step.name \in EffectsOf(call.fn)
      /\ Step.refused \in Seq(Told(call.fn)) \union Seq(Undone(call.fn))
      /\ Step.lost \in Seq(Afters(call.fn))
  BY <1>2, KindsApart
<1>4. Step.name \in AllEffects /\ Tail(call.todo) \in Todos
  BY <1>1, <1>3, AtStep
<1>5. Step.refused \in Todos /\ Step.lost \in Todos
  <2>1. \A s \in Seq(Afters(call.fn)) : s \in Todos
    <3>1. \A s \in Seq(Afters(call.fn)) : s \in Seq(Steps(call.fn))
      BY AfterSteps
    <3> QED BY <1>1, <3>1, AtStep
  <2>2. Step.refused \in Seq(Afters(call.fn))
    BY <1>3, AfterSteps
  <2> QED BY <1>3, <2>1, <2>2
<1>6. CASE call' = [call EXCEPT !.todo = Step.refused] /\ worked' = worked
  BY <1>1, <1>2, <1>5, <1>6 DEF CallTypeOK, CallType, Refuses, SameCall
<1>7. CASE /\ call' = [call EXCEPT !.todo = Tail(@), !.did = @ \union {Step.name}]
           /\ Work(Step.name)
  BY <1>1, <1>2, <1>4, <1>7 DEF CallTypeOK, CallType, Does, SameCall
<1>8. CASE /\ call' = [call EXCEPT !.todo = Step.lost, !.did = @ \union {Step.name}, !.lost = TRUE]
           /\ Work(Step.name)
  BY <1>1, <1>2, <1>4, <1>5, <1>8 DEF CallTypeOK, CallType, Loses, SameCall
<1> QED BY <1>1, <1>2, <1>6, <1>7, <1>8 DEF Request

\* A best effort fails or takes effect.
LEMMA BestEffortMoves ==
  ASSUME CallTypeOK, BestEffort
  PROVE  Passes \/ Does
<1>1. Running /\ Step.op = "try"
  BY DEF BestEffort, At, Step
<1>2. Step \in Tries(call.fn) /\ Step.name \in EffectsOf(call.fn)
  <2>1. Step \in Tries(call.fn)
    BY <1>1, AtStep, StepKinds
  <2> QED BY <2>1, KindsApart
<1>3. Step.name \in AllEffects /\ Tail(call.todo) \in Todos
  BY <1>1, <1>2, AtStep
<1>4. CASE Advance
  BY <1>1, <1>4, PassOf
<1>5. CASE call' = [call EXCEPT !.todo = Tail(@), !.did = @ \union {Step.name}]
  BY <1>1, <1>2, <1>3, <1>5 DEF CallTypeOK, CallType, Does, SameCall
<1> QED BY <1>4, <1>5 DEF BestEffort

\* Every step of the system starts a call, moves the call in progress, or leaves it alone.
LEMMA CallMoves ==
  ASSUME CallTypeOK, now \in Epoch..MaxNow, [ENext]_allVars
  PROVE  Begins \/ Moves \/ call' = call
<1>1. CASE \E fn \in Functions, caller \in Callers, genuine \in BOOLEAN : Begin(fn, caller, genuine)
  BY <1>1 DEF Begin, Begins
<1>2. CASE CheckSetting
  BY <1>2, SettingMoves DEF Moves
<1>3. CASE CheckCaller
  BY <1>3, CallerMoves DEF Moves
<1>4. CASE CheckInput
  BY <1>4, InputMoves DEF Moves
<1>5. CASE AskLimiter
  BY <1>5, LimiterMoves DEF Moves
<1>6. CASE Request
  BY <1>6, RequestMoves DEF Moves
<1>7. CASE BestEffort
  BY <1>7, BestEffortMoves DEF Moves
<1>8. CASE Respond
  BY <1>8, RespondMoves DEF Moves
<1>9. CASE Kill
  BY <1>9, KillMoves DEF Moves
<1>10. CASE \E ask \in Directs : TakeDirectly(ask[1], ask[2], ask[3])
  BY <1>10 DEF TakeDirectly
<1>11. CASE ETick
  BY <1>11 DEF ETick, edgeVars
<1>12. CASE UNCHANGED allVars
  BY <1>12 DEF allVars, edgeVars
<1> QED BY <1>1, <1>2, <1>3, <1>4, <1>5, <1>6, <1>7, <1>8, <1>9, <1>10, <1>11, <1>12 DEF ENext

-----------------------------------------------------------------------------
(* Each part of the invariant is kept by each kind of move. *)

\* After a refusal or a lost answer only fallbacks and the answer are left.
LEMMA AfterOf ==
  ASSUME CallTypeOK, Refuses \/ Loses
  PROVE  /\ call'.todo \in Seq(Afters(call.fn)) /\ call'.todo \in Seq(Steps(call.fn))
         /\ Step \in Dos(call.fn) /\ Step.name \in EffectsOf(call.fn)
<1>1. Step \in Dos(call.fn)
  BY DEF Refuses, Loses
<1>2. /\ Step.refused \in Seq(Told(call.fn)) \union Seq(Undone(call.fn))
      /\ Step.lost \in Seq(Afters(call.fn)) /\ Step.name \in EffectsOf(call.fn)
  BY <1>1, KindsApart
<1>3. Step.refused \in Seq(Afters(call.fn))
  BY <1>2, AfterSteps
<1>4. call'.todo \in Seq(Afters(call.fn))
  BY <1>2, <1>3 DEF Refuses, Loses
<1>5. call'.todo \in Seq(Steps(call.fn))
  BY <1>4, AfterSteps
<1> QED BY <1>1, <1>2, <1>4, <1>5

\* A failure is not a success.
LEMMA FailuresApart ==
  ASSUME NEW code \in 400..599
  PROVE  code \notin 200..299
<1>1. code \in Int /\ code >= 400
  OBVIOUS
<1>2. \A n \in 200..299 : n \in Int /\ n <= 299
  OBVIOUS
<1>3. ASSUME code \in 200..299 PROVE FALSE
  <2>1. code <= 299
    BY <1>2, <1>3
  <2> QED BY <1>1, <2>1
<1> QED BY <1>3

\* What is left to do when a request failed is harmless.
LEMMA AftersAre ==
  ASSUME NEW fn, NEW s \in Seq(Afters(fn))
  PROVE  /\ Without(s, Settings) /\ Without(s, Successes)
         /\ \A names : names \intersect Fallbacks = {} => Without(s, Deeds(fn, names))
<1>1. \A x \in Afters(fn) : x.op \in {"expect", "answer", "try"}
  BY ZenonT(60) DEF Afters, Plain
<1>2. \A x \in Afters(fn) : x.op = "answer" => x.code \in 400..599
  BY ZenonT(60) DEF Afters, Plain
<1>3. \A x \in Afters(fn) : x.op = "try" => x.name \in Fallbacks
  BY ZenonT(60) DEF Afters, Plain
<1>4. \A x \in Settings : x.op = "setting"
  BY KindsApart
<1>5. \A x \in Successes : x.op = "answer" /\ x.code \in 200..299
  BY DEF Successes, Plain
<1>6. \A x \in Afters(fn) : x \notin Settings /\ x \notin Successes
  <2> SUFFICES ASSUME NEW x \in Afters(fn) PROVE x \notin Settings /\ x \notin Successes
    OBVIOUS
  <2>1. x \notin Settings
    BY <1>1, <1>4
  <2> DEFINE code == x.code
  <2>2. /\ x.op = "answer" => code \in 400..599
        /\ x \in Successes => x.op = "answer" /\ code \in 200..299
    BY <1>2, <1>5
  <2> HIDE DEF code
  <2>3. ASSUME code \in 400..599 PROVE code \notin 200..299
    BY <2>3, FailuresApart
  <2>4. x \notin Successes
    BY <2>2, <2>3
  <2> QED BY <2>1, <2>4
<1>7. ASSUME NEW names, names \intersect Fallbacks = {}, NEW x \in Afters(fn)
      PROVE  x \notin Deeds(fn, names)
  <2>1. \A y \in Deeds(fn, names) : y.op \in {"try", "do"} /\ y.name \in names
    BY KindsApart DEF Deeds
  <2> QED BY <1>1, <1>3, <1>7, <2>1
<1>8. \A i \in 1..Len(s) : s[i] \in Afters(fn)
  OBVIOUS
<1>9. Without(s, Settings) /\ Without(s, Successes)
  BY <1>6, <1>8 DEF Without
<1>10. \A names : names \intersect Fallbacks = {} => Without(s, Deeds(fn, names))
  BY <1>7, <1>8 DEF Without
<1> QED BY <1>9, <1>10

\* Nor does what is undone for a failure on this side tell the caller of a fault of his.
LEMMA UndoneMild ==
  ASSUME NEW fn, NEW x \in Undone(fn)
  PROVE  x \notin Harsh(fn)
<1>1. x \in Afters(fn) /\ x.code \notin 400..499
  BY DEF Undone
<1>2. x.op # "do"
  BY <1>1, ZenonT(60) DEF Afters, Plain
<1> QED BY <1>1, <1>2 DEF Harsh

\* The call keeps its shape.
LEMMA CallTypeKept ==
  ASSUME CallTypeOK, Moves
  PROVE  CallTypeOK'
<1>1. Running /\ SameCall
  BY DEF Moves, Passes, Does, Refuses, Loses, Ends, SameCall
<1>2. call.todo \in Seq(Steps(call.fn)) /\ call.did \subseteq EffectsOf(call.fn)
      /\ call.caller \in Callers /\ call.why = "none"
  BY <1>1 DEF CallTypeOK
<1>3. CASE Passes
  <2>1. call'.todo \in Seq(Steps(call.fn))
    BY <1>1, <1>3, AtStep DEF Passes
  <2> QED BY <1>1, <1>2, <1>3, <2>1 DEF Passes, SameCall, CallTypeOK
<1>4. CASE Does
  <2>1. call'.todo \in Seq(Steps(call.fn))
    BY <1>1, <1>4, AtStep DEF Does
  <2>2. Step.name \in EffectsOf(call.fn)
    BY <1>4, KindsApart DEF Does
  <2> QED BY <1>1, <1>2, <1>4, <2>1, <2>2 DEF Does, SameCall, CallTypeOK
<1>5. CASE Refuses
  BY <1>1, <1>2, <1>5, AfterOf DEF Refuses, SameCall, CallTypeOK
<1>6. CASE Loses
  BY <1>1, <1>2, <1>6, AfterOf DEF Loses, SameCall, CallTypeOK
<1>7. CASE Ends
  <2>1. call'.todo = <<>> /\ <<>> \in Seq(Steps(call.fn))
    BY <1>7 DEF Ends
  <2> QED BY <1>1, <1>2, <1>7, <2>1 DEF Ends, SameCall, CallTypeOK, Running
<1> QED BY <1>3, <1>4, <1>5, <1>6, <1>7 DEF Moves

\* No setting is looked for after an effect.
LEMMA SettingsFirstKept ==
  ASSUME CallTypeOK, SettingsFirst, Moves
  PROVE  SettingsFirst'
<1> DEFINE fn == call.fn
           s == call.todo
           acts == Deeds(fn, EffectsOf(fn) \ {"claim"})
<1>1. Running /\ SameCall /\ s \in Seq(Steps(fn)) /\ s # <<>> /\ Step = Head(s)
  BY DEF Moves, Passes, Does, Refuses, Loses, Ends, SameCall, CallTypeOK, Running, Step
<1>2. NeverAfter(s, acts, Settings) /\ (call.did \subseteq {"claim"} \/ Without(s, Settings))
  BY DEF SettingsFirst
<1>3. /\ NeverAfter(Tail(s), acts, Settings)
      /\ Step \in acts => Without(Tail(s), Settings)
      /\ Without(s, Settings) => Without(Tail(s), Settings)
  BY <1>1, <1>2, NeverAfterTail, WithoutTail
<1>4. CASE Passes
  BY <1>1, <1>2, <1>3, <1>4 DEF Passes, SameCall, SettingsFirst
<1>5. CASE Does
  <2>1. Step.name \in EffectsOf(fn) /\ (Step.name # "claim" => Step \in acts)
    BY <1>5, KindsApart, DeedsAre DEF Does
  <2> QED BY <1>1, <1>2, <1>3, <1>5, <2>1 DEF Does, SameCall, SettingsFirst
<1>6. CASE Refuses \/ Loses
  <2>1. Without(call'.todo, Settings) /\ call'.todo \in Seq(Steps(fn))
    BY <1>6, AfterOf, AftersAre
  <2>2. NeverAfter(call'.todo, acts, Settings)
    BY <2>1, NothingBefore
  <2> QED BY <1>1, <1>6, <2>1, <2>2 DEF Refuses, Loses, SameCall, SettingsFirst
<1>7. CASE Ends
  <2>1. call'.todo = <<>> /\ Without(<<>>, Settings) /\ NeverAfter(<<>>, acts, Settings)
    BY <1>7 DEF Ends, Without, NeverAfter
  <2> QED BY <1>1, <2>1 DEF SameCall, SettingsFirst
<1> QED BY <1>4, <1>5, <1>6, <1>7 DEF Moves

\* No fault of the caller is found after a harmful effect.
LEMMA HarmLastKept ==
  ASSUME CallTypeOK, HarmLast, Moves
  PROVE  HarmLast'
<1> DEFINE fn == call.fn
           s == call.todo
           acts == Deeds(fn, Harmful(fn))
           no == Harsh(fn)
<1>1. Running /\ SameCall /\ s \in Seq(Steps(fn)) /\ s # <<>> /\ Step = Head(s)
  BY DEF Moves, Passes, Does, Refuses, Loses, Ends, SameCall, CallTypeOK, Running, Step
<1>2. CASE call'.lost
  BY <1>2 DEF HarmLast
<1>3. CASE ~call'.lost
  <2>1. ~call.lost
    BY <1>3 DEF Moves, Passes, Does, Refuses, Loses, Ends
  <2>2. NeverAfter(s, acts, no) /\ (call.did \subseteq Residue(fn) \/ Without(s, no))
    BY <2>1 DEF HarmLast
  <2>3. /\ NeverAfter(Tail(s), acts, no)
        /\ Step \in acts => Without(Tail(s), no)
        /\ Without(s, no) => Without(Tail(s), no) /\ Step \notin no
    BY <1>1, <2>2, NeverAfterTail, WithoutTail
  <2>4. CASE Passes
    BY <1>1, <2>2, <2>3, <2>4 DEF Passes, SameCall, HarmLast
  <2>5. CASE Does
    <3>1. Step.name \in EffectsOf(fn)
      BY <2>5, KindsApart DEF Does
    <3>2. Step.name \notin Residue(fn) => Step \in acts
      BY <2>5, <3>1, DeedsAre DEF Does, Harmful
    <3> QED BY <1>1, <2>2, <2>3, <2>5, <3>2 DEF Does, SameCall, HarmLast
  <2>6. CASE Refuses
    <3>1. call'.todo \in Seq(Steps(fn)) /\ call'.todo = Step.refused /\ call'.did = call.did
      BY <2>6, AfterOf DEF Refuses
    <3>2. CASE Step.refused \in Seq(Undone(fn))
      <4>1. \A x \in Undone(fn) : x \notin no
        BY UndoneMild
      <4>2. Without(Step.refused, no)
        BY <3>2, <4>1 DEF Without
      <4>3. NeverAfter(Step.refused, acts, no)
        BY <4>2, <3>1, NothingBefore
      <4> QED BY <1>1, <3>1, <4>2, <4>3 DEF SameCall, HarmLast
    <3>3. CASE Step.refused \notin Seq(Undone(fn))
      <4>1. Step \in no
        <5>1. Step \in Steps(fn) /\ Step.op = "do"
          BY <2>6, KindsApart DEF Refuses, Steps
        <5> QED BY <3>3, <5>1 DEF Harsh
      <4>2. call.did \subseteq Residue(fn)
        BY <2>2, <2>3, <4>1
      <4>3. Step.refused \in Seq(Told(fn))
        BY <2>6, <3>3, KindsApart DEF Refuses
      <4>4. \A x \in Told(fn) : x \notin acts
        <5>1. \A x \in Told(fn) : /\ x.op \in {"expect", "answer", "try"}
                                  /\ x.op = "try" => x.name \in Residue(fn)
          BY ZenonT(60) DEF Told, Afters, Plain
        <5>2. \A x \in acts : x.op \in {"try", "do"} /\ x.name \notin Residue(fn)
          BY KindsApart DEF Deeds, Harmful
        <5> QED BY <5>1, <5>2
      <4>5. Without(Step.refused, acts)
        BY <4>3, <4>4 DEF Without
      <4>6. NeverAfter(Step.refused, acts, no)
        BY <3>1, <4>5, NothingBefore
      <4> QED BY <1>1, <3>1, <4>2, <4>6 DEF SameCall, HarmLast
    <3> QED BY <3>2, <3>3
  <2>7. CASE Loses
    BY <1>3, <2>7 DEF Loses
  <2>8. CASE Ends
    <3>1. call'.todo = <<>> /\ Without(<<>>, no) /\ NeverAfter(<<>>, acts, no)
      BY <2>8 DEF Ends, Without, NeverAfter
    <3> QED BY <1>1, <3>1 DEF SameCall, HarmLast
  <2> QED BY <2>4, <2>5, <2>6, <2>7, <2>8 DEF Moves
<1> QED BY <1>2, <1>3

\* Metered work is not done twice.
LEMMA WorkOnceKept ==
  ASSUME CallTypeOK, WorkOnce, Moves
  PROVE  WorkOnce'
<1> DEFINE fn == call.fn
           s == call.todo
           work == Deeds(fn, MeteredEffects)
<1>1. Running /\ SameCall /\ s \in Seq(Steps(fn)) /\ s # <<>> /\ Step = Head(s)
  BY DEF Moves, Passes, Does, Refuses, Loses, Ends, SameCall, CallTypeOK, Running, Step
<1>2. NeverAfter(s, work, work) /\ (call.did \intersect MeteredEffects = {} \/ Without(s, work))
  BY DEF WorkOnce
<1>3. /\ NeverAfter(Tail(s), work, work)
      /\ Step \in work => Without(Tail(s), work)
      /\ Without(s, work) => Without(Tail(s), work)
  BY <1>1, <1>2, NeverAfterTail, WithoutTail
<1>4. CASE Passes
  BY <1>1, <1>2, <1>3, <1>4 DEF Passes, SameCall, WorkOnce
<1>5. CASE Does
  <2>1. Step.name \in MeteredEffects => Step \in work
    BY <1>5, DeedsAre DEF Does
  <2> QED BY <1>1, <1>2, <1>3, <1>5, <2>1 DEF Does, SameCall, WorkOnce
<1>6. CASE Refuses \/ Loses
  <2>1. MeteredEffects \intersect Fallbacks = {}
    BY DEF MeteredEffects, Fallbacks
  <2>2. Without(call'.todo, work) /\ call'.todo \in Seq(Steps(fn))
    BY <1>6, <2>1, AfterOf, AftersAre
  <2>3. NeverAfter(call'.todo, work, work)
    BY <2>2, NothingBefore
  <2> QED BY <1>1, <2>2, <2>3 DEF SameCall, WorkOnce
<1>7. CASE Ends
  <2>1. call'.todo = <<>> /\ Without(<<>>, work) /\ NeverAfter(<<>>, work, work)
    BY <1>7 DEF Ends, Without, NeverAfter
  <2> QED BY <1>1, <2>1 DEF SameCall, WorkOnce
<1> QED BY <1>4, <1>5, <1>6, <1>7 DEF Moves

\* What is done stays done, and a step whose effect is told apart names it.
LEMMA SuccessLastKept ==
  ASSUME CallTypeOK, SuccessLast, Moves
  PROVE  SuccessLast'
<1> DEFINE fn == call.fn
           s == call.todo
<1>1. Running /\ SameCall /\ s \in Seq(Steps(fn)) /\ s # <<>> /\ Step = Head(s)
  BY DEF Moves, Passes, Does, Refuses, Loses, Ends, SameCall, CallTypeOK, Running, Step
<1>2. call.did \subseteq call'.did
  BY DEF Moves, Passes, Does, Refuses, Loses, Ends
<1>3. ASSUME NEW e \in Purpose(fn)
      PROVE  e \in call'.did \/ Guarded(call'.todo, Successes, DosOf(fn, {e}))
  <2>1. CASE e \in call.did
    BY <1>2, <2>1
  <2>2. CASE Guarded(s, Successes, DosOf(fn, {e}))
    <3>1. Step \notin DosOf(fn, {e}) => Guarded(Tail(s), Successes, DosOf(fn, {e}))
      BY <1>1, <2>2, GuardedTail
    <3>2. Step \in DosOf(fn, {e}) => Step \in Dos(fn) /\ Step.name = e
      BY DEF DosOf
    <3>3. CASE Passes
      BY <3>1, <3>2, <3>3 DEF Passes
    <3>4. CASE Does
      BY <3>1, <3>2, <3>4 DEF Does
    <3>5. CASE Refuses \/ Loses
      <4>1. Without(call'.todo, Successes)
        BY <3>5, AfterOf, AftersAre
      <4> QED BY <4>1, NothingGuarded
    <3>6. CASE Ends
      <4>1. Without(call'.todo, Successes)
        BY <3>6 DEF Ends, Without
      <4> QED BY <4>1, NothingGuarded
    <3> QED BY <3>3, <3>4, <3>5, <3>6 DEF Moves
  <2> QED BY <2>1, <2>2 DEF SuccessLast
<1> QED BY <1>1, <1>3 DEF SuccessLast, SameCall

\* Whatever guards the deeds of a call is passed before the first of them.
LEMMA GuardKept ==
  ASSUME CallTypeOK, Moves, NEW G,
         call.did = {}, Guarded(call.todo, Deeds(call.fn, EffectsOf(call.fn)), G),
         ~(Passes /\ Step \in G)
  PROVE  call'.did = {} /\ Guarded(call'.todo, Deeds(call.fn, EffectsOf(call.fn)), G)
<1> DEFINE fn == call.fn
           s == call.todo
           deeds == Deeds(fn, EffectsOf(fn))
<1>1. Running /\ s \in Seq(Steps(fn)) /\ s # <<>> /\ Step = Head(s)
  BY DEF Moves, Passes, Does, Refuses, Loses, Ends, SameCall, CallTypeOK, Running, Step
<1>2. Step \notin deeds /\ (Step \notin G => Guarded(Tail(s), deeds, G))
  BY <1>1, GuardedTail
<1>3. Step \notin Tries(fn) \union Dos(fn) \/ Passes \/ Ends
  <2>1. \A x \in Tries(fn) \union Dos(fn) : x \in deeds
    <3>1. \A x \in Tries(fn) \union Dos(fn) : x.name \in EffectsOf(fn)
      BY KindsApart
    <3> QED BY <3>1, DeedsAre
  <2> QED BY <1>2, <2>1
<1>4. CASE Passes
  BY <1>2, <1>4 DEF Passes
<1>5. CASE Ends
  <2>1. Guarded(<<>>, deeds, G)
    BY DEF Guarded
  <2> QED BY <1>5, <2>1 DEF Ends
<1> QED BY <1>3, <1>4, <1>5 DEF Moves, Does, Refuses, Loses

\* Nothing is done before the caller is known.
LEMMA AllEntitledKept ==
  ASSUME CallTypeOK, AllEntitled, Moves
  PROVE  AllEntitled'
<1> DEFINE fn == call.fn
           deeds == Deeds(fn, EffectsOf(fn))
<1>1. SameCall
  BY DEF Moves, Passes, Does, Refuses, Loses, Ends
<1>2. fn \notin Machines =>
        call.caller \in Users \/ (call'.did = {} /\ Guarded(call'.todo, deeds, Sessions))
  <2>1. CASE call.caller \in Users
    BY <2>1
  <2>2. CASE ~(call.caller \in Users)
    <3>1. ~(Passes /\ Step \in Sessions)
      BY <2>2 DEF Passes
    <3>2. fn \notin Machines => call.did = {} /\ Guarded(call.todo, deeds, Sessions)
      BY <2>2 DEF AllEntitled, Entitled
    <3> QED BY <3>1, <3>2, GuardKept
  <2> QED BY <2>1, <2>2
<1>3. fn = "instapay-review" =>
        call.caller \in Admins \/ (call'.did = {} /\ Guarded(call'.todo, deeds, AdminSteps))
  <2>1. CASE call.caller \in Admins
    BY <2>1
  <2>2. CASE ~(call.caller \in Admins)
    <3>1. ~(Passes /\ Step \in AdminSteps)
      BY <2>2 DEF Passes
    <3>2. fn = "instapay-review" => call.did = {} /\ Guarded(call.todo, deeds, AdminSteps)
      BY <2>2 DEF AllEntitled, Entitled
    <3> QED BY <3>1, <3>2, GuardKept
  <2> QED BY <2>1, <2>2
<1>4. fn = "delete-account" =>
        call.caller \notin Admins \/ (call'.did = {} /\ Guarded(call'.todo, deeds, NotAdmins))
  <2>1. CASE call.caller \notin Admins
    BY <2>1
  <2>2. CASE ~(call.caller \notin Admins)
    <3>1. ~(Passes /\ Step \in NotAdmins)
      BY <2>2 DEF Passes
    <3>2. fn = "delete-account" => call.did = {} /\ Guarded(call.todo, deeds, NotAdmins)
      BY <2>2 DEF AllEntitled, Entitled
    <3> QED BY <3>1, <3>2, GuardKept
  <2> QED BY <2>1, <2>2
<1>5. fn \notin {"checkout", "instapay-review"} =>
        call.genuine \/ (call'.did = {} /\ Guarded(call'.todo, deeds, Genuines))
  <2>1. CASE call.genuine
    BY <2>1
  <2>2. CASE ~(call.genuine)
    <3>1. ~(Passes /\ Step \in Genuines)
      BY <2>2 DEF Passes
    <3>2. fn \notin {"checkout", "instapay-review"} => call.did = {} /\ Guarded(call.todo, deeds, Genuines)
      BY <2>2 DEF AllEntitled, Entitled
    <3> QED BY <3>1, <3>2, GuardKept
  <2> QED BY <2>1, <2>2
<1> QED BY <1>1, <1>2, <1>3, <1>4, <1>5 DEF AllEntitled, Entitled, SameCall

\* A record is made after its subject.
LEMMA FollowsKept ==
  ASSUME CallTypeOK, Moves, NEW b, NEW a, b \notin Fallbacks, Follows(b, a)
  PROVE  a \in call'.did \/ (b \notin call'.did
                             /\ Guarded(call'.todo, Deeds(call.fn, {b}), DosOf(call.fn, {a})))
<1> DEFINE fn == call.fn
           s == call.todo
           deeds == Deeds(fn, {b})
           G == DosOf(fn, {a})
<1>1. Running /\ s \in Seq(Steps(fn)) /\ s # <<>> /\ Step = Head(s)
  BY DEF Moves, Passes, Does, Refuses, Loses, Ends, SameCall, CallTypeOK, Running, Step
<1>2. CASE a \in call.did
  BY <1>2 DEF Moves, Passes, Does, Refuses, Loses, Ends
<1>3. CASE b \notin call.did /\ Guarded(s, deeds, G)
  <2>1. Step \notin deeds /\ (Step \notin G => Guarded(Tail(s), deeds, G))
    BY <1>1, <1>3, GuardedTail
  <2>2. /\ Step \in Tries(fn) \union Dos(fn) => Step.name # b
        /\ Step \in G => Step.name = a /\ Step \in Dos(fn)
    BY <2>1 DEF Deeds, DosOf
  <2>3. CASE Passes
    BY <1>3, <2>1, <2>2, <2>3 DEF Passes
  <2>4. CASE Does
    BY <1>3, <2>1, <2>2, <2>4 DEF Does
  <2>5. CASE Refuses \/ Loses
    <3>1. {b} \intersect Fallbacks = {}
      OBVIOUS
    <3>2. Without(call'.todo, deeds)
      BY <2>5, <3>1, AfterOf, AftersAre
    <3>3. Guarded(call'.todo, deeds, G)
      BY <3>2, NothingGuarded
    <3>4. b \notin call'.did
      BY <1>3, <2>2, <2>5 DEF Refuses, Loses
    <3> QED BY <3>3, <3>4
  <2>6. CASE Ends
    <3>1. Guarded(<<>>, deeds, G)
      BY DEF Guarded
    <3> QED BY <1>3, <2>6, <3>1 DEF Ends
  <2> QED BY <2>3, <2>4, <2>5, <2>6 DEF Moves
<1> QED BY <1>2, <1>3 DEF Follows

\* Subjects come before their records.
LEMMA SubjectsFirstKept ==
  ASSUME CallTypeOK, SubjectsFirst, Moves
  PROVE  SubjectsFirst'
<1>1. SameCall
  BY DEF Moves, Passes, Does, Refuses, Loses, Ends
<1>2. "proof" \notin Fallbacks /\ "sent" \notin Fallbacks /\ "persisted" \notin Fallbacks
  BY DEF Fallbacks
<1>3. Follows("proof", "file")'
  BY <1>1, <1>2, FollowsKept DEF SubjectsFirst, Follows, SameCall
<1>4. Follows("sent", "mail")'
  BY <1>1, <1>2, FollowsKept DEF SubjectsFirst, Follows, SameCall
<1>5. Follows("persisted", "registered")'
  BY <1>1, <1>2, FollowsKept DEF SubjectsFirst, Follows, SameCall
<1> QED BY <1>3, <1>4, <1>5 DEF SubjectsFirst

\* No window is the one of a limiter that was not asked.
LEMMA WindowsAsked ==
  ASSUME NEW window \in Windows
  PROVE  window \in Nat /\ window # NotAsked
<1>1. PICK t \in Epoch..MaxNow, kind \in Kinds : window = t \div WindowSeconds[kind]
  BY DEF Windows
<1>2. WindowSeconds[kind] \in Nat /\ WindowSeconds[kind] > 0
  BY RateAssumption
<1>3. t \in Nat
  BY RateAssumption
<1> HIDE DEF NotAsked
<1>4. window \in Nat
  BY <1>1, <1>2, <1>3
<1> QED BY <1>4 DEF NotAsked

\* Metered work waits for the limiter.
LEMMA AskedFirstKept ==
  ASSUME CallTypeOK, AskedFirst, Moves
  PROVE  AskedFirst'
<1> DEFINE fn == call.fn
           s == call.todo
           work == Deeds(fn, MeteredEffects)
<1>1. Running /\ SameCall /\ s \in Seq(Steps(fn)) /\ s # <<>> /\ Step = Head(s) /\ fn \in Functions
  BY DEF Moves, Passes, Does, Refuses, Loses, Ends, SameCall, CallTypeOK, CallType, Running, Step
<1>2. CASE call.window # NotAsked
  <2>1. call'.window # NotAsked
    BY <1>2, WindowsAsked DEF Moves, Passes, Does, Refuses, Loses, Ends
  <2> QED BY <1>1, <1>2, <2>1 DEF AskedFirst, SameCall
<1>3. CASE call.window = NotAsked
  <2>1. call.did \intersect MeteredEffects = {} /\ Guarded(s, work, Asks(fn))
    BY <1>3 DEF AskedFirst
  <2>2. Step \notin work /\ (Step \notin Asks(fn) => Guarded(Tail(s), work, Asks(fn)))
    BY <1>1, <2>1, GuardedTail
  <2>3. CASE Passes /\ Step \in Asks(fn)
    <3>1. Step.name \in Meters(fn)
      BY <2>3, KindsApart
    <3>2. Meters(fn) = {Kind(fn)}
      BY <1>1, <3>1, MeterOf
    <3>3. call'.window # NotAsked
      BY <2>3, WindowsAsked DEF Passes
    <3> QED BY <1>1, <3>2, <3>3 DEF AskedFirst, SameCall
  <2>4. CASE Passes /\ Step \notin Asks(fn)
    BY <1>1, <1>3, <2>1, <2>2, <2>4 DEF Passes, AskedFirst, SameCall
  <2>5. Step \in Tries(fn) \union Dos(fn) => Step.name \notin MeteredEffects
    BY <2>2, DeedsAre
  <2>6. CASE Does
    <3>1. Step \notin Asks(fn)
      <4>1. \A x \in Asks(fn) : x.op = "metered"
        BY KindsApart
      <4>2. \A x \in Tries(fn) \union Dos(fn) : x.op \in {"try", "do"}
        BY KindsApart
      <4> QED BY <2>6, <4>1, <4>2 DEF Does
    <3> QED BY <1>1, <1>3, <2>1, <2>2, <2>5, <2>6, <3>1 DEF Does, AskedFirst, SameCall
  <2>7. CASE Refuses \/ Loses
    <3>1. MeteredEffects \intersect Fallbacks = {}
      BY DEF MeteredEffects, Fallbacks
    <3>2. Without(call'.todo, work)
      BY <2>7, <3>1, AfterOf, AftersAre
    <3>3. Guarded(call'.todo, work, Asks(fn))
      BY <3>2, NothingGuarded
    <3>4. call'.did \intersect MeteredEffects = {} /\ call'.window = NotAsked
      BY <1>3, <2>1, <2>5, <2>7 DEF Refuses, Loses
    <3> QED BY <1>1, <3>3, <3>4 DEF AskedFirst, SameCall
  <2>8. CASE Ends
    <3>1. Guarded(<<>>, work, Asks(fn))
      BY DEF Guarded
    <3> QED BY <1>1, <1>3, <2>1, <2>8, <3>1 DEF Ends, AskedFirst, SameCall
  <2> QED BY <2>3, <2>4, <2>6, <2>7, <2>8 DEF Moves
<1> QED BY <1>2, <1>3

\* What holds of a call that came to its end.
Concluded == MisconfiguredChangesNothing /\ RefusalsHarmless /\ DoneMeansDone

\* Only paymob-initiate claims.
LEMMA OnlyOneClaims ==
  ASSUME NEW fn \in Functions, fn # "paymob-initiate"
  PROVE  "claim" \notin EffectsOf(fn)
  BY DEF Functions, EffectsOf, Purpose

\* What holds of a call that ended.
LEMMA ConcludedKept ==
  ASSUME CallTypeOK, SettingsFirst, HarmLast, SuccessLast, Moves
  PROVE  Concluded'
<1> DEFINE fn == call.fn
           s == call.todo
<1>1. /\ Running /\ SameCall /\ s \in Seq(Steps(fn)) /\ s # <<>> /\ Step = Head(s)
      /\ fn \in Functions /\ call.why = "none" /\ call.did \subseteq EffectsOf(fn)
  BY DEF Moves, Passes, Does, Refuses, Loses, Ends, SameCall, CallTypeOK, CallType, Running, Step
<1>2. CASE Passes \/ Does \/ Refuses \/ Loses
  <2>1. call'.why = "none"
    BY <1>1, <1>2 DEF Passes, Does, Refuses, Loses
  <2>2. ~Answered'
    BY <2>1 DEF Answered
  <2> QED BY <2>2 DEF Concluded, MisconfiguredChangesNothing, RefusalsHarmless, DoneMeansDone
<1>3. CASE Ends
  <2>1. MisconfiguredChangesNothing'
    <3>1. CASE call'.why = "setting"
      <4>1. Step \in Settings
        BY <1>3, <3>1 DEF Ends
      <4>2. ~Without(s, Settings)
        BY <1>1, <4>1, WithoutTail
      <4>3. call.did \subseteq {"claim"}
        BY <4>2 DEF SettingsFirst
      <4>4. fn # "paymob-initiate" => call.did = {}
        BY <1>1, <4>3, OnlyOneClaims
      <4> QED BY <1>1, <1>3, <4>3, <4>4 DEF Ends, SameCall, MisconfiguredChangesNothing
    <3>2. CASE call'.why # "setting"
      BY <3>2 DEF MisconfiguredChangesNothing
    <3> QED BY <3>1, <3>2
  <2>2. RefusalsHarmless'
    <3>1. CASE call'.code \in 400..499 /\ ~call'.lost
      <4>1. Step \in Harsh(fn) /\ ~call.lost
        BY <1>3, <3>1 DEF Ends
      <4>2. ~Without(s, Harsh(fn))
        BY <1>1, <4>1, WithoutTail
      <4>3. call.did \subseteq Residue(fn)
        BY <4>1, <4>2 DEF HarmLast
      <4> QED BY <1>1, <1>3, <4>3 DEF Ends, SameCall, RefusalsHarmless
    <3>2. CASE ~(call'.code \in 400..499 /\ ~call'.lost)
      BY <3>2 DEF RefusalsHarmless
    <3> QED BY <3>1, <3>2
  <2>3. DoneMeansDone'
    <3>1. CASE call'.code \in 200..299 /\ call'.why = "answer"
      <4>1. Step \in Successes
        BY <1>3, <3>1 DEF Ends
      <4>2. \A e \in Purpose(fn) : ~Guarded(s, Successes, DosOf(fn, {e}))
        BY <1>1, <4>1, GuardedTail
      <4>3. Purpose(fn) \subseteq call.did
        BY <4>2 DEF SuccessLast
      <4> QED BY <1>1, <1>3, <4>3 DEF Ends, SameCall, DoneMeansDone
    <3>2. CASE ~(call'.code \in 200..299 /\ call'.why = "answer")
      BY <3>2 DEF DoneMeansDone
    <3> QED BY <3>1, <3>2
  <2> QED BY <2>1, <2>2, <2>3 DEF Concluded
<1> QED BY <1>2, <1>3 DEF Moves

-----------------------------------------------------------------------------
CallInv ==
    /\ CallTypeOK
    /\ SettingsFirst /\ HarmLast /\ SuccessLast
    /\ AllEntitled /\ SubjectsFirst
    /\ AskedFirst /\ WorkOnce
    /\ Concluded

\* A call that begins has all its program before it.
LEMMA FreshCall ==
  ASSUME Begins
  PROVE  CallInv'
<1>1. PICK fn \in Functions, caller \in Callers, genuine \in BOOLEAN :
        call' = [NoCall EXCEPT !.fn = fn, !.caller = caller, !.genuine = genuine,
                               !.todo = Program(fn)]
  BY DEF Begins
<1>2. /\ call'.fn = fn /\ call'.caller = caller /\ call'.genuine = genuine
      /\ call'.todo = Program(fn) /\ call'.did = {} /\ call'.lost = FALSE
      /\ call'.window = NotAsked /\ call'.code = 0 /\ call'.why = "none"
  BY <1>1 DEF NoCall
<1>3. Sound(fn) /\ Ordered(fn, Program(fn))
  BY AllSound DEF Sound
<1>4. CallTypeOK'
  <2>1. Program(fn) \in Seq(Steps(fn)) /\ Program(fn) \in Todos
    BY <1>3 DEF Ordered, Todos
  <2>2. call' \in CallType
    BY <1>1, <2>1 DEF NoCall, CallType, Reasons
  <2> QED BY <1>2, <2>1, <2>2 DEF CallTypeOK
<1>5. SettingsFirst' /\ HarmLast' /\ WorkOnce'
  BY <1>2, <1>3 DEF Ordered, SettingsFirst, HarmLast, WorkOnce
<1>6. SuccessLast'
  BY <1>2, <1>3 DEF Ordered, SuccessLast
<1>7. AllEntitled'
  BY <1>2, <1>3 DEF Sound, AllEntitled, Entitled
<1>8. SubjectsFirst'
  <2>1. /\ Guarded(Program(fn), Deeds(fn, {"proof"}), DosOf(fn, {"file"}))
        /\ Guarded(Program(fn), Deeds(fn, {"sent"}), DosOf(fn, {"mail"}))
        /\ Guarded(Program(fn), Deeds(fn, {"persisted"}), DosOf(fn, {"registered"}))
    BY <1>3 DEF Ordered, Subjects
  <2> QED BY <1>2, <2>1 DEF SubjectsFirst, Follows
<1>9. AskedFirst'
  BY <1>2, <1>3 DEF Sound, AskedFirst
<1>10. Concluded'
  BY <1>2 DEF Concluded, MisconfiguredChangesNothing, RefusalsHarmless, DoneMeansDone, Answered
<1> QED BY <1>4, <1>5, <1>6, <1>7, <1>8, <1>9, <1>10 DEF CallInv

\* Before the first call there is nothing to do.
LEMMA FirstCall ==
  ASSUME call = NoCall
  PROVE  CallInv
<1>1. /\ call.fn = "checkout" /\ call.todo = <<>> /\ call.did = {} /\ call.lost = FALSE
      /\ call.window = NotAsked /\ call.code = 0 /\ call.why = "none"
  BY DEF NoCall
<1>2. "checkout" \in Functions
  BY DEF Functions
<1>3. CallTypeOK
  <2>1. <<>> \in Seq(Steps("checkout"))
    OBVIOUS
  <2>2. <<>> \in Todos
    BY <1>2, <2>1 DEF Todos
  <2>3. call \in CallType
    BY <1>2, <2>2 DEF NoCall, CallType, Reasons
  <2> QED BY <1>1, <2>1, <2>3 DEF CallTypeOK, Running
<1>4. \A B : Without(<<>>, B)
  BY DEF Without
<1>5. \A A, B : NeverAfter(<<>>, A, B) /\ Guarded(<<>>, A, B)
  BY DEF NeverAfter, Guarded
<1>6. SettingsFirst /\ HarmLast /\ WorkOnce /\ SuccessLast
  BY <1>1, <1>4, <1>5 DEF SettingsFirst, HarmLast, WorkOnce, SuccessLast
<1>7. AllEntitled /\ SubjectsFirst /\ AskedFirst
  BY <1>1, <1>5 DEF AllEntitled, Entitled, SubjectsFirst, Follows, AskedFirst
<1>8. Concluded
  BY <1>1 DEF Concluded, MisconfiguredChangesNothing, RefusalsHarmless, DoneMeansDone, Answered
<1> QED BY <1>3, <1>6, <1>7, <1>8 DEF CallInv

\* Every step keeps what holds of the call.
LEMMA CallStep ==
  ASSUME CallInv, now \in Epoch..MaxNow, [ENext]_allVars
  PROVE  CallInv'
<1>1. CASE Begins
  BY <1>1, FreshCall
<1>2. CASE Moves
  BY <1>2, CallTypeKept, SettingsFirstKept, HarmLastKept, WorkOnceKept, SuccessLastKept,
     AllEntitledKept, SubjectsFirstKept, AskedFirstKept, ConcludedKept DEF CallInv
<1>3. CASE call' = call
  <2>1. CallTypeOK' /\ SettingsFirst' /\ HarmLast' /\ SuccessLast'
    BY <1>3 DEF CallInv, CallTypeOK, Running, SettingsFirst, HarmLast, SuccessLast
  <2>2. AllEntitled' /\ SubjectsFirst' /\ AskedFirst' /\ WorkOnce'
    BY <1>3 DEF CallInv, AllEntitled, Entitled, SubjectsFirst, Follows, AskedFirst, WorkOnce
  <2>3. Concluded'
    BY <1>3, ZenonT(60)
    DEF CallInv, Concluded, MisconfiguredChangesNothing, RefusalsHarmless, DoneMeansDone,
        Answered, Running
  <2> QED BY <2>1, <2>2, <2>3 DEF CallInv
<1>4. QED
  BY <1>1, <1>2, <1>3, CallMoves DEF CallInv

-----------------------------------------------------------------------------
(* The metered work, and the limiter it was paid from. *)

MeterTypeOK == worked \in [Rows -> Nat] /\ opened \in Nat

EdgeInv == RateInv /\ CallInv /\ MeterTypeOK /\ WorkCovered

\* The row a running call takes from and works for.
LEMMA RowOf ==
  ASSUME NEW kind \in Kinds, NEW caller \in Callers, NEW window \in Windows
  PROVE  <<kind, caller, window>> \in Rows
  BY DEF Rows

\* What is due is at most one piece of work.
LEMMA DueIs ==
  ASSUME NEW row
  PROVE  Due(row) \in {0, 1} /\ Due(row)' \in {0, 1}
  BY DEF Due

\* A take leaves what was granted, or grants one more to its caller.
LEMMA TakeGrants ==
  ASSUME RateTypeOK, NEW kind \in Kinds, NEW caller \in Callers, NEW id \in Callers,
         Take(kind, caller, id)
  PROVE  /\ now' = now
         /\ \/ granted' = granted
            \/ /\ Within(kind, <<kind, Bucket(caller, id), Window(kind)>>)
               /\ granted' = [granted EXCEPT ![<<kind, caller, Window(kind)>>] = @ + 1]
         /\ Within(kind, <<kind, Bucket(caller, id), Window(kind)>>) =>
              granted' = [granted EXCEPT ![<<kind, caller, Window(kind)>>] = @ + 1]
         /\ \A row \in Rows : granted'[row] \in Nat /\ granted'[row] >= granted[row]
<1> DEFINE own == <<kind, caller, Window(kind)>>
           row0 == <<kind, Bucket(caller, id), Window(kind)>>
<1>1. granted \in [Rows -> Nat]
  BY DEF RateTypeOK
<1>2. now' = now
  BY DEF Take
<1>3. CASE Within(kind, row0)
  <2>1. granted' = [granted EXCEPT ![own] = @ + 1]
    BY <1>3 DEF Take
  <2> HIDE DEF own, row0
  <2>2. \A row \in Rows : granted'[row] = granted[row] \/ granted'[row] = granted[row] + 1
    BY <1>1, <2>1
  <2>3. \A row \in Rows : granted'[row] \in Nat /\ granted'[row] >= granted[row]
    BY <1>1, <2>2
  <2> QED BY <1>2, <1>3, <2>1, <2>3 DEF own, row0
<1>4. CASE ~Within(kind, row0)
  <2>1. granted' = granted
    BY <1>4 DEF Take
  <2> QED BY <1>1, <1>2, <1>4, <2>1
<1> QED BY <1>3, <1>4

\* Nothing is covered less when more is granted and nothing more is due.
LEMMA CoveredStill ==
  ASSUME RateTypeOK, MeterTypeOK, WorkCovered, worked' = worked, opened' = opened,
         \A row \in Rows : granted'[row] \in Nat /\ granted'[row] >= granted[row],
         \A row \in Rows : Due(row)' <= Due(row)
  PROVE  WorkCovered'
<1> SUFFICES ASSUME NEW row \in Rows
             PROVE  worked[row] + Due(row)' <= granted'[row] + opened
  BY DEF WorkCovered
<1>1. worked[row] \in Nat /\ opened \in Nat /\ granted[row] \in Nat
  BY DEF RateTypeOK, MeterTypeOK
<1>2. worked[row] + Due(row) <= granted[row] + opened
  BY DEF WorkCovered
<1>3. Due(row) \in {0, 1} /\ Due(row)' \in {0, 1} /\ Due(row)' <= Due(row)
  BY DueIs
<1>4. granted'[row] \in Nat /\ granted'[row] >= granted[row]
  OBVIOUS
<1> QED BY <1>1, <1>2, <1>3, <1>4

\* A call that only goes on, or stops, makes nothing due.
LEMMA NotMoreDue ==
  ASSUME Moves, call'.window = call.window, NEW row
  PROVE  Due(row)' <= Due(row)
<1>1. Running /\ SameCall /\ call.did \subseteq call'.did
  BY DEF Moves, Passes, Does, Refuses, Loses, Ends, SameCall
<1>2. Due(row)' = 1 => Due(row) = 1
  BY <1>1 DEF Due, SameCall
<1> QED BY <1>2, DueIs

\* A limiter that is asked covers the work behind it: it granted the take, or it is
\* counted as opened.
LEMMA AskCovers ==
  ASSUME EdgeInv, AskLimiter
  PROVE  RateInv' /\ MeterTypeOK' /\ WorkCovered'
<1> DEFINE kind == Step.name
           own == <<kind, call.caller, Window(kind)>>
<1>1. RateTypeOK /\ CallTypeOK /\ now \in Epoch..MaxNow /\ worked \in [Rows -> Nat] /\ opened \in Nat
      /\ granted \in [Rows -> Nat]
  BY DEF EdgeInv, RateInv, RateTypeOK, CallInv, MeterTypeOK
<1>2. /\ kind = Kind(call.fn) /\ kind \in Kinds
      /\ (Passes /\ call'.window = Window(kind)) \/ Ends
  BY <1>1, LimiterMoves
<1>3. call.caller \in Callers /\ worked' = worked
  BY <1>1 DEF AskLimiter, At, CallTypeOK
<1>4. Take(kind, call.caller, call.caller) \/ UNCHANGED vars
  BY DEF AskLimiter
<1>5. RateInv'
  <2>1. CASE Take(kind, call.caller, call.caller)
    BY <1>2, <1>3, <2>1, TakeKeeps DEF EdgeInv
  <2>2. CASE UNCHANGED vars
    BY <2>2, RateStep DEF EdgeInv
  <2> QED BY <1>4, <2>1, <2>2
<1>6. \A row \in Rows : granted'[row] \in Nat /\ granted'[row] >= granted[row]
  <2>1. CASE Take(kind, call.caller, call.caller)
    BY <1>1, <1>2, <1>3, <2>1, TakeGrants
  <2>2. CASE UNCHANGED vars
    <3>1. granted' = granted
      BY <2>2 DEF vars
    <3> QED BY <1>1, <3>1
  <2> QED BY <1>4, <2>1, <2>2
<1>7. opened' = opened \/ opened' = opened + 1
  BY DEF AskLimiter
<1>8. MeterTypeOK'
  BY <1>1, <1>3, <1>7 DEF MeterTypeOK
<1>9. WorkCovered'
  <2> SUFFICES ASSUME NEW row \in Rows
               PROVE  worked[row] + Due(row)' <= granted'[row] + opened'
    BY <1>3 DEF WorkCovered
  <2>1. worked[row] \in Nat /\ granted[row] \in Nat /\ granted'[row] \in Nat
        /\ granted'[row] >= granted[row] /\ Due(row) \in {0, 1} /\ Due(row)' \in {0, 1}
    BY <1>1, <1>6, DueIs
  <2>2. worked[row] + Due(row) <= granted[row] + opened
    BY DEF EdgeInv, WorkCovered
  <2>3. CASE opened' = opened + 1
    BY <1>1, <2>1, <2>2, <2>3
  <2>4. CASE Due(row)' = 0
    BY <1>1, <1>7, <2>1, <2>2, <2>4
  <2>5. CASE Due(row)' = 1 /\ opened' = opened
    <3>1. call'.todo # <<>> /\ row = <<Kind(call'.fn), call'.caller, call'.window>>
      BY <2>5 DEF Due, Running
    <3>2. ~Ends
      BY <3>1 DEF Ends
    <3>3. row = own
      BY <1>2, <3>1, <3>2 DEF Passes, SameCall
    <3>4. opened + 1 # opened
      BY <1>1
    <3>5. /\ Take(kind, call.caller, call.caller)
          /\ IF Within(kind, own)
             THEN call' = [call EXCEPT !.todo = Tail(@), !.window = Window(kind)]
             ELSE Finish(429, "limiter")
      BY <2>5, <3>4 DEF AskLimiter
    <3>6. Within(kind, own)
      <4>1. ~Finish(429, "limiter")
        BY <1>1, <3>1, ZenonT(60) DEF Finish, CallTypeOK, CallType
      <4> QED BY <3>5, <4>1
    <3>7. Bucket(call.caller, call.caller) = call.caller
      BY DEF Bucket
    <3>8. granted' = [granted EXCEPT ![own] = @ + 1]
      BY <1>1, <1>2, <1>3, <3>5, <3>6, <3>7, TakeGrants
    <3> HIDE DEF own
    <3>9. granted'[row] = granted[row] + 1
      BY <1>1, <3>3, <3>8
    <3> QED BY <1>1, <2>1, <2>2, <2>5, <3>9
  <2> QED BY <1>7, <2>1, <2>3, <2>4, <2>5
<1> QED BY <1>5, <1>8, <1>9

\* Metered work is done once for a call, in the window the limiter was asked in.
LEMMA WorkCovers ==
  ASSUME EdgeInv, Request
  PROVE  MeterTypeOK' /\ WorkCovered'
<1> DEFINE row0 == <<Kind(call.fn), call.caller, call.window>>
<1>1. /\ RateTypeOK /\ CallTypeOK /\ worked \in [Rows -> Nat] /\ opened \in Nat
      /\ granted \in [Rows -> Nat] /\ granted' = granted /\ opened' = opened
  BY DEF EdgeInv, RateInv, RateTypeOK, CallInv, MeterTypeOK, Request, vars
<1>2. /\ Running /\ Step \in Dos(call.fn)
      /\ \/ Refuses /\ worked' = worked
         \/ Does /\ Work(Step.name)
         \/ Loses /\ Work(Step.name)
  BY <1>1, RequestMoves
<1>3. \A row : Due(row)' <= Due(row)
  <2>1. Moves /\ call'.window = call.window
    BY <1>2 DEF Moves, Does, Refuses, Loses
  <2> QED BY <2>1, NotMoreDue
<1>4. \A row \in Rows : granted'[row] \in Nat /\ granted'[row] >= granted[row]
  BY <1>1
<1>5. CASE worked' = worked
  <2>1. WorkCovered'
    BY <1>1, <1>3, <1>4, <1>5, CoveredStill DEF EdgeInv
  <2> QED BY <1>1, <1>5, <2>1 DEF MeterTypeOK
<1>6. CASE Work(Step.name) /\ Step.name \notin MeteredEffects
  <2>1. worked' = worked
    BY <1>6 DEF Work
  <2> QED BY <1>5, <2>1
<1>7. CASE (Does \/ Loses) /\ Work(Step.name) /\ Step.name \in MeteredEffects
  <2>1. /\ call.todo \in Seq(Steps(call.fn)) /\ call.todo # <<>> /\ Step = Head(call.todo)
        /\ Step \in Deeds(call.fn, MeteredEffects) /\ call.caller \in Callers
        /\ call.fn \in Functions
    BY <1>1, <1>2, <1>7, DeedsAre DEF CallTypeOK, CallType, Running, Step
  <2>2. call.did \intersect MeteredEffects = {}
    <3>1. ~Without(call.todo, Deeds(call.fn, MeteredEffects))
      BY <2>1, WithoutTail
    <3> QED BY <3>1 DEF EdgeInv, CallInv, WorkOnce
  <2>3. call.window # NotAsked
    <3>1. ~Guarded(call.todo, Deeds(call.fn, MeteredEffects), Asks(call.fn))
      BY <2>1, GuardedTail
    <3> QED BY <3>1 DEF EdgeInv, CallInv, AskedFirst
  <2>4. Meters(call.fn) = {Kind(call.fn)}
    BY <2>3 DEF EdgeInv, CallInv, AskedFirst
  <2>5. row0 \in Rows
    <3>1. Kind(call.fn) \in Kinds
      BY <2>1, <2>4, MeterOf
    <3>2. call.window \in Windows
      BY <1>1, <2>3 DEF CallTypeOK, CallType
    <3> QED BY <2>1, <3>1, <3>2, RowOf
  <2>6. worked' = [worked EXCEPT ![row0] = @ + 1]
    BY <1>7, <2>3 DEF Work
  <2>7. Due(row0) = 1
    BY <1>2, <2>2, <2>3 DEF Due
  <2>8. \A row : Due(row)' = 0
    <3>1. call'.did \intersect MeteredEffects # {}
      BY <1>7 DEF Does, Loses
    <3> QED BY <3>1 DEF Due
  <2> HIDE DEF row0
  <2>9. MeterTypeOK'
    BY <1>1, <2>5, <2>6 DEF MeterTypeOK
  <2>10. WorkCovered'
    <3> SUFFICES ASSUME NEW row \in Rows
                 PROVE  worked'[row] + 0 <= granted[row] + opened
      BY <1>1, <2>8 DEF WorkCovered
    <3>1. worked[row] \in Nat /\ granted[row] \in Nat /\ Due(row) \in {0, 1}
      BY <1>1, DueIs
    <3>2. worked[row] + Due(row) <= granted[row] + opened
      BY DEF EdgeInv, WorkCovered
    <3>3. CASE row = row0
      <4>1. worked'[row] = worked[row] + 1 /\ Due(row) = 1
        BY <1>1, <2>5, <2>6, <2>7, <3>3
      <4> QED BY <1>1, <3>1, <3>2, <4>1
    <3>4. CASE row # row0
      <4>1. worked'[row] = worked[row]
        BY <1>1, <2>5, <2>6, <3>4
      <4> QED BY <1>1, <3>1, <3>2, <4>1
    <3> QED BY <3>3, <3>4
  <2> QED BY <2>9, <2>10
<1> QED BY <1>2, <1>5, <1>6, <1>7

\* The other steps of a call neither take nor work.
LEMMA OthersCover ==
  ASSUME EdgeInv,
         CheckSetting \/ CheckCaller \/ CheckInput \/ BestEffort \/ Respond \/ Kill
  PROVE  RateInv' /\ MeterTypeOK' /\ WorkCovered'
<1>1. /\ RateTypeOK /\ CallTypeOK /\ MeterTypeOK /\ granted \in [Rows -> Nat]
      /\ UNCHANGED vars /\ worked' = worked /\ opened' = opened
  BY DEF EdgeInv, RateInv, RateTypeOK, CallInv, CheckSetting, CheckCaller, CheckInput, BestEffort,
         Respond, Kill
<1>2. Moves
  BY <1>1, SettingMoves, CallerMoves, InputMoves, BestEffortMoves, RespondMoves, KillMoves DEF Moves
<1>3. call'.window = call.window
  <2>1. CASE At("metered")
    <3>1. Kill
      BY <2>1 DEF CheckSetting, CheckCaller, CheckInput, BestEffort, Respond, At
    <3>2. Ends
      BY <1>1, <3>1, KillMoves
    <3> QED BY <3>2 DEF Ends
  <2>2. CASE ~At("metered")
    <3>1. Step \notin Asks(call.fn)
      <4>1. Running /\ Step.op # "metered"
        BY <1>2, <2>2 DEF Moves, Passes, Does, Refuses, Loses, Ends, SameCall, At, Step
      <4> QED BY <1>1, <4>1, AtStep, StepKinds
    <3> QED BY <1>2, <3>1 DEF Moves, Passes, Does, Refuses, Loses, Ends
  <2> QED BY <2>1, <2>2
<1>4. \A row : Due(row)' <= Due(row)
  BY <1>2, <1>3, NotMoreDue
<1>5. \A row \in Rows : granted'[row] \in Nat /\ granted'[row] >= granted[row]
  BY <1>1 DEF vars
<1>6. WorkCovered'
  BY <1>1, <1>4, <1>5, CoveredStill DEF EdgeInv
<1>7. RateInv'
  BY <1>1, RateStep DEF EdgeInv
<1> QED BY <1>1, <1>6, <1>7 DEF MeterTypeOK

\* The invariant holds at the start.
LEMMA EdgeStart == EInit => EdgeInv
<1> SUFFICES ASSUME EInit PROVE EdgeInv
  OBVIOUS
<1>1. RateInv
  BY RateStart DEF EInit
<1>2. CallInv
  BY FirstCall DEF EInit
<1>3. MeterTypeOK
  BY DEF EInit, MeterTypeOK
<1>4. WorkCovered
  <2> SUFFICES ASSUME NEW row \in Rows PROVE worked[row] + Due(row) <= granted[row] + opened
    BY DEF WorkCovered
  <2>1. worked[row] = 0 /\ granted[row] = 0 /\ opened = 0
    BY DEF EInit, Init
  <2>2. Due(row) = 0
    BY DEF EInit, NoCall, Due, Running
  <2> QED BY <2>1, <2>2
<1> QED BY <1>1, <1>2, <1>3, <1>4 DEF EdgeInv

\* Every step keeps the invariant.
LEMMA EdgeStep == EdgeInv /\ [ENext]_allVars => EdgeInv'
<1> SUFFICES ASSUME EdgeInv, [ENext]_allVars PROVE EdgeInv'
  OBVIOUS
<1>1. /\ RateTypeOK /\ CallTypeOK /\ MeterTypeOK /\ now \in Epoch..MaxNow
      /\ granted \in [Rows -> Nat]
  BY DEF EdgeInv, RateInv, RateTypeOK, CallInv
<1>2. CallInv'
  BY <1>1, CallStep DEF EdgeInv
<1>3. ASSUME UNCHANGED <<vars, worked, opened>>, \A row \in Rows : Due(row)' <= Due(row)
      PROVE  RateInv' /\ MeterTypeOK' /\ WorkCovered'
  <2>1. \A row \in Rows : granted'[row] \in Nat /\ granted'[row] >= granted[row]
    BY <1>1, <1>3 DEF vars
  <2>2. WorkCovered'
    BY <1>1, <1>3, <2>1, CoveredStill DEF EdgeInv
  <2>3. RateInv'
    BY <1>3, RateStep DEF EdgeInv
  <2> QED BY <1>1, <1>3, <2>2, <2>3 DEF MeterTypeOK
<1>4. CASE \E fn \in Functions, caller \in Callers, genuine \in BOOLEAN : Begin(fn, caller, genuine)
  <2>1. call'.window = NotAsked
    BY <1>4 DEF Begin, NoCall
  <2>2. \A row : Due(row)' <= Due(row)
    <3>1. \A row : Due(row)' = 0
      BY <2>1 DEF Due
    <3> QED BY <3>1, DueIs
  <2>3. UNCHANGED <<vars, worked, opened>>
    BY <1>4 DEF Begin
  <2> QED BY <1>2, <1>3, <2>2, <2>3 DEF EdgeInv
<1>5. CASE CheckSetting \/ CheckCaller \/ CheckInput \/ BestEffort \/ Respond \/ Kill
  BY <1>2, <1>5, OthersCover DEF EdgeInv
<1>6. CASE AskLimiter
  BY <1>2, <1>6, AskCovers DEF EdgeInv
<1>7. CASE Request
  <2>1. RateInv'
    BY <1>7, RateStep DEF Request, EdgeInv
  <2> QED BY <1>2, <1>7, <2>1, WorkCovers DEF EdgeInv
<1>8. CASE \E ask \in Directs : TakeDirectly(ask[1], ask[2], ask[3])
  <2>1. PICK ask \in Directs : TakeDirectly(ask[1], ask[2], ask[3])
    BY <1>8
  <2>2. ask[1] \in Kinds /\ ask[2] \in Callers /\ ask[3] \in Callers
    BY EdgeAssumption DEF Callers
  <2>3. Take(ask[1], ask[2], ask[3]) /\ UNCHANGED <<call, worked, opened>>
    BY <2>1 DEF TakeDirectly
  <2>4. RateInv'
    BY <2>2, <2>3, TakeKeeps DEF EdgeInv
  <2>5. \A row \in Rows : granted'[row] \in Nat /\ granted'[row] >= granted[row]
    BY <1>1, <2>2, <2>3, TakeGrants
  <2>6. \A row \in Rows : Due(row)' <= Due(row)
    <3>1. \A row : Due(row)' = Due(row)
      BY <2>3 DEF Due, Running
    <3> QED BY <3>1, DueIs
  <2>7. WorkCovered'
    BY <1>1, <2>3, <2>5, <2>6, CoveredStill DEF EdgeInv
  <2>8. MeterTypeOK'
    BY <1>1, <2>3 DEF MeterTypeOK
  <2> QED BY <1>2, <2>4, <2>7, <2>8 DEF EdgeInv
<1>9. CASE ETick \/ UNCHANGED allVars
  <2>1. [Next]_vars /\ UNCHANGED <<call, worked, opened>> /\ granted' = granted
    BY <1>9 DEF ETick, Tick, Next, allVars, edgeVars, vars
  <2>2. RateInv'
    BY <2>1, RateStep DEF EdgeInv
  <2>3. \A row \in Rows : Due(row)' <= Due(row)
    <3>1. \A row : Due(row)' = Due(row)
      BY <2>1 DEF Due, Running
    <3> QED BY <3>1, DueIs
  <2>4. \A row \in Rows : granted'[row] \in Nat /\ granted'[row] >= granted[row]
    BY <1>1, <2>1
  <2>5. WorkCovered'
    BY <1>1, <2>1, <2>3, <2>4, CoveredStill DEF EdgeInv
  <2>6. MeterTypeOK'
    BY <1>1, <2>1 DEF MeterTypeOK
  <2> QED BY <1>2, <2>2, <2>5, <2>6 DEF EdgeInv
<1> QED BY <1>4, <1>5, <1>6, <1>7, <1>8, <1>9 DEF ENext

-----------------------------------------------------------------------------
\* The inductive invariant of the edge functions: the limiter's, what is left of a
\* program is in the order the programs are in, and a call that took from the limiter
\* has its work due.
THEOREM EdgeInvariant == ESpec => []EdgeInv
  BY EdgeStart, EdgeStep, PTL DEF ESpec

\* secrets.ts: a call that a missing setting ends has changed nothing, but for the claim
\* of paymob-initiate.
THEOREM SettingsComeFirst == ESpec => []MisconfiguredChangesNothing
<1>1. EdgeInv => MisconfiguredChangesNothing
  BY DEF EdgeInv, CallInv, Concluded
<1> QED BY <1>1, EdgeInvariant, PTL

\* A caller who is told that his request is wrong has changed nothing, but for what the
\* InstaPay functions leave behind, unless an answer was lost on the way.
THEOREM RefusedChangesNothing == ESpec => []RefusalsHarmless
<1>1. EdgeInv => RefusalsHarmless
  BY DEF EdgeInv, CallInv, Concluded
<1> QED BY <1>1, EdgeInvariant, PTL

\* A handler that answers 2xx has done all that the function is for.
THEOREM SuccessIsDone == ESpec => []DoneMeansDone
<1>1. EdgeInv => DoneMeansDone
  BY DEF EdgeInv, CallInv, Concluded
<1> QED BY <1>1, EdgeInvariant, PTL

\* Whatever a handler did, it did for a caller entitled to it: session, own order or
\* account, key, signature and profile are looked at before the first effect.
THEOREM OnlyForTheEntitled == ESpec => []EffectsEntitled
<1>1. EdgeInv => EffectsEntitled
  BY DEF EdgeInv, CallInv, AllEntitled, Entitled, EffectsEntitled
<1> QED BY <1>1, EdgeInvariant, PTL

\* Proofs, sent notifications and stored provider orders are of files, mails and provider
\* orders that exist.
THEOREM SubjectsBeforeRecords == ESpec => []RecordsHaveSubjects
<1>1. EdgeInv => RecordsHaveSubjects
  <2>1. ASSUME NEW fn \in Functions PROVE "removed" \notin EffectsOf(fn)
    BY DEF Functions, EffectsOf, Purpose
  <2>2. CallTypeOK => "removed" \notin call.did
    BY <2>1 DEF CallTypeOK, CallType
  <2> QED BY <2>2 DEF EdgeInv, CallInv, SubjectsFirst, Follows, RecordsHaveSubjects
<1> QED BY <1>1, EdgeInvariant, PTL

\* What the metered functions do for a caller in a window is paid from the budget of that
\* window, whoever else takes from the limiter and however often it is housekept, but for
\* the calls it let through without an answer.
THEOREM WorkWithinBudget == ESpec => []WorkMetered
<1>1. EdgeInv => WorkMetered
  <2> SUFFICES ASSUME EdgeInv, NEW row \in Rows
               PROVE  worked[row] <= Limit[row[1]] * (prunes + 1) + opened
    BY DEF WorkMetered
  <2>1. /\ worked[row] \in Nat /\ opened \in Nat /\ granted[row] \in Nat /\ Due(row) \in {0, 1}
        /\ prunes \in Nat /\ Limit[row[1]] \in Nat
    BY DueIs, LimitPositive DEF EdgeInv, MeterTypeOK, RateInv, RateTypeOK
  <2>2. worked[row] + Due(row) <= granted[row] + opened
    BY DEF EdgeInv, WorkCovered
  <2>3. granted[row] <= Limit[row[1]] * (prunes + 1)
    BY WithinBudget DEF EdgeInv, BudgetPerHousekeeping
  <2>4. Limit[row[1]] * (prunes + 1) \in Nat
    BY <2>1
  <2> QED BY <2>1, <2>2, <2>3, <2>4
<1> QED BY <1>1, EdgeInvariant, PTL

\* Nobody is refused by a function before he was granted the budget of the window
\* himself, whatever else takes from the limiter.
THEOREM NobodyElseCountsHere == ESpec => []RefusedOnlyWhenSpent
<1>1. EdgeInv => RefusedOnlyWhenSpent
  BY DEF EdgeInv, RateInv
<1> QED BY <1>1, EdgeInvariant, PTL

\* The calls of the functions and of other code together get the budget of a window
\* once, and once more for each housekeeping.
THEOREM BudgetBoundedHere == ESpec => []BudgetPerHousekeeping
<1>1. EdgeInv => BudgetPerHousekeeping
  BY WithinBudget DEF EdgeInv
<1> QED BY <1>1, EdgeInvariant, PTL
=============================================================================
