--------------------------- MODULE PaymentFlowProofs ---------------------------
(***************************************************************************)
(* What TLAPS proves about PaymentFlow, for any number of orders, rows,    *)
(* overlapping attempts and uploads.                                       *)
(***************************************************************************)
EXTENDS PaymentFlow, TLAPS

-----------------------------------------------------------------------------
(* The server: what a move does to the rows of the order. *)

Settling == {"success"} \union Lost

\* the row of the order was decided
DecidedHere(p) == \E s \in Settling : rows[p] = Row(Order, s)

\* The order waits for its newest row or for none.
ServerInv ==
    /\ stage \in [Orders -> Stages]
    /\ rows \in [Payments -> Rows]
    /\ stage[Order] = "unplaced" => RowsOf(Order, "pending") = {}
    /\ \A p \in RowsOf(Order, "pending") : p = latest
    /\ latest # NoRow => /\ latest \in Payments
                         /\ rows[latest] = Row(Order, "pending") \/ DecidedHere(latest)

RowStep(p) ==
    \/ rows'[p] = rows[p]
    \/ rows[p] = FreeRow /\ \E o \in Orders : rows'[p] = Row(o, "pending")
    \/ \E o \in Orders, s \in Settling : rows[p] = Row(o, "pending") /\ rows'[p] = Row(o, s)

\* a row that is new to the order is the only one it waits for
ServerStep ==
    /\ stage' \in [Orders -> Stages]
    /\ rows' \in [Payments -> Rows]
    /\ \A p \in Payments : RowStep(p)
    /\ stage'[Order] = "unplaced" => stage[Order] = "unplaced" /\ Opened = {}
    /\ \A p \in Opened, q \in Payments : rows'[q] = Row(Order, "pending") => q = p

LEMMA RowFields ==
  /\ FreeRow.status = "none"
  /\ \A o, s : Row(o, s).status = s /\ Row(o, s).order = o
  BY DEF FreeRow, Row

LEMMA RowsDiffer ==
  /\ \A o, s, a, t : Row(o, s) = Row(a, t) => o = a /\ s = t
  /\ \A o, s : s # "none" => Row(o, s) # FreeRow
<1>1. ASSUME NEW o, NEW s, NEW a, NEW t, Row(o, s) = Row(a, t) PROVE o = a /\ s = t
  <2>1. Row(o, s).status = Row(a, t).status /\ Row(o, s).order = Row(a, t).order
    BY <1>1
  <2> QED BY <2>1, RowFields
<1>2. ASSUME NEW o, NEW s, s # "none", Row(o, s) = FreeRow PROVE FALSE
  <2>1. Row(o, s).status = FreeRow.status
    BY <1>2
  <2> QED BY <1>2, <2>1, RowFields
<1> QED BY <1>1, <1>2

LEMMA RowTypes ==
  /\ FreeRow \in Rows
  /\ \A o \in Orders : Row(o, "pending") \in Rows /\ \A s \in Settling : Row(o, s) \in Rows
  BY DEF Rows, Settling

LEMMA SettlingNames == \A s \in Settling : s # "none" /\ s # "pending"
  BY DEF Settling, Lost

LEMMA PlaceStep ==
  ASSUME ServerInv, NEW o \in Orders, Place(o)
  PROVE  ServerStep
<1>1. /\ stage' = [stage EXCEPT ![o] = "awaiting"] /\ stage[o] = "unplaced"
      /\ stage' \in [Orders -> Stages]
      /\ stage'[Order] = "unplaced" => Order # o /\ stage[Order] = "unplaced"
  BY OrderAssumption DEF Place, ServerInv, Stages
<1>2. CASE rows' = rows
  BY <1>1, <1>2, RowsDiffer DEF ServerStep, ServerInv, RowStep, Opened
<1>3. ASSUME NEW p \in Payments, Open(o, p, rows) PROVE ServerStep
  <2>1. /\ rows[p] = FreeRow /\ rows'[p] = Row(o, "pending")
        /\ \A q \in Payments \ {p} : rows'[q] = rows[q]
    BY <1>3 DEF Open, ServerInv
  <2>2. rows' \in [Payments -> Rows]
    BY <1>3, RowTypes DEF Open, ServerInv
  <2>3. \A q \in Payments : RowStep(q)
    BY <2>1 DEF RowStep
  <2>4. \A q \in Opened : q = p /\ o = Order
    BY <2>1, RowsDiffer DEF Opened
  <2>5. ASSUME NEW q \in Opened, NEW r \in Payments, rows'[r] = Row(Order, "pending") PROVE r = q
    <3>1. RowsOf(Order, "pending") = {}
      BY <1>1, <2>4 DEF ServerInv
    <3> QED BY <2>1, <2>4, <2>5, <3>1 DEF RowsOf
  <2> QED BY <1>1, <2>2, <2>3, <2>4, <2>5 DEF ServerStep
<1> QED BY <1>2, <1>3 DEF Place

\* Rows that were waiting get a verdict.
LEMMA MarkStep ==
  ASSUME ServerInv, stage' \in [Orders -> Stages],
         stage'[Order] = "unplaced" => stage[Order] = "unplaced",
         NEW ps \in SUBSET Payments, NEW s \in Settling,
         \A p \in ps : \E o \in Orders : rows[p] = Row(o, "pending") /\ rows'[p] = Row(o, s),
         \A p \in Payments \ ps : rows'[p] = rows[p],
         rows' = [p \in Payments |-> rows'[p]]
  PROVE  ServerStep
<1>1. \A p \in Payments : RowStep(p)
  BY DEF RowStep
<1>2. \A p \in Payments : rows'[p] \in Rows
  BY RowTypes DEF ServerInv
<1>3. Opened = {}
  BY RowsDiffer DEF Opened
<1> QED BY <1>1, <1>2, <1>3 DEF ServerStep

LEMMA AwaitStep ==
  ASSUME ServerInv, NEW o \in Orders, NEW p \in Payments, Await(o, p)
  PROVE  ServerStep
<1> DEFINE kept == Mark(o, RowsOf(o, "pending"), "cancelled")
<1>1. /\ stage' = stage /\ stage[o] = "awaiting" /\ rows[p] = FreeRow
      /\ rows' = [kept EXCEPT ![p] = Row(o, "pending")]
  BY DEF Await, Open
<1>2. rows'[p] = Row(o, "pending")
  BY <1>1 DEF Mark
<1>3. \A q \in Payments \ {p} :
        rows'[q] = IF rows[q] = Row(o, "pending") THEN Row(o, "cancelled") ELSE rows[q]
  BY <1>1 DEF Mark, RowsOf
<1>4. "cancelled" \in Settling
  BY DEF Settling, Lost
<1>5. \A q \in Payments : RowStep(q) /\ rows'[q] \in Rows
  BY <1>1, <1>2, <1>3, <1>4, RowTypes DEF RowStep, ServerInv
<1>6. rows' \in [Payments -> Rows]
  BY <1>1, <1>5 DEF Mark
<1>7. \A q \in Opened : q = p /\ o = Order
  BY <1>2, <1>3, RowsDiffer DEF Opened
<1>8. \A q \in Payments : rows'[q] = Row(o, "pending") => q = p
  BY <1>3, RowsDiffer
<1>9. stage[Order] = "unplaced" => Order # o
  BY <1>1
<1> QED BY <1>1, <1>5, <1>6, <1>7, <1>8, <1>9 DEF ServerStep, ServerInv

LEMMA ServerMoves ==
  ASSUME ServerInv, LNext
  PROVE  ServerStep
<1>1. ASSUME NEW o \in Orders, Close(o) PROVE ServerStep
  <2>1. /\ stage' \in [Orders -> Stages]
        /\ stage'[Order] = "unplaced" => stage[Order] = "unplaced"
    BY <1>1, OrderAssumption DEF Close, ServerInv, Stages
  <2>2. CASE rows' = rows
    BY <2>1, <2>2, RowsDiffer DEF ServerStep, ServerInv, RowStep, Opened
  <2>3. ASSUME NEW s \in Lost, rows' = Mark(o, RowsOf(o, "pending"), s) PROVE ServerStep
    <3>1. /\ \A p \in RowsOf(o, "pending") : rows[p] = Row(o, "pending") /\ rows'[p] = Row(o, s)
          /\ \A p \in Payments \ RowsOf(o, "pending") : rows'[p] = rows[p]
          /\ rows' = [p \in Payments |-> rows'[p]]
      BY <2>3 DEF Mark, RowsOf
    <3>2. s \in Settling /\ RowsOf(o, "pending") \in SUBSET Payments
      BY DEF Settling, RowsOf
    <3> QED BY <2>1, <3>1, <3>2, MarkStep
  <2> QED BY <1>1, <2>2, <2>3 DEF Close
<1>2. ASSUME NEW o \in Orders, NEW p \in Payments, Pay(o, p) PROVE ServerStep
  <2>1. /\ stage' \in [Orders -> Stages]
        /\ stage'[Order] = "unplaced" => stage[Order] = "unplaced"
    BY <1>2, OrderAssumption DEF Pay, ServerInv, Stages
  <2>2. /\ \A q \in {p} : rows[q] = Row(o, "pending") /\ rows'[q] = Row(o, "success")
        /\ \A q \in Payments \ {p} : rows'[q] = rows[q]
        /\ rows' = [q \in Payments |-> rows'[q]]
    BY <1>2 DEF Pay, Mark, RowsOf
  <2> QED BY <2>1, <2>2, MarkStep DEF Settling
<1>3. ASSUME NEW s \in Lost, Withdraw(s) PROVE ServerStep
  <2>1. PICK ps \in SUBSET Payments :
          /\ \A p \in ps : \E o \in Orders : p \in RowsOf(o, "pending")
          /\ rows' = [p \in Payments |-> IF p \in ps THEN Row(rows[p].order, s) ELSE rows[p]]
    BY <1>3 DEF Withdraw
  <2>2. \A p \in ps : \E o \in Orders : rows[p] = Row(o, "pending") /\ rows'[p] = Row(o, s)
    BY <2>1, RowFields DEF RowsOf
  <2>3. /\ \A p \in Payments \ ps : rows'[p] = rows[p]
        /\ rows' = [p \in Payments |-> rows'[p]]
    BY <2>1
  <2>4. stage' = stage /\ stage' \in [Orders -> Stages]
    BY <1>3 DEF Withdraw, ServerInv
  <2> QED BY <2>2, <2>3, <2>4, MarkStep DEF Settling
<1> QED BY <1>1, <1>2, <1>3, PlaceStep, AwaitStep DEF LNext

\* The newest row is told by the broadcast of a server's step.
LEMMA ServerInvKept ==
  ASSUME ServerInv, ServerStep,
         latest' = IF Opened = {} THEN latest ELSE CHOOSE p \in Opened : TRUE
  PROVE  ServerInv'
<1>1. \A p \in Opened : latest' = p /\ p \in Payments
  <2>1. \A p, q \in Opened : p = q
    BY DEF ServerStep, Opened
  <2> QED BY <2>1 DEF Opened
<1>2. ASSUME NEW p \in Payments, rows'[p] = Row(Order, "pending") PROVE p = latest'
  <2>1. CASE p \in Opened
    BY <1>1, <2>1
  <2>2. CASE p \notin Opened
    <3>1. rows[p] # FreeRow
      BY <1>2, <2>2 DEF Opened
    <3>2. rows'[p] = rows[p]
      <4>1. \A o \in Orders, s \in Settling : rows'[p] # Row(o, s)
        BY <1>2, RowsDiffer, SettlingNames
      <4> QED BY <3>1, <4>1 DEF ServerStep, RowStep
    <3>3. Opened = {}
      <4>1. ASSUME NEW q \in Opened PROVE FALSE
        BY <1>2, <2>2, <4>1 DEF ServerStep
      <4> QED BY <4>1
    <3> QED BY <1>2, <3>2, <3>3 DEF ServerInv, RowsOf
  <2> QED BY <2>1, <2>2
<1>3. stage'[Order] = "unplaced" => \A p \in Payments : rows'[p] # Row(Order, "pending")
  <2> SUFFICES ASSUME stage'[Order] = "unplaced", NEW p \in Payments, rows'[p] = Row(Order, "pending")
               PROVE  FALSE
    OBVIOUS
  <2>1. rows[p] # FreeRow /\ rows[p] # Row(Order, "pending")
    BY DEF ServerStep, Opened, ServerInv, RowsOf
  <2>2. \A o \in Orders, s \in Settling : rows'[p] # Row(o, s)
    BY RowsDiffer, SettlingNames
  <2> QED BY <2>1, <2>2 DEF ServerStep, RowStep
<1>4. ASSUME latest' # NoRow
      PROVE  /\ latest' \in Payments
             /\ rows'[latest'] = Row(Order, "pending") \/ \E s \in Settling : rows'[latest'] = Row(Order, s)
  <2>1. CASE Opened # {}
    BY <1>1, <2>1 DEF Opened
  <2>2. CASE Opened = {}
    <3>1. latest' = latest /\ latest \in Payments
      BY <1>4, <2>2 DEF ServerInv
    <3>2. rows[latest] = Row(Order, "pending") \/ \E s \in Settling : rows[latest] = Row(Order, s)
      BY <1>4, <3>1 DEF ServerInv, DecidedHere
    <3>3. rows[latest] # FreeRow
      BY <3>2, RowsDiffer, SettlingNames
    <3>4. ASSUME NEW o \in Orders, NEW s \in Settling, rows[latest] = Row(o, "pending"),
                 rows'[latest] = Row(o, s)
          PROVE  rows'[latest] = Row(Order, s)
      BY <3>2, <3>4, RowsDiffer, SettlingNames
    <3> QED BY <3>1, <3>2, <3>3, <3>4 DEF ServerStep, RowStep
  <2> QED BY <2>1, <2>2
<1> QED BY <1>2, <1>3, <1>4 DEF ServerInv, ServerStep, RowsOf, DecidedHere

\* A decided row stays as it is, and a row that is new was not decided.
LEMMA DecidedStay ==
  ASSUME ServerInv, ServerStep, NEW p \in Payments
  PROVE  /\ Decided(p) => rows'[p] = rows[p]
         /\ p \in Opened \union Updated => ~Decided(p)
<1>1. Decided(p) => /\ rows[p] # FreeRow
                    /\ \A o \in Orders : rows[p] # Row(o, "pending")
  <2>1. "none" \notin Settling /\ "pending" \notin Settling
    BY SettlingNames
  <2> QED BY <2>1, RowFields DEF Decided, Settling
<1>2. Decided(p) => rows'[p] = rows[p]
  BY <1>1 DEF ServerStep, RowStep
<1>3. p \in Opened => ~Decided(p)
  BY <1>1 DEF Opened
<1>4. p \in Updated => ~Decided(p)
  BY <1>2 DEF Updated
<1> QED BY <1>2, <1>3, <1>4

LEMMA DecidedHereIsDecided == \A p \in Payments : DecidedHere(p) => Decided(p)
  BY RowFields DEF DecidedHere, Decided, Settling

-----------------------------------------------------------------------------
(* The page. *)

\* What a run knows: the rows that were settled before it, and what the server has done for it.
CallInv(a) ==
    /\ calls[a].old \subseteq Settled
    /\ calls[a].served /\ calls[a].step = "initiate" => latest \notin calls[a].old
    /\ calls[a].served /\ calls[a].step = "confirm" => RowsOf(Order, "success") # {}
    /\ calls[a] # NoCall => calls[a].step # "none"

\* What is on its way to the page are rows of the order, decided after the attempt began.
WatchInv ==
    /\ watch.old \subseteq Settled
    /\ watch.open => latest \notin watch.old
    /\ \A p \in watch.events : DecidedHere(p) /\ p \notin watch.old
    /\ watch.poll \in Payments => DecidedHere(watch.poll) /\ watch.poll \notin watch.old

FlowInv ==
    /\ FlowTypeOK
    /\ ServerInv
    /\ \A a \in Attempts : CallInv(a)
    /\ WatchInv
    /\ SuccessIsReal
    /\ NoDeadWait

WatchRecord == [open : BOOLEAN, timer : BOOLEAN, spent : BOOLEAN,
                poll : {"idle", "pending"} \union Payments,
                events : SUBSET Payments, old : SUBSET Payments]

\* Everything but the calls, the watch and the status is as it was.
LEMMA SameServer ==
  ASSUME FlowInv, UNCHANGED serverVars
  PROVE  /\ ServerInv' /\ Settled' = Settled
         /\ RowsOf(Order, "success")' = RowsOf(Order, "success")
         /\ \A p : DecidedHere(p)' <=> DecidedHere(p)
  BY DEF FlowInv, serverVars, ServerInv, RowsOf, DecidedHere, Settled, Decided

LEMMA SameCalls ==
  ASSUME FlowInv, UNCHANGED serverVars, NEW a \in Attempts, calls'[a] = calls[a]
  PROVE  CallInv(a)'
  BY SameServer DEF FlowInv, CallInv, serverVars

LEMMA SameWatch ==
  ASSUME FlowInv, UNCHANGED serverVars, watch' = watch
  PROVE  WatchInv'
  BY SameServer DEF FlowInv, WatchInv, serverVars

LEMMA NoCallInv ==
  ASSUME NEW a, calls'[a] = NoCall
  PROVE  CallInv(a)'
<1>1. NoCall.old = {} /\ NoCall.served = FALSE
  BY DEF NoCall
<1> QED BY <1>1 DEF CallInv

LEMMA NoWatchInv ==
  ASSUME watch' = NoWatch
  PROVE  WatchInv' /\ NoWatch \in WatchRecord
<1>1. /\ NoWatch.old = {} /\ NoWatch.events = {} /\ NoWatch.poll = "idle" /\ NoWatch.open = FALSE
      /\ NoWatch \in WatchRecord
  BY DEF NoWatch, WatchRecord
<1> QED BY <1>1, RowsAssumption DEF WatchInv

-----------------------------------------------------------------------------
(* The steps of the server, which the page hears of by the broadcast. *)

LEMMA BroadcastStep ==
  ASSUME FlowInv, Broadcast, UNCHANGED <<status, uploads>>,
         LNext \/ UNCHANGED <<stage, rows>>
  PROVE  /\ ServerInv' /\ WatchInv' /\ SuccessIsReal'
         /\ latest' \in Payments \union {NoRow} /\ watch' \in WatchRecord
         /\ watch'.open = watch.open /\ watch'.spent = watch.spent /\ watch'.timer = watch.timer
         /\ Settled \subseteq Settled'
         /\ \A ps \in SUBSET Settled : latest \notin ps => latest' \notin ps
         /\ RowsOf(Order, "success") \subseteq RowsOf(Order, "success")'
<1>1. ServerInv /\ FlowTypeOK /\ WatchInv
  BY DEF FlowInv
<1>2. ServerStep
  <2>1. CASE UNCHANGED <<stage, rows>>
    BY <1>1, <2>1, RowsDiffer DEF ServerStep, ServerInv, RowStep, Opened
  <2> QED BY <1>1, <2>1, ServerMoves
<1>3. /\ latest' = IF Opened = {} THEN latest ELSE CHOOSE p \in Opened : TRUE
      /\ watch' = IF watch.open /\ ~watch.spent
                  THEN [watch EXCEPT !.events = @ \union Updated] ELSE watch
  BY DEF Broadcast
<1>4. ServerInv'
  BY <1>1, <1>2, <1>3, ServerInvKept
<1>5. latest' = latest \/ latest' \in Opened
  BY <1>3
<1>6. \A p \in Payments : Decided(p) => rows'[p] = rows[p]
  BY <1>1, <1>2, DecidedStay
<1>7. Settled \subseteq Settled'
  BY <1>6 DEF Settled, Decided
<1>8. \A ps \in SUBSET Settled : latest \notin ps => latest' \notin ps
  BY <1>1, <1>2, <1>5, DecidedStay DEF Settled, Opened
<1>9. \A p \in Payments : DecidedHere(p) => DecidedHere(p)'
  BY <1>6, DecidedHereIsDecided DEF DecidedHere
<1>10. RowsOf(Order, "success") \subseteq RowsOf(Order, "success")'
  BY <1>6, RowFields DEF RowsOf, Decided
<1>11. watch \in WatchRecord
  BY <1>1 DEF FlowTypeOK, WatchRecord
<1>12. /\ watch'.open = watch.open /\ watch'.spent = watch.spent /\ watch'.timer = watch.timer
       /\ watch'.poll = watch.poll /\ watch'.old = watch.old
       /\ watch'.events \subseteq watch.events \union Updated
       /\ watch' \in WatchRecord
  BY <1>3, <1>11 DEF WatchRecord, Updated
<1>13. \A p \in Updated : DecidedHere(p)' /\ p \notin Settled
  BY <1>1, <1>2, DecidedStay DEF Updated, DecidedHere, Settling, Settled
<1>14. WatchInv'
  <2>1. watch.events \subseteq Payments
    BY <1>11 DEF WatchRecord
  <2>2. \A p \in watch'.events : DecidedHere(p)' /\ p \notin watch'.old
    BY <1>1, <1>9, <1>12, <1>13, <2>1 DEF WatchInv
  <2>3. watch'.old \subseteq Settled' /\ (watch'.open => latest' \notin watch'.old)
    BY <1>1, <1>7, <1>8, <1>12 DEF WatchInv
  <2>4. watch'.poll \in Payments => DecidedHere(watch.poll)' /\ watch'.poll \notin watch'.old
    <3>1. ASSUME watch.poll \in Payments PROVE DecidedHere(watch.poll)
      BY <1>1, <3>1 DEF WatchInv
    <3>2. ASSUME watch.poll \in Payments
          PROVE  \E s \in Settling : rows'[watch'.poll] = Row(Order, s)
      BY <1>6, <1>12, <3>1, <3>2, DecidedHereIsDecided DEF DecidedHere
    <3> QED BY <1>1, <1>12, <3>2 DEF WatchInv, DecidedHere
  <2> QED BY <2>2, <2>3, <2>4 DEF WatchInv
<1>15. SuccessIsReal'
  BY <1>10 DEF FlowInv, SuccessIsReal
<1>16. latest' \in Payments \union {NoRow}
  BY <1>1, <1>5 DEF FlowTypeOK, Opened
<1> QED BY <1>4, <1>7, <1>8, <1>10, <1>12, <1>14, <1>15, <1>16

LEMMA OthersMoveStep == ASSUME FlowInv, OthersMove PROVE FlowInv'
<1>1. /\ ServerInv' /\ WatchInv' /\ SuccessIsReal'
      /\ latest' \in Payments \union {NoRow} /\ watch' \in WatchRecord
      /\ watch'.open = watch.open /\ watch'.spent = watch.spent /\ watch'.timer = watch.timer
      /\ Settled \subseteq Settled'
      /\ \A ps \in SUBSET Settled : latest \notin ps => latest' \notin ps
      /\ RowsOf(Order, "success") \subseteq RowsOf(Order, "success")'
  BY BroadcastStep DEF OthersMove
<1>2. UNCHANGED <<status, calls, uploads>>
  BY DEF OthersMove
<1>3. FlowTypeOK' /\ NoDeadWait'
  BY <1>1, <1>2 DEF FlowInv, FlowTypeOK, WatchRecord, NoDeadWait
<1>4. \A a \in Attempts : CallInv(a)'
  BY <1>1, <1>2 DEF FlowInv, CallInv
<1> QED BY <1>1, <1>3, <1>4 DEF FlowInv

CallRecord == [method : Methods \union {"none"}, step : {"none", "method", "initiate", "confirm"},
               served : BOOLEAN, old : SUBSET Payments]

\* After the server has served a run that leads to a watch the order waits for its newest row,
\* and after a confirmation it has a payment.
LEMMA ServedInv ==
  ASSUME FlowInv, NEW a \in Attempts, Serve(a), ServerInv'
  PROVE  /\ calls[a].step # "confirm" => RowsOf(Order, "pending")' # {}
         /\ calls[a].step = "confirm" => RowsOf(Order, "success")' # {}
<1>1. CASE calls[a].step # "confirm" /\ Renew
  <2>1. CASE RowsOf(Order, "pending") # {} /\ UNCHANGED <<stage, rows>>
    BY <1>1, <2>1 DEF RowsOf
  <2>2. ASSUME NEW p \in Payments, Await(Order, p) PROVE RowsOf(Order, "pending")' # {}
    BY <2>2 DEF Await, Open, Mark, RowsOf
  <2> QED BY <1>1, <2>1, <2>2 DEF Renew
<1>2. ASSUME NEW p \in Payments, Pay(Order, p) PROVE RowsOf(Order, "success")' # {}
  BY <1>2 DEF Pay, Mark, RowsOf
<1>3. ASSUME UNCHANGED <<stage, rows>>, RowsOf(Order, "success") # {}
      PROVE  RowsOf(Order, "success")' # {}
  BY <1>3 DEF RowsOf
<1> QED BY <1>1, <1>2, <1>3 DEF Serve

LEMMA ServeStep == ASSUME FlowInv, NEW a \in Attempts, Serve(a) PROVE FlowInv'
<1>1. LNext \/ UNCHANGED <<stage, rows>>
  BY OrderAssumption DEF Serve, Renew, LNext
<1>2. /\ ServerInv' /\ WatchInv' /\ SuccessIsReal'
      /\ latest' \in Payments \union {NoRow} /\ watch' \in WatchRecord
      /\ watch'.open = watch.open /\ watch'.spent = watch.spent /\ watch'.timer = watch.timer
      /\ Settled \subseteq Settled'
      /\ \A ps \in SUBSET Settled : latest \notin ps => latest' \notin ps
      /\ RowsOf(Order, "success") \subseteq RowsOf(Order, "success")'
  BY <1>1, BroadcastStep DEF Serve
<1>3. calls \in [Attempts -> CallRecord] /\ calls[a] \in CallRecord
  BY DEF FlowInv, FlowTypeOK, CallRecord
<1>4. /\ calls'[a] = [calls[a] EXCEPT !.served = TRUE]
      /\ \A b \in Attempts \ {a} : calls'[b] = calls[b]
      /\ UNCHANGED <<status, uploads>>
  BY <1>3 DEF Serve
<1>5. [calls[a] EXCEPT !.served = TRUE] \in CallRecord
  BY <1>3 DEF CallRecord
<1>6. calls' \in [Attempts -> CallRecord]
  BY <1>3, <1>5 DEF Serve
<1>7. FlowTypeOK'
  BY <1>2, <1>4, <1>6 DEF FlowInv, FlowTypeOK, WatchRecord, CallRecord
<1>8. /\ calls'[a].step = calls[a].step /\ calls'[a].old = calls[a].old
      /\ calls'[a].method = calls[a].method /\ calls'[a].served = TRUE
  BY <1>3, <1>4 DEF CallRecord
<1>9. calls[a].step # "none"
  BY DEF Serve, FlowInv, CallInv
<1>10. calls'[a] # NoCall
  BY <1>8 DEF NoCall
<1>11. CallInv(a)'
  <2>1. calls[a].old \subseteq Settled
    BY DEF FlowInv, CallInv
  <2>2. calls[a].step = "initiate" => latest' \notin calls[a].old
    <3>1. ASSUME calls[a].step = "initiate" PROVE latest' \in Payments /\ rows'[latest'] = Row(Order, "pending")
      <4>1. PICK p \in Payments : rows'[p] = Row(Order, "pending")
        BY <1>2, <3>1, ServedInv DEF RowsOf
      <4>2. p = latest'
        BY <1>2, <4>1 DEF ServerInv, RowsOf
      <4> QED BY <4>1, <4>2
    <3>2. ASSUME NEW p \in Payments, rows'[p] = Row(Order, "pending") PROVE p \notin Settled'
      <4>1. rows'[p].status = "pending"
        BY <3>2, RowFields
      <4> QED BY <4>1, SettlingNames DEF Settled, Decided, Settling
    <3> QED BY <1>2, <2>1, <3>1, <3>2
  <2>3. calls[a].step = "confirm" => RowsOf(Order, "success")' # {}
    BY <1>2, ServedInv
  <2> QED BY <1>2, <1>8, <1>9, <2>1, <2>2, <2>3 DEF CallInv
<1>12. \A b \in Attempts \ {a} : CallInv(b)'
  BY <1>2, <1>4 DEF FlowInv, CallInv
<1>13. NoDeadWait'
  BY <1>2, <1>4, <1>10 DEF FlowInv, NoDeadWait
<1> QED BY <1>2, <1>7, <1>11, <1>12, <1>13 DEF FlowInv

-----------------------------------------------------------------------------
(* The steps of the page. *)

LEMMA ProcessPaymentStep ==
  ASSUME FlowInv, NEW a \in Attempts, NEW m \in Methods, ProcessPayment(a, m)
  PROVE  FlowInv'
<1>1. UNCHANGED serverVars /\ UNCHANGED <<uploads, watch>> /\ status' = "processing"
  BY DEF ProcessPayment
<1>2. ServerInv' /\ WatchInv'
  BY <1>1, SameServer, SameWatch
<1>3. calls \in [Attempts -> CallRecord]
  BY DEF FlowInv, FlowTypeOK, CallRecord
<1>4. /\ calls'[a] = NewCall(m)
      /\ \A b \in Attempts \ {a} : calls'[b] = calls[b]
  BY <1>3 DEF ProcessPayment
<1>5. /\ NewCall(m).served = FALSE /\ NewCall(m).step # "none"
      /\ NewCall(m).old \subseteq Settled /\ NewCall(m) \in CallRecord
  BY DEF NewCall, CallRecord, Settled
<1>6. CallInv(a)'
  BY <1>1, <1>4, <1>5, SameServer DEF CallInv
<1>7. \A b \in Attempts \ {a} : CallInv(b)'
  BY <1>1, <1>4, SameCalls
<1>8. calls' \in [Attempts -> CallRecord]
  BY <1>3, <1>5 DEF ProcessPayment
<1>9. FlowTypeOK'
  BY <1>1, <1>8 DEF FlowInv, FlowTypeOK, CallRecord, serverVars
<1>10. calls'[a] # NoCall
  BY <1>4, <1>5 DEF NoCall
<1>11. NoDeadWait' /\ SuccessIsReal'
  BY <1>1, <1>10 DEF NoDeadWait, SuccessIsReal, Waiting
<1> QED BY <1>2, <1>6, <1>7, <1>9, <1>11 DEF FlowInv

LEMMA NoCallRecord == NoCall \in CallRecord
  BY DEF NoCall, CallRecord

\* A run ends.
LEMMA EndCall ==
  ASSUME FlowInv, NEW a \in Attempts, calls' = [calls EXCEPT ![a] = NoCall], UNCHANGED serverVars
  PROVE  calls' \in [Attempts -> CallRecord] /\ \A b \in Attempts : CallInv(b)'
<1>1. calls \in [Attempts -> CallRecord]
  BY DEF FlowInv, FlowTypeOK, CallRecord
<1>2. calls'[a] = NoCall /\ \A b \in Attempts \ {a} : calls'[b] = calls[b]
  BY <1>1
<1>3. CallInv(a)'
  BY <1>2, NoCallInv
<1>4. \A b \in Attempts \ {a} : CallInv(b)'
  BY <1>2, SameCalls
<1> QED BY <1>1, <1>3, <1>4, NoCallRecord

LEMMA ReceiveFailureStep == ASSUME FlowInv, NEW a \in Attempts, ReceiveFailure(a) PROVE FlowInv'
<1>1. /\ UNCHANGED serverVars /\ UNCHANGED <<uploads, watch>> /\ status' = "failed"
      /\ calls' = [calls EXCEPT ![a] = NoCall]
  BY DEF ReceiveFailure
<1>2. ServerInv' /\ WatchInv' /\ calls' \in [Attempts -> CallRecord] /\ \A b \in Attempts : CallInv(b)'
  BY <1>1, SameServer, SameWatch, EndCall
<1>3. FlowTypeOK'
  BY <1>1, <1>2 DEF FlowInv, FlowTypeOK, CallRecord, serverVars, Ended
<1>4. NoDeadWait' /\ SuccessIsReal'
  BY <1>1 DEF NoDeadWait, SuccessIsReal, Waiting
<1> QED BY <1>2, <1>3, <1>4 DEF FlowInv

LEMMA ReceiveMethodStep == ASSUME FlowInv, NEW a \in Attempts, ReceiveMethod(a) PROVE FlowInv'
<1> DEFINE next == IF calls[a].method = "card" THEN "initiate" ELSE "confirm"
<1>1. /\ UNCHANGED serverVars /\ UNCHANGED <<uploads, watch, status>>
      /\ calls' = [calls EXCEPT ![a].step = next, ![a].served = FALSE]
  BY DEF ReceiveMethod
<1>2. calls \in [Attempts -> CallRecord] /\ calls[a] \in CallRecord
  BY DEF FlowInv, FlowTypeOK, CallRecord
<1>3. /\ calls'[a] = [calls[a] EXCEPT !.step = next, !.served = FALSE]
      /\ \A b \in Attempts \ {a} : calls'[b] = calls[b]
  BY <1>1, <1>2
<1>4. [calls[a] EXCEPT !.step = next, !.served = FALSE] \in CallRecord
  BY <1>2 DEF CallRecord
<1>5. calls' \in [Attempts -> CallRecord]
  BY <1>1, <1>2, <1>4
<1>6. calls'[a].served = FALSE /\ calls'[a].step # "none" /\ calls'[a].old = calls[a].old
  BY <1>2, <1>3 DEF CallRecord
<1>7. CallInv(a)'
  <2>1. calls[a].old \subseteq Settled /\ Settled' = Settled
    BY <1>1, SameServer DEF FlowInv, CallInv
  <2> QED BY <1>6, <2>1 DEF CallInv
<1>8. \A b \in Attempts \ {a} : CallInv(b)'
  BY <1>1, <1>3, SameCalls
<1>9. ServerInv' /\ WatchInv'
  BY <1>1, SameServer, SameWatch
<1>10. FlowTypeOK'
  BY <1>1, <1>5 DEF FlowInv, FlowTypeOK, CallRecord, serverVars
<1>11. calls'[a] # NoCall
  BY <1>6 DEF NoCall
<1>12. NoDeadWait' /\ SuccessIsReal'
  BY <1>1, <1>11, SameServer DEF FlowInv, NoDeadWait, SuccessIsReal
<1> QED BY <1>7, <1>8, <1>9, <1>10, <1>12 DEF FlowInv

\* A new watch hears of nothing that was settled before the run began.
LEMMA ReceiveSessionStep == ASSUME FlowInv, NEW a \in Attempts, ReceiveSession(a) PROVE FlowInv'
<1>1. /\ UNCHANGED serverVars /\ uploads' = uploads /\ watch' = NewWatch(calls[a].old)
      /\ status' \in Waiting /\ calls' = [calls EXCEPT ![a] = NoCall]
      /\ calls[a].served /\ calls[a].step = "initiate"
  BY DEF ReceiveSession, Waiting
<1>2. ServerInv' /\ Settled' = Settled /\ latest' = latest
      /\ calls' \in [Attempts -> CallRecord] /\ \A b \in Attempts : CallInv(b)'
  BY <1>1, SameServer, EndCall DEF serverVars
<1>3. calls[a].old \subseteq Settled /\ latest \notin calls[a].old
  BY <1>1 DEF FlowInv, CallInv
<1>4. /\ watch'.open = TRUE /\ watch'.timer = TRUE /\ watch'.spent = FALSE /\ watch'.poll = "idle"
      /\ watch'.events = {} /\ watch'.old = calls[a].old /\ watch' \in WatchRecord
  <2>1. NoWatch \in WatchRecord /\ NoWatch.spent = FALSE /\ NoWatch.poll = "idle" /\ NoWatch.events = {}
    BY DEF NoWatch, WatchRecord
  <2>2. calls[a].old \in SUBSET Payments
    BY <1>3 DEF Settled
  <2> QED BY <1>1, <2>1, <2>2 DEF NewWatch, WatchRecord
<1>5. WatchInv'
  BY <1>2, <1>3, <1>4, RowsAssumption DEF WatchInv
<1>6. FlowTypeOK'
  BY <1>1, <1>2, <1>4 DEF FlowInv, FlowTypeOK, CallRecord, WatchRecord, serverVars
<1>7. NoDeadWait' /\ SuccessIsReal'
  BY <1>1, <1>4 DEF NoDeadWait, SuccessIsReal, Waiting
<1> QED BY <1>2, <1>5, <1>6, <1>7 DEF FlowInv

LEMMA ReceiveConfirmationStep ==
  ASSUME FlowInv, NEW a \in Attempts, ReceiveConfirmation(a) PROVE FlowInv'
<1>1. /\ UNCHANGED serverVars /\ UNCHANGED <<uploads, watch>> /\ status' = "success"
      /\ calls' = [calls EXCEPT ![a] = NoCall]
      /\ calls[a].served /\ calls[a].step = "confirm"
  BY DEF ReceiveConfirmation
<1>2. ServerInv' /\ WatchInv' /\ calls' \in [Attempts -> CallRecord] /\ \A b \in Attempts : CallInv(b)'
  BY <1>1, SameServer, SameWatch, EndCall
<1>3. FlowTypeOK'
  BY <1>1, <1>2 DEF FlowInv, FlowTypeOK, CallRecord, serverVars, Ended
<1>4. NoDeadWait'
  BY <1>1 DEF NoDeadWait, Waiting
<1>5. SuccessIsReal'
  BY <1>1, SameServer DEF FlowInv, CallInv, SuccessIsReal
<1> QED BY <1>2, <1>3, <1>4, <1>5 DEF FlowInv

LEMMA UploadSteps ==
  ASSUME FlowInv, SubmitProof \/ ProofStored \/ ProofFailed PROVE FlowInv'
<1>1. /\ UNCHANGED serverVars /\ UNCHANGED <<calls, watch>>
      /\ status' = status \/ status' = "failed"
      /\ uploads' \in 0..MaxUploads
  BY OrderAssumption DEF SubmitProof, ProofStored, ProofFailed, FlowInv, FlowTypeOK
<1>2. ServerInv' /\ WatchInv' /\ \A b \in Attempts : CallInv(b)'
  BY <1>1, SameServer, SameWatch, SameCalls
<1>3. FlowTypeOK'
  BY <1>1 DEF FlowInv, FlowTypeOK, serverVars, Ended
<1>4. NoDeadWait' /\ SuccessIsReal'
  BY <1>1, SameServer DEF FlowInv, NoDeadWait, SuccessIsReal, Waiting
<1> QED BY <1>2, <1>3, <1>4 DEF FlowInv

LEMMA LeaveSteps ==
  ASSUME FlowInv, RearmAbandonedAttempt \/ LeavePage PROVE FlowInv'
<1>1. /\ UNCHANGED serverVars /\ watch' = NoWatch /\ status' = "selectingMethod"
      /\ uploads' \in 0..MaxUploads
      /\ calls' = calls \/ calls' = [a \in Attempts |-> NoCall]
  BY OrderAssumption DEF RearmAbandonedAttempt, LeavePage, FlowInv, FlowTypeOK
<1>2. ServerInv' /\ WatchInv' /\ watch' \in WatchRecord
  BY <1>1, SameServer, NoWatchInv
<1>3. \A b \in Attempts : CallInv(b)'
  BY <1>1, SameCalls, NoCallInv
<1>4. calls' \in [Attempts -> CallRecord]
  BY <1>1, NoCallRecord DEF FlowInv, FlowTypeOK, CallRecord
<1>5. FlowTypeOK'
  BY <1>1, <1>2, <1>4 DEF FlowInv, FlowTypeOK, CallRecord, WatchRecord, serverVars
<1>6. NoDeadWait' /\ SuccessIsReal'
  BY <1>1 DEF NoDeadWait, SuccessIsReal, Waiting
<1> QED BY <1>2, <1>3, <1>5, <1>6 DEF FlowInv

-----------------------------------------------------------------------------
(* The steps of the watch. *)

\* A step that changes the watch, and the status only when it ends the wait.
LEMMA WatchKept ==
  ASSUME FlowInv, UNCHANGED serverVars, UNCHANGED <<calls, uploads>>, WatchInv', watch' \in WatchRecord,
         status' = status \/ status' \in Ended,
         status' = "success" => RowsOf(Order, "success") # {},
         status' \in Waiting => watch'.open /\ ~watch'.spent,
         status' = "awaitingVerification" => watch'.timer
  PROVE  FlowInv'
<1>1. ServerInv' /\ \A b \in Attempts : CallInv(b)'
  BY SameServer, SameCalls
<1>2. FlowTypeOK'
  BY DEF FlowInv, FlowTypeOK, WatchRecord, serverVars
<1>3. SuccessIsReal'
  BY SameServer DEF SuccessIsReal
<1>4. NoDeadWait'
  BY DEF FlowInv, NoDeadWait, Ended
<1> QED BY <1>1, <1>2, <1>3, <1>4 DEF FlowInv

LEMMA VerdictOfRow ==
  ASSUME FlowInv, NEW p \in Payments, DecidedHere(p)
  PROVE  /\ Verdict(rows[p].status) \in Ended \ Waiting
         /\ Verdict(rows[p].status) = "success" => RowsOf(Order, "success") # {}
<1>1. PICK s \in Settling : rows[p] = Row(Order, s) /\ rows[p].status = s
  BY RowFields DEF DecidedHere
<1> QED BY <1>1 DEF Verdict, Ended, Waiting, RowsOf

LEMMA EmitStep ==
  ASSUME FlowInv, NEW p \in Payments, DecidedHere(p), Emit(p),
         UNCHANGED serverVars, UNCHANGED <<calls, uploads>>
  PROVE  FlowInv'
<1>1. CASE status \in Waiting
  <2>1. status' = Verdict(rows[p].status) /\ watch' = NoWatch
    BY <1>1 DEF Emit
  <2>2. WatchInv' /\ watch' \in WatchRecord
    BY <2>1, NoWatchInv
  <2>3. status' \in Ended /\ status' \notin Waiting
        /\ (status' = "success" => RowsOf(Order, "success") # {})
    BY <2>1, VerdictOfRow
  <2> QED BY <2>2, <2>3, WatchKept DEF Waiting
<1>2. CASE status \notin Waiting
  <2>1. /\ watch' = [watch EXCEPT !.spent = TRUE, !.poll = "idle", !.events = {}]
        /\ status' = status
    BY <1>2 DEF Emit
  <2>2. watch \in WatchRecord /\ WatchInv /\ Settled' = Settled /\ latest' = latest
    BY SameServer DEF FlowInv, FlowTypeOK, WatchRecord, serverVars
  <2>3. /\ watch' \in WatchRecord /\ watch'.events = {} /\ watch'.poll = "idle"
        /\ watch'.old = watch.old /\ watch'.open = watch.open
    BY <2>1, <2>2 DEF WatchRecord
  <2>4. WatchInv'
    BY <2>2, <2>3, RowsAssumption DEF WatchInv
  <2>5. status' = "success" => RowsOf(Order, "success") # {}
    BY <2>1 DEF FlowInv, SuccessIsReal
  <2> QED BY <1>2, <2>1, <2>3, <2>4, <2>5, WatchKept DEF Waiting
<1> QED BY <1>1, <1>2

\* A poll begins, ends without a result, or the deadline passes.
LEMMA WatchFields ==
  ASSUME FlowInv, UNCHANGED serverVars, UNCHANGED <<calls, uploads, status>>,
         watch' \in WatchRecord, watch'.old = watch.old, watch'.open = watch.open,
         watch'.spent = watch.spent, watch'.events = watch.events,
         watch'.poll \in Payments => DecidedHere(watch'.poll) /\ watch'.poll \notin watch.old,
         status = "awaitingVerification" => watch'.timer
  PROVE  FlowInv'
<1>1. /\ WatchInv /\ Settled' = Settled /\ latest' = latest
      /\ \A p : DecidedHere(p)' <=> DecidedHere(p)
  BY SameServer DEF FlowInv, serverVars
<1>2. WatchInv'
  BY <1>1 DEF WatchInv, DecidedHere, serverVars
<1>3. /\ status' = "success" => RowsOf(Order, "success") # {}
      /\ status' \in Waiting => watch'.open /\ ~watch'.spent
  BY DEF FlowInv, SuccessIsReal, NoDeadWait
<1> QED BY <1>2, <1>3, WatchKept

LEMMA WatchSteps == ASSUME FlowInv, WatchStep PROVE FlowInv'
<1>1. watch \in WatchRecord /\ WatchInv /\ ServerInv
  BY DEF FlowInv, FlowTypeOK, WatchRecord
<1>2. ASSUME NEW p \in Payments, HearUpdate(p) PROVE FlowInv'
  BY <1>1, <1>2, EmitStep DEF HearUpdate, WatchInv
<1>3. CASE Poll
  <2>1. /\ watch.open /\ latest # NoRow /\ watch' = [watch EXCEPT !.poll = PollResult(latest)]
        /\ UNCHANGED serverVars /\ UNCHANGED <<calls, uploads, status>>
    BY <1>3 DEF Poll
  <2>2. latest \in Payments /\ (Decided(latest) => DecidedHere(latest))
    <3>1. rows[latest] = Row(Order, "pending") => ~Decided(latest)
      BY RowFields, SettlingNames DEF Decided, Settling
    <3> QED BY <1>1, <2>1, <3>1 DEF ServerInv
  <2>3. PollResult(latest) \in {"pending"} \union Payments
        /\ (PollResult(latest) \in Payments =>
              DecidedHere(PollResult(latest)) /\ PollResult(latest) \notin watch.old)
    BY <1>1, <2>1, <2>2, RowsAssumption DEF PollResult, WatchInv
  <2>4. /\ watch' \in WatchRecord /\ watch'.poll = PollResult(latest)
        /\ watch'.old = watch.old /\ watch'.open = watch.open /\ watch'.spent = watch.spent
        /\ watch'.events = watch.events /\ watch'.timer = watch.timer
    BY <1>1, <2>1, <2>3 DEF WatchRecord
  <2>5. status = "awaitingVerification" => watch'.timer
    BY <2>4 DEF FlowInv, NoDeadWait
  <2> QED BY <2>1, <2>3, <2>4, <2>5, WatchFields
<1>4. CASE PollFails \/ (PollAnswers /\ watch.poll = "pending")
  <2>1. watch' = [watch EXCEPT !.poll = "idle"]
        /\ UNCHANGED serverVars /\ UNCHANGED <<calls, uploads, status>>
    BY <1>4, RowsAssumption DEF PollFails, PollAnswers
  <2>2. /\ watch' \in WatchRecord /\ watch'.poll = "idle"
        /\ watch'.old = watch.old /\ watch'.open = watch.open /\ watch'.spent = watch.spent
        /\ watch'.events = watch.events /\ watch'.timer = watch.timer
    BY <1>1, <2>1 DEF WatchRecord
  <2>3. status = "awaitingVerification" => watch'.timer
    BY <2>2 DEF FlowInv, NoDeadWait
  <2> QED BY <2>1, <2>2, <2>3, WatchFields, RowsAssumption
<1>5. CASE PollAnswers /\ watch.poll \in Payments
  BY <1>1, <1>5, EmitStep, RowsAssumption DEF PollAnswers, WatchInv
<1>6. CASE WatchTimeout
  <2>1. CASE status = "awaitingVerification"
    <3>1. /\ status' = "timedOut" /\ watch' = NoWatch
          /\ UNCHANGED serverVars /\ UNCHANGED <<calls, uploads>>
      BY <1>6, <2>1 DEF WatchTimeout
    <3> QED BY <3>1, NoWatchInv, WatchKept DEF Ended, Waiting
  <2>2. CASE status # "awaitingVerification"
    <3>1. /\ watch' = [watch EXCEPT !.timer = FALSE]
          /\ UNCHANGED serverVars /\ UNCHANGED <<calls, uploads, status>>
      BY <1>6, <2>2 DEF WatchTimeout
    <3>2. /\ watch' \in WatchRecord /\ watch'.poll = watch.poll
          /\ watch'.old = watch.old /\ watch'.open = watch.open /\ watch'.spent = watch.spent
          /\ watch'.events = watch.events
      BY <1>1, <3>1 DEF WatchRecord
    <3> QED BY <1>1, <2>2, <3>1, <3>2, WatchFields DEF WatchInv
  <2> QED BY <2>1, <2>2
<1> QED BY <1>2, <1>3, <1>4, <1>5, <1>6 DEF WatchStep, PollAnswers

-----------------------------------------------------------------------------
LEMMA FlowInvInit == Init => FlowInv
<1> SUFFICES ASSUME Init PROVE FlowInv
  OBVIOUS
<1>1. /\ stage = [o \in Orders |-> "unplaced"] /\ rows = [p \in Payments |-> FreeRow]
      /\ latest = NoRow /\ status = "selectingMethod"
      /\ calls = [a \in Attempts |-> NoCall] /\ uploads = 0 /\ watch = NoWatch
  BY DEF Init, LInit, PageInit
<1>2. ServerInv
  BY <1>1, RowTypes, RowsDiffer DEF ServerInv, Stages, RowsOf
<1>3. /\ NoWatch.old = {} /\ NoWatch.events = {} /\ NoWatch.poll = "idle"
      /\ NoWatch.open = FALSE /\ NoWatch \in WatchRecord
  BY DEF NoWatch, WatchRecord
<1>4. WatchInv
  BY <1>1, <1>3, RowsAssumption DEF WatchInv
<1>5. \A a \in Attempts : CallInv(a)
  BY <1>1 DEF CallInv, NoCall
<1>6. FlowTypeOK
  BY <1>1, <1>3, NoCallRecord, OrderAssumption DEF FlowTypeOK, CallRecord, WatchRecord
<1>7. NoDeadWait /\ SuccessIsReal
  BY <1>1 DEF NoDeadWait, SuccessIsReal, Waiting
<1> QED BY <1>2, <1>4, <1>5, <1>6, <1>7 DEF FlowInv

LEMMA FlowInvStep == FlowInv /\ [Next]_vars => FlowInv'
<1> SUFFICES ASSUME FlowInv, [Next]_vars PROVE FlowInv'
  OBVIOUS
<1>1. CASE UNCHANGED vars
  <2>1. UNCHANGED serverVars /\ UNCHANGED <<calls, uploads, status, watch>>
    BY <1>1 DEF vars, serverVars
  <2>2. watch \in WatchRecord /\ WatchInv /\ (status = "awaitingVerification" => watch.timer)
    BY DEF FlowInv, FlowTypeOK, WatchRecord, NoDeadWait
  <2> QED BY <2>1, <2>2, WatchFields DEF WatchInv
<1> QED
  BY <1>1, OthersMoveStep, ProcessPaymentStep, ServeStep, ReceiveFailureStep, ReceiveMethodStep,
     ReceiveSessionStep, ReceiveConfirmationStep, UploadSteps, LeaveSteps, WatchSteps DEF Next

\* The inductive invariant of the page, in every reachable state.
THEOREM FlowInvariant == Spec => []FlowInv
<1> QED BY FlowInvInit, FlowInvStep, PTL DEF Spec

\* PaymentCubit keeps its shape.
THEOREM FlowTyped == Spec => []FlowTypeOK
<1>1. FlowInv => FlowTypeOK
  BY DEF FlowInv
<1> QED BY <1>1, FlowInvariant, PTL

\* The page of PaymentCubit never claims a success that no row of the order has.
THEOREM SuccessAlwaysReal == Spec => []SuccessIsReal
<1>1. FlowInv => SuccessIsReal
  BY DEF FlowInv
<1> QED BY <1>1, FlowInvariant, PTL

\* A page that shows progress always has a call or a watch that can end it.
THEOREM NoWaitIsDead == Spec => []NoDeadWait
<1>1. FlowInv => NoDeadWait
  BY DEF FlowInv
<1> QED BY <1>1, FlowInvariant, PTL

\* A result of an earlier attempt never reaches the watch of a later one.
THEOREM VerdictsAlwaysNew == Spec => []VerdictsAreNew
<1>1. FlowInv => VerdictsAreNew
  BY DEF FlowInv, WatchInv, VerdictsAreNew
<1> QED BY <1>1, FlowInvariant, PTL
=============================================================================
