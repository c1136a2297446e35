---------------------------- MODULE ServiceProofs ----------------------------
(***************************************************************************)
(* For every value of the constants: the alerts, one entry order, the      *)
(* scaling of a losing position, the state file, the application, the      *)
(* settings and the universe of a start, and the setup of executors.  Each *)
(* component is an instance with state of its own; what it assumes of its  *)
(* constants is a hypothesis of its theorems.                              *)
(***************************************************************************)
EXTENDS Integers, Sequences, FiniteSets, FiniteSetTheorems, TLAPS

-----------------------------------------------------------------------------
(* TelegramService.                                                        *)

CONSTANTS Messages, NoMessage, Attempts, MinInterval, RetryAfter, Outcomes
VARIABLES alertPc, attempt, wait, lock, quiet, barred

Alerts == INSTANCE TelegramService WITH pc <- alertPc

(* A message that will be posted has an attempt left. *)
AlertsInv ==
    /\ Alerts!TypeOK
    /\ \A m \in Messages :
         alertPc[m] \in {"new", "lock", "turn", "post"} => attempt[m] <= Attempts

(* A countdown stays between zero and where it was. *)
LEMMA DownType == ASSUME NEW n \in Nat PROVE Alerts!Down(n) \in 0 .. n
BY DEF Alerts!Down

(* AlertsInv is inductive. *)
LEMMA AlertsStep ==
    ASSUME Alerts!TelegramAssumption, AlertsInv, [Alerts!Next]_Alerts!vars
    PROVE  AlertsInv'
<1> USE DEF AlertsInv, Alerts!TypeOK, Alerts!TelegramAssumption, Alerts!Goto
<1>1. ASSUME NEW m \in Messages, Alerts!Send(m) PROVE AlertsInv'
    BY <1>1 DEF Alerts!Send
<1>2. ASSUME NEW m \in Messages, Alerts!TakeTurn(m) PROVE AlertsInv'
    BY <1>2 DEF Alerts!TakeTurn, Alerts!WaitSec
<1>3. ASSUME NEW m \in Messages, Alerts!Post(m) PROVE AlertsInv'
    BY <1>3 DEF Alerts!Post
<1>4. ASSUME NEW m \in Messages, Alerts!Sent(m) PROVE AlertsInv'
    BY <1>4 DEF Alerts!Sent
<1>5. ASSUME NEW m \in Messages, Alerts!Limited(m) PROVE AlertsInv'
    BY <1>5 DEF Alerts!Limited, Alerts!AfterLimit
<1>6. ASSUME NEW m \in Messages, Alerts!Errs(m) PROVE AlertsInv'
    BY <1>6 DEF Alerts!Errs
<1>7. ASSUME NEW m \in Messages, Alerts!Wake(m) PROVE AlertsInv'
    BY <1>7 DEF Alerts!Wake
<1>8. ASSUME Alerts!Tick PROVE AlertsInv'
  <2>1. \A m \in Messages : Alerts!Down(wait[m]) \in Nat
      BY DownType
  <2>2. wait' \in [Messages -> Nat]
      BY <1>8, <2>1 DEF Alerts!Tick
  <2>3. quiet' \in 0 .. MinInterval /\ barred' \in 0 .. RetryAfter
      BY <1>8, DownType DEF Alerts!Tick
  <2> QED BY <1>8, <2>2, <2>3 DEF Alerts!Tick
<1>9. CASE UNCHANGED Alerts!vars
    BY <1>9 DEF Alerts!vars
<1> QED
    BY <1>1, <1>2, <1>3, <1>4, <1>5, <1>6, <1>7, <1>8, <1>9 DEF Alerts!Next, Alerts!Step

(* At most one alert is past _send_lock, and no alert is posted more often than
   attempts allow, whatever Telegram answers (services/telegram_service.py:81-117). *)
THEOREM AlertsTypeCorrect ==
    ASSUME Alerts!TelegramAssumption PROVE Alerts!Spec => []Alerts!TypeOK
<1>1. Alerts!Init => AlertsInv
    BY DEF Alerts!Init, AlertsInv, Alerts!TypeOK, Alerts!TelegramAssumption
<1>2. AlertsInv /\ [Alerts!Next]_Alerts!vars => AlertsInv'
    BY AlertsStep
<1>3. AlertsInv => Alerts!TypeOK
    BY DEF AlertsInv
<1> QED BY <1>1, <1>2, <1>3, PTL DEF Alerts!Spec

(* Who holds the lock has waited, or still waits, what is missing of the
   interval. *)
SpacingInv ==
    /\ AlertsInv
    /\ \A m \in Messages :
        /\ alertPc[m] = "turn" => wait[m] + quiet >= MinInterval
        /\ alertPc[m] = "post" => quiet = MinInterval

(* SpacingInv is inductive: who sends holds the lock, so nobody else has waited yet. *)
LEMMA SpacingStep ==
    ASSUME Alerts!TelegramAssumption, SpacingInv, [Alerts!Next]_Alerts!vars
    PROVE  SpacingInv'
<1>0. AlertsInv'
    BY AlertsStep DEF SpacingInv
<1> USE DEF SpacingInv, AlertsInv, Alerts!TypeOK, Alerts!TelegramAssumption, Alerts!Goto
<1>1. ASSUME NEW m \in Messages, Alerts!Send(m) PROVE SpacingInv'
    BY <1>0, <1>1 DEF Alerts!Send
<1>2. ASSUME NEW m \in Messages, Alerts!TakeTurn(m) PROVE SpacingInv'
    BY <1>0, <1>2 DEF Alerts!TakeTurn, Alerts!WaitSec
<1>3. ASSUME NEW m \in Messages, Alerts!Post(m) PROVE SpacingInv'
    BY <1>0, <1>3 DEF Alerts!Post
<1>4. ASSUME NEW m \in Messages, Alerts!Sent(m) PROVE SpacingInv'
    BY <1>0, <1>4 DEF Alerts!Sent
<1>5. ASSUME NEW m \in Messages, Alerts!Limited(m) PROVE SpacingInv'
    BY <1>0, <1>5 DEF Alerts!Limited
<1>6. ASSUME NEW m \in Messages, Alerts!Errs(m) PROVE SpacingInv'
    BY <1>0, <1>6 DEF Alerts!Errs
<1>7. ASSUME NEW m \in Messages, Alerts!Wake(m) PROVE SpacingInv'
    BY <1>0, <1>7 DEF Alerts!Wake
<1>8. ASSUME Alerts!Tick PROVE SpacingInv'
    BY <1>0, <1>8 DEF Alerts!Tick, Alerts!Down
<1>9. CASE UNCHANGED Alerts!vars
    BY <1>0, <1>9 DEF Alerts!vars
<1> QED
    BY <1>1, <1>2, <1>3, <1>4, <1>5, <1>6, <1>7, <1>8, <1>9 DEF Alerts!Next, Alerts!Step

(* For any number of alerts, attempts and answers a message is posted no earlier
   than MinInterval after the last one that was sent
   (services/telegram_service.py:83-87). *)
THEOREM SpacingTheorem ==
    ASSUME Alerts!TelegramAssumption PROVE Alerts!Spec => []Alerts!SendsSpaced
<1>1. Alerts!Init => SpacingInv
    BY DEF Alerts!Init, SpacingInv, AlertsInv, Alerts!TypeOK, Alerts!TelegramAssumption
<1>2. SpacingInv /\ [Alerts!Next]_Alerts!vars => SpacingInv'
    BY SpacingStep
<1>3. SpacingInv => Alerts!SendsSpaced
    BY DEF SpacingInv, Alerts!SendsSpaced
<1> QED BY <1>1, <1>2, <1>3, PTL DEF Alerts!Spec

-----------------------------------------------------------------------------
(* EntryOrder.                                                             *)

CONSTANTS Qty, LimitOnly, OrderFaults, MaxPolls
VARIABLES orderPc, status, filled, bought, seen, polls, result

Order == INSTANCE EntryOrder WITH pc <- orderPc, Faults <- OrderFaults

(* A limit order fills once it was placed; the thread knows of no lot that has
   not filled, and buys at market what it has not seen. *)
OrderInv ==
    /\ Order!TypeOK
    /\ orderPc = "place" => status = "none" /\ filled = 0
    /\ orderPc = "confirm" => status = "filled"
    /\ seen <= filled
    /\ orderPc \in {"place", "poll", "cancel", "market", "confirm"} => bought = 0
    /\ orderPc = "returned" => result <= filled + bought

(* OrderInv holds of an order that is not placed yet. *)
LEMMA OrderInitially ==
    ASSUME Order!OrderAssumption, Order!Init PROVE OrderInv
BY DEF Order!Init, OrderInv, Order!TypeOK, Order!OrderAssumption, Order!Ended

(* OrderInv is inductive, under every fault. *)
LEMMA OrderStep ==
    ASSUME Order!OrderAssumption, OrderInv, [Order!Next]_Order!vars
    PROVE  OrderInv'
<1> USE DEF OrderInv, Order!TypeOK, Order!OrderAssumption, Order!Ended, Order!exchange,
            Order!Return, Order!Raise
<1>1. CASE Order!Fill
  <2>1. PICK n \in 1 .. Qty - filled :
          /\ filled' = filled + n
          /\ status' = IF filled + n = Qty THEN "filled" ELSE "open"
      BY <1>1 DEF Order!Fill
  <2> QED BY <1>1, <2>1 DEF Order!Fill
<1>2. CASE Order!OrderEnds
    BY <1>2 DEF Order!OrderEnds
<1>3. CASE Order!Place
    BY <1>3 DEF Order!Place
<1>4. CASE Order!RequestFails
    BY <1>4 DEF Order!RequestFails
<1>5. CASE Order!PollFallback
    BY <1>5 DEF Order!PollFallback
<1>6. CASE Order!PollLimit
    BY <1>6 DEF Order!PollLimit
<1>7. CASE Order!GiveUp
    BY <1>7 DEF Order!GiveUp
<1>8. CASE Order!Cancel
    BY <1>8 DEF Order!Cancel, Order!CancelLimit, Order!Unfilled
<1>9. CASE Order!Market
    BY <1>9 DEF Order!Market, Order!Remaining, Order!Executed
<1>10. CASE Order!Confirm
    BY <1>10 DEF Order!Confirm
<1>11. CASE UNCHANGED Order!vars
    BY <1>11 DEF Order!vars
<1> QED
    BY <1>1, <1>2, <1>3, <1>4, <1>5, <1>6, <1>7, <1>8, <1>9, <1>10, <1>11
    DEF Order!Next, Order!Step

(* An order is filled exactly when all its lots are, and no quantity exceeds what
   was asked for, in both styles and under every fault (execution.py:297-345). *)
THEOREM OrderTypeCorrect ==
    ASSUME Order!OrderAssumption PROVE Order!Spec => []Order!TypeOK
<1>1. OrderInv => Order!TypeOK
    BY DEF OrderInv
<1> QED BY <1>1, OrderInitially, OrderStep, PTL DEF Order!Spec

(* No entry is reported larger than what is held, in both styles, whatever
   requests and answers are lost and whatever fills between them
   (execution.py:310-345, services/entry_service.py:699). *)
THEOREM ReportTheorem ==
    ASSUME Order!OrderAssumption PROVE Order!Spec => []Order!ReportIsHeld
<1>1. OrderInv => Order!ReportIsHeld
    BY DEF OrderInv, Order!ReportIsHeld, Order!Held
<1> QED BY <1>1, OrderInitially, OrderStep, PTL DEF Order!Spec

(* While cancellations are heard, an entry past its cancellation has no order
   that could fill. *)
RestInv ==
    /\ OrderInv
    /\ orderPc \in {"market", "confirm", "returned"} => status # "open"

(* An entry that returns leaves no order of its own, as long as cancellations
   reach the exchange; every other fault may happen (execution.py:318-330). *)
THEOREM RestTheorem ==
    ASSUME Order!OrderAssumption, "lost_cancel" \notin OrderFaults
    PROVE  Order!Spec => []Order!NothingRests
<1>1. Order!Init => RestInv
    BY OrderInitially DEF RestInv, Order!Init
<1>2. ASSUME RestInv, [Order!Next]_Order!vars PROVE RestInv'
  <2>1. OrderInv'
      BY <1>2, OrderStep DEF RestInv
  <2> QED
      BY <1>2, <2>1 DEF RestInv, OrderInv, Order!TypeOK, Order!Ended, Order!exchange,
        Order!Return, Order!Raise, Order!Next, Order!Step, Order!vars, Order!Fill,
        Order!OrderEnds, Order!Place, Order!RequestFails, Order!PollFallback,
        Order!PollLimit, Order!GiveUp, Order!Cancel, Order!CancelLimit, Order!Market,
        Order!Confirm
<1>3. RestInv => Order!NothingRests
    BY DEF RestInv, Order!NothingRests
<1> QED BY <1>1, <1>2, <1>3, PTL DEF Order!Spec

(* With market fallback the report counts all that was bought and all that was
   seen to fill; only _place_limit_only asks for the quantity once more. *)
CountInv ==
    /\ OrderInv
    /\ orderPc = "confirm" => LimitOnly
    /\ orderPc = "returned" /\ ~LimitOnly => result = seen + bought

(* With market fallback the report lacks at most the lots the limit order filled
   after the last look at it, if market orders are answered when they have filled
   (execution.py:310-345). *)
THEOREM CountTheorem ==
    ASSUME Order!OrderAssumption, "early_answer" \notin OrderFaults
    PROVE  Order!Spec => []Order!OnlyUnseenMissing
<1>1. Order!Init => CountInv
    BY OrderInitially DEF CountInv, Order!Init
<1>2. ASSUME CountInv, [Order!Next]_Order!vars PROVE CountInv'
  <2>1. OrderInv'
      BY <1>2, OrderStep DEF CountInv
  <2>2. CASE Order!Market
    <3>1. CASE orderPc' = "returned"
        BY <1>2, <2>1, <2>2, <3>1 DEF CountInv, OrderInv, Order!TypeOK, Order!Market,
          Order!OrderAssumption, Order!Return, Order!Raise, Order!Executed,
          Order!Remaining
    <3>2. orderPc' \in Order!Ended
        BY <2>2 DEF Order!Market, Order!Return, Order!Raise, Order!Ended
    <3> QED BY <2>1, <3>1, <3>2 DEF CountInv, Order!Ended
  <2>3. CASE Order!PollLimit
    <3>1. LimitOnly /\ orderPc' # "returned"
        BY <1>2, <2>3 DEF CountInv, OrderInv, Order!TypeOK, Order!PollLimit, Order!Ended
    <3> QED BY <2>1, <3>1 DEF CountInv
  <2>4. CASE Order!Confirm
    <3>1. LimitOnly /\ orderPc' = "returned"
        BY <1>2, <2>4 DEF CountInv, Order!Confirm, Order!Return
    <3> QED BY <2>1, <3>1 DEF CountInv
  <2>5. CASE Order!PollFallback
    <3>1. orderPc' = "poll" \/ (orderPc' = "returned" /\ result' = filled)
        BY <1>2, <2>5 DEF Order!PollFallback, Order!Return
    <3>2. seen' = filled /\ bought' = 0 /\ filled \in Nat
        BY <1>2, <2>5 DEF CountInv, OrderInv, Order!TypeOK, Order!PollFallback,
          Order!exchange
    <3> QED BY <2>1, <3>1, <3>2 DEF CountInv
  <2>6. CASE Order!Cancel
    <3>1. orderPc' = "market" \/ (orderPc' = "returned" /\ LimitOnly)
        BY <1>2, <2>6 DEF Order!Cancel, Order!Return
    <3> QED BY <2>1, <3>1 DEF CountInv
  <2>7. CASE Order!Fill \/ Order!OrderEnds \/ UNCHANGED Order!vars
      BY <1>2, <2>1, <2>7 DEF CountInv, Order!Fill, Order!OrderEnds, Order!vars
  <2>8. CASE Order!Place \/ Order!RequestFails \/ Order!GiveUp
    <3>1. orderPc' \in {"poll", "raised", "cancel"}
        BY <2>8 DEF Order!Place, Order!RequestFails, Order!GiveUp, Order!Raise
    <3> QED BY <2>1, <3>1 DEF CountInv
  <2> QED
      BY <1>2, <2>2, <2>3, <2>4, <2>5, <2>6, <2>7, <2>8 DEF Order!Next, Order!Step
<1>3. CountInv => Order!OnlyUnseenMissing
    BY DEF CountInv, OrderInv, Order!TypeOK, Order!OnlyUnseenMissing, Order!Held,
      Order!Unseen, Order!OrderAssumption
<1> QED BY <1>1, <1>2, <1>3, PTL DEF Order!Spec

-----------------------------------------------------------------------------
(* LossScaling.                                                            *)

CONSTANTS MaxAttempts, MaxReplace, MaxAdds, ScalingFaults
VARIABLES scalingPc, level, done, attempts, deferred, replaced, qty, held, tp, sl, added

Scaling == INSTANCE LossScaling WITH pc <- scalingPc, Faults <- ScalingFaults

(* A level is only tried while it has attempts left. *)
ScalingInv ==
    /\ Scaling!TypeOK
    /\ scalingPc = "replace" => replaced < MaxReplace

(* Every level adds something. *)
LEMMA MarginType == ASSUME NEW l \in Scaling!Levels PROVE Scaling!Margin(l) \in Nat \ {0}
BY DEF Scaling!Levels, Scaling!Margin

(* ScalingInv holds of a position nothing was added to. *)
LEMMA ScalingInitially ==
    ASSUME Scaling!ScalingAssumption, Scaling!Init PROVE ScalingInv
BY DEF Scaling!Init, ScalingInv, Scaling!TypeOK, Scaling!ScalingAssumption, Scaling!Levels

(* A level that is deferred is within its attempts, or given up. *)
LEMMA DeferType ==
    ASSUME Scaling!ScalingAssumption, Scaling!TypeOK, NEW l \in Scaling!Levels,
           ~done[l], Scaling!Defer(l)
    PROVE  /\ done' \in [Scaling!Levels -> BOOLEAN]
           /\ deferred' \in [Scaling!Levels -> BOOLEAN]
           /\ attempts' \in [Scaling!Levels -> 0 .. MaxAttempts]
           /\ \A k \in Scaling!Levels : attempts'[k] = MaxAttempts => done'[k]
<1>1. attempts[l] \in 0 .. MaxAttempts - 1
    BY DEF Scaling!TypeOK, Scaling!ScalingAssumption
<1>2. attempts' = [attempts EXCEPT ![l] = @ + 1]
    BY DEF Scaling!Defer
<1>3. CASE attempts[l] + 1 >= MaxAttempts
  <2>1. done' = [done EXCEPT ![l] = TRUE] /\ deferred' = deferred
      BY <1>3 DEF Scaling!Defer
  <2> QED BY <1>1, <1>2, <2>1 DEF Scaling!TypeOK, Scaling!ScalingAssumption
<1>4. CASE ~(attempts[l] + 1 >= MaxAttempts)
  <2>1. deferred' = [deferred EXCEPT ![l] = TRUE] /\ done' = done
      BY <1>4 DEF Scaling!Defer
  <2> QED BY <1>1, <1>2, <1>4, <2>1 DEF Scaling!TypeOK, Scaling!ScalingAssumption
<1> QED BY <1>3, <1>4

(* ScalingInv is inductive, under every fault. *)
LEMMA ScalingStep ==
    ASSUME Scaling!ScalingAssumption, ScalingInv, [Scaling!Next]_Scaling!vars
    PROVE  ScalingInv'
<1> USE DEF ScalingInv, Scaling!exchange, Scaling!levels
<1>0. Scaling!NewQty \in Nat
    BY MarginType DEF Scaling!NewQty, Scaling!TypeOK
<1>1. ASSUME NEW l \in Scaling!Levels, Scaling!BackoffEnds(l) PROVE ScalingInv'
    BY <1>1 DEF Scaling!BackoffEnds, Scaling!TypeOK
<1>2. ASSUME NEW l \in Scaling!Levels, Scaling!TooSmall(l) PROVE ScalingInv'
    BY <1>2 DEF Scaling!TooSmall, Scaling!Due, Scaling!TypeOK
<1>3. ASSUME NEW l \in Scaling!Levels, Scaling!AddFails(l) PROVE ScalingInv'
    BY <1>3, DeferType DEF Scaling!AddFails, Scaling!Due, Scaling!TypeOK
<1>4. ASSUME NEW l \in Scaling!Levels, Scaling!Buy(l)
      PROVE  held' \in Nat /\ added' \in [Scaling!Levels -> Nat] /\ UNCHANGED <<tp, sl>>
    BY <1>4, MarginType DEF Scaling!Buy, Scaling!TypeOK
<1>5. ASSUME NEW l \in Scaling!Levels, Scaling!AddLost(l) PROVE ScalingInv'
    BY <1>5, <1>4, DeferType DEF Scaling!AddLost, Scaling!Due, Scaling!TypeOK
<1>6. ASSUME NEW l \in Scaling!Levels, Scaling!AddFills(l) PROVE ScalingInv'
    BY <1>6, <1>4 DEF Scaling!AddFills, Scaling!TypeOK, Scaling!ScalingAssumption
<1>7. CASE Scaling!Replace
    BY <1>7, <1>0 DEF Scaling!Replace, Scaling!TypeOK
<1>8. CASE Scaling!ReplaceFails
    BY <1>8, <1>0 DEF Scaling!ReplaceFails, Scaling!TypeOK, Scaling!ScalingAssumption
<1>9. CASE Scaling!NoId
    BY <1>9, <1>0 DEF Scaling!NoId, Scaling!TypeOK
<1>10. CASE Scaling!StructureBreaks \/ Scaling!CloseAll \/ Scaling!CloseFails
    BY <1>10 DEF Scaling!StructureBreaks, Scaling!CloseAll, Scaling!CloseFails,
      Scaling!TypeOK
<1>11. CASE UNCHANGED Scaling!vars
    BY <1>11 DEF Scaling!vars, Scaling!TypeOK
<1> QED
    BY <1>1, <1>2, <1>3, <1>5, <1>6, <1>7, <1>8, <1>9, <1>10, <1>11 DEF Scaling!Next

(* A level takes at most its attempts and is given up with the last, a
   replacement is tried MaxReplace times, and no quantity is negative, under
   every fault (monitor_scaling.py:45-79 and 196-216). *)
THEOREM ScalingTypeCorrect ==
    ASSUME Scaling!ScalingAssumption PROVE Scaling!Spec => []Scaling!TypeOK
<1>1. ScalingInv => Scaling!TypeOK
    BY DEF ScalingInv
<1> QED BY <1>1, ScalingInitially, ScalingStep, PTL DEF Scaling!Spec

(* What the levels have made of the position. *)
Bought == 1 + added[1] * Scaling!Margin(1) + added[2] * Scaling!Margin(2)
            + added[3] * Scaling!Margin(3)

(* Levels are done in order.  Between turns everything agrees; while the orders
   are replaced, the level at work has been bought and those before it are done. *)
CoveredInv ==
    /\ ScalingInv
    /\ scalingPc = "turn" =>
        /\ held = Bought
        /\ qty = held /\ tp = held /\ sl = held
        /\ \A l \in Scaling!Levels :
              added[l] <= 1 /\ (added[l] = 1 => \A k \in 1 .. l : done[k])
    /\ scalingPc = "replace" =>
        /\ held = Bought
        /\ held = qty + Scaling!Margin(level)
        /\ added[level] = 1
        /\ \A k \in Scaling!Levels : k < level => done[k]
        /\ \A l \in Scaling!Levels \ {level} :
              added[l] <= 1 /\ (added[l] = 1 => \A k \in 1 .. l : done[k])
    /\ \A k, l \in Scaling!Levels : done[l] /\ k < l => done[k]

(* Whatever market orders and replacements are refused, each level is added once
   and in order, and between two turns the monitor's quantity, the TP and the SL
   are the position (monitor_scaling.py:162-236, execution.py:648-680).  Without
   the hypothesis TLC refutes it: a lost answer buys twice. *)
THEOREM ScalingTheorem ==
    ASSUME Scaling!ScalingAssumption, ScalingFaults \subseteq {"refused", "replace"}
    PROVE  Scaling!Spec => []Scaling!ScaledPositionCovered
<1>0. /\ Scaling!Margin(1) = 1 /\ Scaling!Margin(2) = 2 /\ Scaling!Margin(3) = 4
      /\ Scaling!Levels = {1, 2, 3}
    BY DEF Scaling!Margin, Scaling!Levels
<1>1. Scaling!Init => CoveredInv
    BY ScalingInitially, <1>0 DEF CoveredInv, Scaling!Init, Bought
<1>2. ASSUME CoveredInv, [Scaling!Next]_Scaling!vars PROVE CoveredInv'
  <2>1. ScalingInv'
      BY <1>2, ScalingStep DEF CoveredInv
  <2>2. /\ added \in [Scaling!Levels -> Nat] /\ level \in Scaling!Levels
        /\ done \in [Scaling!Levels -> BOOLEAN] /\ qty \in Nat /\ held \in Nat
      BY <1>2 DEF CoveredInv, ScalingInv, Scaling!TypeOK
  <2> USE DEF CoveredInv, Bought, Scaling!exchange, Scaling!levels
  <2>3. ASSUME NEW l \in Scaling!Levels, Scaling!BackoffEnds(l) PROVE CoveredInv'
      BY <1>2, <2>1, <2>3 DEF Scaling!BackoffEnds
  <2>4. ASSUME NEW l \in Scaling!Levels, Scaling!TooSmall(l) PROVE CoveredInv'
      BY <1>2, <2>1, <2>2, <2>4, <1>0 DEF Scaling!TooSmall, Scaling!Due
  <2>5. ASSUME NEW l \in Scaling!Levels, Scaling!AddFails(l) PROVE CoveredInv'
      BY <1>2, <2>1, <2>2, <2>5, <1>0 DEF Scaling!AddFails, Scaling!Due, Scaling!Defer
  <2>6. ASSUME NEW l \in Scaling!Levels, Scaling!AddLost(l) PROVE CoveredInv'
      BY <2>6 DEF Scaling!AddLost
  <2>7. ASSUME NEW l \in Scaling!Levels, Scaling!AddFills(l) PROVE CoveredInv'
    <3>1. added[l] = 0
      <4>1. scalingPc = "turn" /\ ~done[l]
          BY <2>7 DEF Scaling!AddFills, Scaling!Due
      <4>2. added[l] <= 1 /\ (added[l] = 1 => \A k \in 1 .. l : done[k])
          BY <1>2, <4>1
      <4>3. l \in 1 .. l /\ added[l] \in Nat
          BY <1>0, <2>2
      <4> QED BY <4>1, <4>2, <4>3
    <3>2. \A k \in Scaling!Levels : k < l => done[k]
      <4>1. l > 1 => done[l - 1]
          BY <2>7 DEF Scaling!AddFills, Scaling!Due
      <4>2. \A k \in Scaling!Levels : k < l /\ k # l - 1 => l - 1 \in Scaling!Levels /\ k < l - 1
          BY <1>0
      <4> QED BY <1>2, <1>0, <4>1, <4>2
    <3> QED
        BY <1>2, <2>1, <2>2, <2>7, <1>0, <3>1, <3>2
        DEF Scaling!AddFills, Scaling!Due, Scaling!Buy
  <2>8. CASE Scaling!Replace
      BY <1>2, <2>1, <2>2, <2>8, <1>0 DEF Scaling!Replace, Scaling!NewQty
  <2>9. CASE Scaling!ReplaceFails
      BY <1>2, <2>1, <2>2, <2>9 DEF Scaling!ReplaceFails
  <2>10. CASE Scaling!NoId \/ Scaling!CloseFails
      BY <2>10 DEF Scaling!NoId, Scaling!CloseFails
  <2>11. CASE Scaling!StructureBreaks \/ Scaling!CloseAll
      BY <1>2, <2>1, <2>11 DEF Scaling!StructureBreaks, Scaling!CloseAll
  <2>12. CASE UNCHANGED Scaling!vars
      BY <1>2, <2>1, <2>12 DEF Scaling!vars
  <2> QED
      BY <1>2, <2>3, <2>4, <2>5, <2>6, <2>7, <2>8, <2>9, <2>10, <2>11, <2>12
      DEF Scaling!Next
<1>3. CoveredInv => Scaling!ScaledPositionCovered
    BY DEF CoveredInv, Bought, Scaling!ScaledPositionCovered
<1> QED BY <1>1, <1>2, <1>3, PTL DEF Scaling!Spec

-----------------------------------------------------------------------------
(* StateFile.                                                              *)

CONSTANTS FileFaults, MaxVersion, MaxLoads
VARIABLES filePc, state, snapshot, target, tmp, moved, reported, saved, loads

File == INSTANCE StateFile
    WITH pc <- filePc, starts <- loads, Faults <- FileFaults, MaxStarts <- MaxLoads

(* A manager that has loaded nothing has a well-formed state. *)
LEMMA StatesType ==
    ASSUME File!FileAssumption
    PROVE  File!State(0) \in File!States /\ 0 \in File!Versions
BY DEF File!FileAssumption, File!State, File!States, File!Versions

(* The fields of a state are versions. *)
LEMMA StatesFields ==
    ASSUME NEW s \in File!States
    PROVE  s.first \in File!Versions /\ s.last \in File!Versions
BY DEF File!States

(* The fields of what a file may contain. *)
LEMMA PlainFields ==
    ASSUME NEW k PROVE /\ File!Plain(k).kind = k
                       /\ File!Plain(k).first = 0 /\ File!Plain(k).last = 0
BY DEF File!Plain, File!Content, File!State

(* An object has the fields of the state it was written from. *)
LEMMA ObjectFields ==
    ASSUME NEW s PROVE /\ File!Object(s).kind = "object"
                       /\ File!Object(s).first = s.first /\ File!Object(s).last = s.last
BY DEF File!Object, File!Content

(* Nothing, no JSON and no object are contents. *)
LEMMA PlainType ==
    ASSUME NEW k \in {"absent", "torn", "list"} PROVE File!Plain(k) \in File!Contents
BY DEF File!Contents

(* So is any object, one whose last field does not parse included. *)
LEMMA ObjectType ==
    ASSUME NEW s \in [first : File!Versions, last : File!Versions \cup {File!Invalid}]
    PROVE  File!Object(s) \in File!Contents
BY DEF File!Contents

(* TypeOK holds before the first process. *)
LEMMA FileInitially ==
    ASSUME File!FileAssumption, File!Init PROVE File!TypeOK
<1>1. /\ state \in File!States /\ snapshot \in File!States /\ saved \in File!Versions
      /\ target \in File!Contents /\ tmp \in File!Contents
    BY StatesType, PlainType DEF File!Init
<1>2. reported \in BOOLEAN /\ moved \subseteq File!Contents
    BY DEF File!Init
<1>3. loads \in 0 .. MaxLoads
    BY DEF File!Init, File!FileAssumption
<1> QED BY <1>1, <1>2, <1>3 DEF File!Init, File!TypeOK

(* TypeOK is inductive. *)
LEMMA FileStep ==
    ASSUME File!FileAssumption, File!TypeOK, [File!Next]_File!vars
    PROVE  File!TypeOK'
<1> USE DEF File!TypeOK
<1>1. CASE File!Start
  <2>1. state' \in File!States
      BY <1>1, StatesType DEF File!Start
  <2>2. loads' \in 0 .. MaxLoads
      BY <1>1 DEF File!Start, File!FileAssumption
  <2>3. reported' \in BOOLEAN
      BY <1>1 DEF File!Start
  <2> QED BY <1>1, <2>1, <2>2, <2>3 DEF File!Start
<1>2. CASE File!LoadNothing \/ File!LoadNoObject \/ File!End
    BY <1>2 DEF File!LoadNothing, File!LoadNoObject, File!End
<1>3. CASE File!LoadUnreadable
    BY <1>3, PlainType DEF File!LoadUnreadable, File!AfterBadRead
<1>4. CASE File!LoadObject
  <2>1. target.first \in File!Versions
        /\ target.last \in File!Versions \cup {File!Invalid}
    <3>1. target \notin {File!Plain(k) : k \in {"absent", "torn", "list"}}
        BY <1>4, PlainFields DEF File!LoadObject
    <3>2. PICK s \in [first : File!Versions, last : File!Versions \cup {File!Invalid}] :
            target = File!Object(s)
        BY <3>1 DEF File!Contents
    <3> QED BY <3>2, ObjectFields
  <2>2. state' \in File!States
      BY <1>4, <2>1, StatesType DEF File!LoadObject, File!States
  <2> QED BY <1>4, <2>2 DEF File!LoadObject
<1>5. CASE File!Trade
  <2>1. state.first \in File!Versions /\ state.last \in File!Versions
      BY StatesFields
  <2>2. state' \in File!States
      BY <1>5, <2>1 DEF File!Trade, File!States, File!Versions, File!FileAssumption
  <2> QED BY <1>5, <2>2 DEF File!Trade
<1>6. CASE File!BeginSave
    BY <1>6 DEF File!BeginSave
<1>7. CASE File!WriteSome
    BY <1>7, PlainType DEF File!WriteSome, File!Written
<1>8. CASE File!WriteAll
  <2>1. snapshot \in [first : File!Versions, last : File!Versions \cup {File!Invalid}]
      BY DEF File!States
  <2>2. File!Object(snapshot) \in File!Contents
      BY <2>1, ObjectType
  <2> QED BY <1>8, <2>2 DEF File!WriteAll, File!Written
<1>9. CASE File!Replace
  <2>1. snapshot.last \in File!Versions
      BY StatesFields
  <2> QED BY <1>9, <2>1, PlainType DEF File!Replace
<1>10. CASE File!Edit
  <2>1. \A v \in File!Versions :
          File!Object([first |-> v, last |-> File!Invalid]) \in File!Contents
      BY ObjectType
  <2>2. target' \in File!Contents
      BY <1>10, <2>1, PlainType DEF File!Edit
  <2> QED BY <1>10, <2>2 DEF File!Edit
<1>11. CASE UNCHANGED File!vars
    BY <1>11 DEF File!vars
<1> QED
    BY <1>1, <1>2, <1>3, <1>4, <1>5, <1>6, <1>7, <1>8, <1>9, <1>10, <1>11
    DEF File!Next, File!Process

(* What is renamed over the state file is the whole snapshot, and a load leaves a
   well-formed state whatever it finds, under every fault (persistence.py:15-58,
   risk.py:141-185). *)
THEOREM FileTypeCorrect ==
    ASSUME File!FileAssumption PROVE File!Spec => []File!TypeOK
BY FileInitially, FileStep, PTL DEF File!Spec

(* Unless it is edited the file is absent or the last save that returned, and
   what is on its way there is not newer than the state. *)
SavedInv ==
    /\ File!TypeOK
    /\ target.kind \in {"absent", "object"}
    /\ target.kind = "absent" => saved = 0
    /\ target.kind = "object" => target.last = saved
    /\ filePc \in {"run", "write", "replace"} => state.last >= saved
    /\ filePc \in {"write", "replace"} => state.last >= snapshot.last

(* A process that has loaded its state is not behind a save that returned, over
   any number of crashes, trades during a save, and writes and renames that fail;
   a file that can be read and that nobody edits is all it takes
   (persistence.py:15-58, risk.py:141-185). *)
THEOREM SavedTheorem ==
    ASSUME File!FileAssumption, {"read", "edit"} \cap FileFaults = {}
    PROVE  File!Spec => []File!SavedSurvives
<1>1. File!Init => SavedInv
    BY FileInitially, PlainFields, StatesType DEF SavedInv, File!Init
<1>2. ASSUME SavedInv, [File!Next]_File!vars PROVE SavedInv'
  <2>1. File!TypeOK'
      BY <1>2, FileStep DEF SavedInv
  <2>2. /\ state.last \in Nat /\ snapshot.last \in Nat /\ saved \in Nat
        /\ saved # File!Invalid
      BY <1>2, StatesFields DEF SavedInv, File!TypeOK, File!Versions, File!Invalid,
        File!FileAssumption
  <2> USE DEF SavedInv
  <2>3. CASE File!Start
      BY <1>2, <2>1, <2>3 DEF File!Start
  <2>4. CASE File!LoadNothing
      BY <1>2, <2>1, <2>2, <2>4 DEF File!LoadNothing
  <2>5. CASE File!LoadUnreadable \/ File!LoadNoObject
      BY <1>2, <2>5 DEF File!LoadUnreadable, File!Unreadable, File!LoadNoObject
  <2>6. CASE File!LoadObject
    <3>1. state'.last = saved
        BY <1>2, <2>2, <2>6 DEF File!LoadObject
    <3> QED BY <1>2, <2>1, <2>2, <2>6, <3>1 DEF File!LoadObject
  <2>7. CASE File!Trade
    <3>1. state'.last = state.last + 1
        BY <2>7 DEF File!Trade
    <3> QED BY <1>2, <2>1, <2>2, <2>7, <3>1 DEF File!Trade
  <2>8. CASE File!BeginSave
      BY <1>2, <2>1, <2>2, <2>8 DEF File!BeginSave
  <2>9. CASE File!WriteSome \/ File!WriteAll
      BY <1>2, <2>1, <2>9 DEF File!WriteSome, File!WriteAll, File!Written
  <2>10. CASE File!Replace
    <3>1. tmp.kind = "object" /\ tmp.last = snapshot.last
        BY <1>2, <2>10, ObjectFields DEF File!Replace, File!TypeOK
    <3>2. \/ UNCHANGED <<target, saved>>
          \/ target'.kind = "object" /\ target'.last = snapshot.last
             /\ saved' = snapshot.last
        BY <2>10, <3>1 DEF File!Replace
    <3> QED BY <1>2, <2>1, <2>2, <2>10, <3>2 DEF File!Replace
  <2>11. CASE File!End
      BY <1>2, <2>1, <2>11 DEF File!End
  <2>12. CASE File!Edit
      BY <2>12 DEF File!Edit
  <2>13. CASE UNCHANGED File!vars
      BY <1>2, <2>1, <2>13 DEF File!vars
  <2> QED
      BY <1>2, <2>3, <2>4, <2>5, <2>6, <2>7, <2>8, <2>9, <2>10, <2>11, <2>12, <2>13
      DEF File!Next, File!Process
<1>3. SavedInv => File!SavedSurvives
    BY DEF SavedInv, File!SavedSurvives
<1> QED BY <1>1, <1>2, <1>3, PTL DEF File!Spec

-----------------------------------------------------------------------------
(* BotApplication.                                                         *)

CONSTANTS Symbols, NoSymbol, Universes, AppFaults, DieInEntry, Crashes, MaxTrades, MaxStarts,
          AppLimitOnly
VARIABLES appPc, signalled, universe, orphans, scheduler, entering, monitors, trades, disk,
          position, order, protected, starts

App == INSTANCE BotApplication
    WITH pc <- appPc, Faults <- AppFaults, LimitOnly <- AppLimitOnly

(* The stages of a process before the scheduler is started. *)
Starting == {"down", "positions", "orders", "cleanup", "handlers", "fetch", "resume", "start"}

(* Nothing enters before the scheduler runs. *)
AppInv ==
    /\ App!TypeOK
    /\ appPc \in Starting => entering = NoSymbol

(* AppInv holds before the first process. *)
LEMMA AppInitially ==
    ASSUME App!ApplicationAssumption, App!Init PROVE AppInv
<1>1. signalled \in BOOLEAN /\ scheduler \in BOOLEAN
    BY DEF App!Init
<1>2. ~scheduler
    BY DEF App!Init
<1> QED
    BY <1>1, <1>2 DEF App!Init, AppInv, App!TypeOK, App!ApplicationAssumption

(* What ends a process leaves no thread behind. *)
LEMMA AppEnds ==
    ASSUME App!ApplicationAssumption, AppInv, App!ProcessEnds, UNCHANGED trades
    PROVE  AppInv'
BY DEF App!ProcessEnds, App!exchange, App!ApplicationAssumption, AppInv, App!TypeOK

(* AppInv is inductive, under every fault. *)
LEMMA AppStep ==
    ASSUME App!ApplicationAssumption, AppInv, [App!Next]_App!vars
    PROVE  AppInv'
<1> USE DEF AppInv, App!TypeOK, App!exchange, App!threads, App!Goto, Starting
<1>1. CASE App!Boot
    BY <1>1 DEF App!Boot, App!Load, App!ApplicationAssumption
<1>2. CASE App!ReadPositions \/ App!ReadOrders
    BY <1>2 DEF App!ReadPositions, App!ReadOrders, App!AfterFailedRead
<1>3. CASE App!Cleanup
    BY <1>3 DEF App!Cleanup
<1>4. CASE App!InstallHandlers \/ App!StartScheduler
  <2>1. scheduler' \in BOOLEAN
      BY <1>4 DEF App!InstallHandlers, App!StartScheduler
  <2> QED BY <1>4, <2>1 DEF App!InstallHandlers, App!StartScheduler
<1>5. CASE App!FetchOrphans
    BY <1>5 DEF App!FetchOrphans
<1>6. CASE App!ResumeRaises \/ App!ResumeEnds
    BY <1>6 DEF App!ResumeRaises, App!ResumeEnds
<1>7. ASSUME NEW s \in Symbols, App!ResumeOrphan(s) PROVE AppInv'
    BY <1>7 DEF App!ResumeOrphan, App!OrphansAfter
<1>8. CASE App!LoopEnds \/ App!SaveRisk
    BY <1>8 DEF App!LoopEnds, App!SaveRisk
<1>9. CASE App!StopStream
    BY <1>9 DEF App!StopStream
<1>10. CASE App!Exit \/ App!SignalKills \/ App!Crash
    BY <1>10, AppEnds DEF App!Exit, App!SignalKills, App!Crash
<1>11. CASE App!EntryEnds
    BY <1>11 DEF App!EntryEnds, App!EntryOver, App!LaunchMonitor, App!NotFilled,
      App!PriceAtStop
<1>12. ASSUME NEW s \in Symbols, App!SubmitEntry(s) PROVE AppInv'
    BY <1>12 DEF App!SubmitEntry
<1>13. ASSUME NEW s \in Symbols, App!OrderFills(s) PROVE AppInv'
    BY <1>13 DEF App!OrderFills
<1>14. ASSUME NEW s \in Symbols, App!PositionCloses(s) PROVE AppInv'
    BY <1>14 DEF App!PositionCloses
<1>15. ASSUME NEW s \in Symbols, App!MonitorReports(s) PROVE AppInv'
    BY <1>15 DEF App!MonitorReports, App!ApplicationAssumption
<1>16. CASE App!Signal
    BY <1>16 DEF App!Signal
<1>17. CASE UNCHANGED App!vars
    BY <1>17 DEF App!vars
<1> QED
    BY <1>1, <1>2, <1>3, <1>4, <1>5, <1>6, <1>7, <1>8, <1>9, <1>10, <1>11, <1>12, <1>13,
       <1>14, <1>15, <1>16, <1>17
    DEF App!Next, App!MainStep, App!Environment

(* Whatever requests fail and wherever a process dies, its threads end with it
   and the scheduler runs between start_scheduler and stop only
   (services/runtime_controller.py:36-45). *)
THEOREM AppTypeCorrect ==
    ASSUME App!ApplicationAssumption PROVE App!Spec => []App!TypeOK
<1>1. AppInv => App!TypeOK
    BY DEF AppInv
<1> QED BY <1>1, AppInitially, AppStep, PTL DEF App!Spec

(* Orders protect positions only, and a process on its way to a cleanup has seen
   that there is none. *)
ProtectedInv ==
    /\ AppInv
    /\ protected \subseteq position
    /\ appPc \in {"orders", "cleanup"} => protected = {}

(* A startup never takes the TP and SL of an open position away, whatever of its
   requests fail, although its look at the positions, its look at the orders and
   its cleanup are separate steps and an order of an earlier process may fill
   between them (services/position_service.py:68-84, bootstrap_service.py:351). *)
THEOREM ProtectionTheorem ==
    ASSUME App!ApplicationAssumption PROVE App!Spec => App!ProtectionKept
<1>1. App!Init => ProtectedInv
    BY AppInitially DEF ProtectedInv, App!Init
<1>2. ASSUME ProtectedInv, [App!Next]_App!vars PROVE ProtectedInv' /\ App!KeepsProtection
  <2>1. AppInv'
      BY <1>2, AppStep DEF ProtectedInv
  <2> USE DEF ProtectedInv, App!KeepsProtection, App!exchange, App!threads, App!Goto
  <2>2. ASSUME UNCHANGED <<position, protected>>, appPc' \notin {"orders", "cleanup"}
        PROVE  ProtectedInv' /\ App!KeepsProtection
      BY <1>2, <2>1, <2>2
  <2>3. CASE App!Boot \/ App!InstallHandlers \/ App!StartScheduler \/ App!FetchOrphans
             \/ App!ResumeRaises \/ App!ResumeEnds \/ App!LoopEnds \/ App!SaveRisk
             \/ App!StopStream
      BY <2>2, <2>3 DEF App!Boot, App!InstallHandlers, App!StartScheduler,
        App!FetchOrphans, App!ResumeRaises, App!ResumeEnds, App!LoopEnds, App!SaveRisk,
        App!StopStream
  <2>4. CASE App!Exit \/ App!SignalKills \/ App!Crash
      BY <2>2, <2>4 DEF App!Exit, App!SignalKills, App!Crash, App!ProcessEnds
  <2>5. CASE App!ReadPositions \/ App!ReadOrders
      BY <1>2, <2>1, <2>5 DEF App!ReadPositions, App!ReadOrders, App!AfterFailedRead
  <2>6. CASE App!Cleanup
      BY <1>2, <2>1, <2>6 DEF App!Cleanup
  <2>7. ASSUME NEW s \in Symbols, App!ResumeOrphan(s)
        PROVE  ProtectedInv' /\ App!KeepsProtection
      BY <1>2, <2>1, <2>7 DEF App!ResumeOrphan
  <2>8. CASE App!EntryEnds
      BY <1>2, <2>1, <2>8 DEF App!EntryEnds, App!EntryOver, App!LaunchMonitor,
        App!NotFilled, App!PriceAtStop, AppInv, Starting
  <2>9. ASSUME NEW s \in Symbols, App!SubmitEntry(s)
        PROVE  ProtectedInv' /\ App!KeepsProtection
      BY <1>2, <2>1, <2>9 DEF App!SubmitEntry
  <2>10. ASSUME NEW s \in Symbols, App!OrderFills(s)
         PROVE  ProtectedInv' /\ App!KeepsProtection
      BY <1>2, <2>1, <2>10 DEF App!OrderFills
  <2>11. ASSUME NEW s \in Symbols, App!PositionCloses(s)
         PROVE  ProtectedInv' /\ App!KeepsProtection
      BY <1>2, <2>1, <2>11 DEF App!PositionCloses
  <2>12. ASSUME NEW s \in Symbols, App!MonitorReports(s)
         PROVE  ProtectedInv' /\ App!KeepsProtection
      BY <1>2, <2>1, <2>12 DEF App!MonitorReports
  <2>13. CASE App!Signal \/ UNCHANGED App!vars
      BY <1>2, <2>1, <2>13 DEF App!Signal, App!vars
  <2> QED
      BY <1>2, <2>3, <2>4, <2>5, <2>6, <2>7, <2>8, <2>9, <2>10, <2>11, <2>12, <2>13
      DEF App!Next, App!MainStep, App!Environment
<1>3. ProtectedInv /\ [App!Next]_App!vars => [App!KeepsProtection]_App!vars
    BY <1>2
<1>4. ProtectedInv /\ [App!Next]_App!vars => ProtectedInv'
    BY <1>2
<1> QED BY <1>1, <1>3, <1>4, PTL DEF App!Spec, App!ProtectionKept

(* A startup finds every position, its own process's entry is the only one that
   works, and each position is between an orphan, a monitor and the entry. *)
WatchedInv ==
    /\ AppInv
    /\ order \subseteq {entering} \cap universe
    /\ position \subseteq universe
    /\ appPc \in {"run", "save", "stop", "exit"} => position \subseteq monitors \cup {entering}
    /\ appPc = "start" => position \subseteq monitors
    /\ appPc = "resume" => position \subseteq monitors \cup orphans

(* Once the scheduler runs, every position has a monitor or belongs to the entry
   in the works, over any number of crashes and restarts, as long as an entry that
   holds a position is reported as filled, no process dies in an entry, the universe
   stays the same, and the requests of resume_orphaned_positions are answered
   (services/position_service.py:160-204).  For the first, orders have the market
   fallback, the requests of the entries succeed and no fill equals its stop; with
   use_limit_only a filled entry may be reported as not filled without any failure
   (services/entry_service.py:745-774, 944-951). *)
THEOREM WatchedTheorem ==
    ASSUME App!ApplicationAssumption, ~AppLimitOnly, ~DieInEntry,
           {"orphans", "executor", "entry", "price_at_stop"} \cap AppFaults = {},
           \A u, v \in Universes : u = v
    PROVE  App!Spec => []App!PositionsWatched
<1>1. App!Init => WatchedInv
    BY AppInitially DEF WatchedInv, App!Init
<1>2. ASSUME WatchedInv, [App!Next]_App!vars PROVE WatchedInv'
  <2>1. AppInv'
      BY <1>2, AppStep DEF WatchedInv
  <2>2. universe \in Universes /\ universe' \in Universes
      BY <1>2, <2>1 DEF WatchedInv, AppInv, App!TypeOK
  <2>3. universe' = universe
      BY <2>2
  <2> USE DEF WatchedInv, App!exchange, App!threads, App!Goto, Starting
  <2>4. CASE App!Boot \/ App!InstallHandlers \/ App!ReadPositions \/ App!ReadOrders
      BY <1>2, <2>1, <2>3, <2>4 DEF App!Boot, App!InstallHandlers, App!ReadPositions,
        App!ReadOrders, App!AfterFailedRead
  <2>5. CASE App!Cleanup
      BY <1>2, <2>1, <2>3, <2>5 DEF App!Cleanup
  <2>6. CASE App!FetchOrphans \/ App!ResumeRaises
      BY <1>2, <2>1, <2>3, <2>6 DEF App!FetchOrphans, App!ResumeRaises
  <2>7. CASE App!ResumeEnds \/ App!StartScheduler
      BY <1>2, <2>1, <2>3, <2>7 DEF App!ResumeEnds, App!StartScheduler
  <2>8. CASE App!LoopEnds \/ App!SaveRisk \/ App!StopStream
      BY <1>2, <2>1, <2>3, <2>8 DEF App!LoopEnds, App!SaveRisk, App!StopStream
  <2>9. ASSUME NEW s \in Symbols, App!ResumeOrphan(s) PROVE WatchedInv'
      BY <1>2, <2>1, <2>3, <2>9 DEF App!ResumeOrphan, App!OrphansAfter
  <2>10. CASE App!Exit \/ App!SignalKills \/ App!Crash
    <3>1. App!ProcessEnds
        BY <2>10 DEF App!Exit, App!SignalKills, App!Crash
    <3>2. entering = NoSymbol /\ order = {}
        BY <1>2, <3>1 DEF App!ProcessEnds, AppInv, App!TypeOK, App!ApplicationAssumption
    <3> QED BY <1>2, <2>1, <2>3, <3>1, <3>2 DEF App!ProcessEnds
  <2>11. CASE App!EntryEnds
      BY <1>2, <2>1, <2>3, <2>11 DEF App!EntryEnds, App!EntryOver, App!LaunchMonitor,
        App!NotFilled, App!PriceAtStop, App!MayReportNothing, AppInv
  <2>12. ASSUME NEW s \in Symbols, App!SubmitEntry(s) PROVE WatchedInv'
    <3>1. NoSymbol \notin universe /\ appPc \notin Starting
        BY <1>2, <2>12 DEF App!SubmitEntry, AppInv, App!TypeOK, App!ApplicationAssumption
    <3>2. order = {}
        BY <1>2, <2>12, <3>1 DEF App!SubmitEntry
    <3> QED BY <1>2, <2>1, <2>3, <2>12, <3>1, <3>2 DEF App!SubmitEntry
  <2>13. ASSUME NEW s \in Symbols, App!OrderFills(s) PROVE WatchedInv'
    <3>1. s = entering /\ s # NoSymbol /\ appPc \notin Starting
        BY <1>2, <2>13 DEF App!OrderFills, AppInv, App!ApplicationAssumption
    <3> QED BY <1>2, <2>1, <2>3, <2>13, <3>1 DEF App!OrderFills
  <2>14. ASSUME NEW s \in Symbols, App!PositionCloses(s) PROVE WatchedInv'
      BY <1>2, <2>1, <2>3, <2>14 DEF App!PositionCloses
  <2>15. ASSUME NEW s \in Symbols, App!MonitorReports(s) PROVE WatchedInv'
      BY <1>2, <2>1, <2>3, <2>15 DEF App!MonitorReports
  <2>16. CASE App!Signal \/ UNCHANGED App!vars
      BY <1>2, <2>1, <2>3, <2>16 DEF App!Signal, App!vars
  <2> QED
      BY <1>2, <2>4, <2>5, <2>6, <2>7, <2>8, <2>9, <2>10, <2>11, <2>12, <2>13, <2>14,
         <2>15, <2>16
      DEF App!Next, App!MainStep, App!Environment
<1>3. WatchedInv => App!PositionsWatched
    BY DEF WatchedInv, App!PositionsWatched
<1> QED BY <1>1, <1>2, <1>3, PTL DEF App!Spec

-----------------------------------------------------------------------------
(* Configuration.                                                          *)

CONSTANTS Environments, Files, Pairs, Name, Volume, Liquid, TopCount, Requests
VARIABLES stage, given, lines, environ, settings, request, tradable, scanned

Startup == INSTANCE Configuration WITH Symbols <- Pairs, universe <- scanned

TextOrUnset == Startup!Texts \cup {Startup!Unset}

LEMMA StartupSmaller ==
    ASSUME NEW a \in Int, NEW b \in Int
    PROVE  Startup!Min({a, b}) = IF a <= b THEN a ELSE b
<1> DEFINE m == IF a <= b THEN a ELSE b
<1>1. m \in {a, b} /\ \A y \in {a, b} : m <= y
    OBVIOUS
<1>2. \A x \in {a, b} : (\A y \in {a, b} : x <= y) => x = m
    OBVIOUS
<1> HIDE DEF m
<1>3. Startup!Min({a, b}) = m
    BY <1>1, <1>2 DEF Startup!Min
<1> QED BY <1>3 DEF m

LEMMA StartupLarger ==
    ASSUME NEW a \in Int, NEW b \in Int
    PROVE  Startup!Max({a, b}) = IF a >= b THEN a ELSE b
<1> DEFINE m == IF a >= b THEN a ELSE b
<1>1. m \in {a, b} /\ \A y \in {a, b} : m >= y
    OBVIOUS
<1>2. \A x \in {a, b} : (\A y \in {a, b} : x >= y) => x = m
    OBVIOUS
<1> HIDE DEF m
<1>3. Startup!Max({a, b}) = m
    BY <1>1, <1>2 DEF Startup!Max
<1> QED BY <1>3 DEF m

(* _set_int and _set_float: in bounds, and the default if there is no text. *)
LEMMA BoundedLemma ==
    ASSUME NEW text \in TextOrUnset, NEW lowest \in Int, NEW highest \in Int,
           lowest <= highest, NEW default \in lowest .. highest
    PROVE  /\ Startup!Bounded(text, default, lowest, highest) \in lowest .. highest
           /\ text = Startup!Unset => Startup!Bounded(text, default, lowest, highest) = default
<1>1. CASE text \in Startup!Numbers
  <2> DEFINE n == Startup!Number(text)
             m == Startup!Max({lowest, n})
  <2>1. n \in Int
      BY <1>1 DEF Startup!Numbers, Startup!Number
  <2> HIDE DEF n
  <2>2. m \in Int /\ m >= lowest
      BY <2>1, StartupLarger
  <2> HIDE DEF m
  <2>3. Startup!Min({highest, m}) = IF highest <= m THEN highest ELSE m
      BY <2>2, StartupSmaller
  <2>4. Startup!Bounded(text, default, lowest, highest) = Startup!Min({highest, m})
      BY <1>1 DEF Startup!Bounded, m, n
  <2>5. text # Startup!Unset
      BY <1>1 DEF Startup!Numbers, Startup!Unset
  <2> QED BY <2>2, <2>3, <2>4, <2>5
<1>2. CASE text \notin Startup!Numbers
    BY <1>2 DEF Startup!Bounded
<1> QED BY <1>1, <1>2

(* The RSI bounds are the two numbers, in order. *)
LEMMA InOrderLemma ==
    ASSUME NEW low \in Int, NEW high \in Int
    PROVE  /\ Startup!InOrder(low, high).min <= Startup!InOrder(low, high).max
           /\ {low, high} = {Startup!InOrder(low, high).min, Startup!InOrder(low, high).max}
<1>1. /\ Startup!Min({low, high}) = IF low <= high THEN low ELSE high
      /\ Startup!Max({low, high}) = IF low >= high THEN low ELSE high
    BY StartupSmaller, StartupLarger
<1> QED BY <1>1 DEF Startup!InOrder

(* What a setting is when its text is missing, and that the bounds are in order. *)
Coherent(s) ==
    /\ s.rsiMin <= s.rsiMax
    /\ environ["MAX_HOLD_CANDLES"] = Startup!Unset => s.hold = 50
    /\ environ["BINANCE_TESTNET"] = Startup!Unset => s.testnet
    /\ environ["BLOCK_SELL_ON_INTERVALS"] = Startup!Unset => s.blocked = {"4h"}
    /\ environ["RSI_LONG_MIN"] = Startup!Unset => 48 \in {s.rsiMin, s.rsiMax}
    /\ environ["RSI_LONG_MAX"] = Startup!Unset => 68 \in {s.rsiMin, s.rsiMax}

SettingsInv ==
    /\ Startup!TypeOK
    /\ lines \in Seq(Startup!Keys \X Startup!Texts)
    /\ request \in Requests
    /\ \A k \in Startup!Keys : given[k] # Startup!Unset => environ[k] = given[k]
    /\ stage \in {"file", "settings"} => settings = Startup!Defaults
    /\ Coherent(settings)

LEMMA DefaultsCoherent ==
    Startup!Defaults \in Startup!Settings /\ Startup!Defaults.hold >= 1 /\ Coherent(Startup!Defaults)
BY DEF Startup!Defaults, Startup!Settings, Coherent

LowRsi == Startup!Bounded(environ["RSI_LONG_MIN"], Startup!Defaults.rsiMin, 0, 100)
HighRsi == Startup!Bounded(environ["RSI_LONG_MAX"], Startup!Defaults.rsiMax, 0, 100)
Held == Startup!Bounded(environ["MAX_HOLD_CANDLES"], Startup!Defaults.hold, 1, 10000)

(* from_env leaves settings in their bounds and coherent. *)
LEMMA FromEnvStep ==
    ASSUME SettingsInv, Startup!FromEnv
    PROVE  settings' \in Startup!Settings /\ settings'.hold >= 1 /\ Coherent(settings')
<1> DEFINE testnet == Startup!Switch(environ["BINANCE_TESTNET"], Startup!Defaults.testnet)
           blocked == Startup!Listed(environ["BLOCK_SELL_ON_INTERVALS"], Startup!Defaults.blocked)
           rsi == Startup!InOrder(LowRsi, HighRsi)
<1>1. \A k \in Startup!Keys : environ[k] \in TextOrUnset
    BY DEF SettingsInv, Startup!TypeOK, TextOrUnset
<1>2. Startup!Defaults = [hold |-> 50, rsiMin |-> 48, rsiMax |-> 68, testnet |-> TRUE,
                          blocked |-> {"4h"}]
    BY DEF Startup!Defaults
<1>3. /\ LowRsi \in 0 .. 100 /\ (environ["RSI_LONG_MIN"] = Startup!Unset => LowRsi = 48)
      /\ HighRsi \in 0 .. 100 /\ (environ["RSI_LONG_MAX"] = Startup!Unset => HighRsi = 68)
      /\ Held \in Nat \ {0} /\ (environ["MAX_HOLD_CANDLES"] = Startup!Unset => Held = 50)
  <2>1. /\ environ["RSI_LONG_MIN"] \in TextOrUnset /\ environ["RSI_LONG_MAX"] \in TextOrUnset
        /\ environ["MAX_HOLD_CANDLES"] \in TextOrUnset
      BY <1>1 DEF Startup!Keys
  <2>2. /\ Startup!Defaults.rsiMin = 48 /\ Startup!Defaults.rsiMax = 68
        /\ Startup!Defaults.hold = 50
      BY <1>2
  <2>3. 1 \in Int
      OBVIOUS
  <2>4. LowRsi \in 0 .. 100 /\ (environ["RSI_LONG_MIN"] = Startup!Unset => LowRsi = 48)
    <3>1. ASSUME NEW top \in Int, 48 <= top,
                 LowRsi = Startup!Bounded(environ["RSI_LONG_MIN"], 48, 0, top)
          PROVE  LowRsi \in 0 .. top /\ (environ["RSI_LONG_MIN"] = Startup!Unset => LowRsi = 48)
      <4>1. 48 \in 0 .. top /\ 0 <= top /\ 0 \in Int
          BY <3>1
      <4> QED BY <2>1, <3>1, <4>1, BoundedLemma, Zenon
    <3>2. LowRsi = Startup!Bounded(environ["RSI_LONG_MIN"], 48, 0, 100)
        BY <2>2 DEF LowRsi
    <3> QED BY <3>1, <3>2
  <2>5. HighRsi \in 0 .. 100 /\ (environ["RSI_LONG_MAX"] = Startup!Unset => HighRsi = 68)
    <3>1. ASSUME NEW top \in Int, 68 <= top,
                 HighRsi = Startup!Bounded(environ["RSI_LONG_MAX"], 68, 0, top)
          PROVE  HighRsi \in 0 .. top /\ (environ["RSI_LONG_MAX"] = Startup!Unset => HighRsi = 68)
      <4>1. 68 \in 0 .. top /\ 0 <= top /\ 0 \in Int
          BY <3>1
      <4> QED BY <2>1, <3>1, <4>1, BoundedLemma, Zenon
    <3>2. HighRsi = Startup!Bounded(environ["RSI_LONG_MAX"], 68, 0, 100)
        BY <2>2 DEF HighRsi
    <3> QED BY <3>1, <3>2
  <2>6. Held \in Nat \ {0} /\ (environ["MAX_HOLD_CANDLES"] = Startup!Unset => Held = 50)
    <3>1. ASSUME NEW top \in Int, 50 <= top,
                 Held = Startup!Bounded(environ["MAX_HOLD_CANDLES"], 50, 1, top)
          PROVE  Held \in Nat \ {0} /\ (environ["MAX_HOLD_CANDLES"] = Startup!Unset => Held = 50)
      <4>1. 50 \in 1 .. top /\ 1 <= top
          BY <3>1
      <4>2. /\ Held \in 1 .. top
            /\ environ["MAX_HOLD_CANDLES"] = Startup!Unset => Held = 50
          BY <2>1, <2>3, <3>1, <4>1, BoundedLemma, Zenon
      <4> QED BY <3>1, <4>2
    <3>2. Held = Startup!Bounded(environ["MAX_HOLD_CANDLES"], 50, 1, 10000)
        BY <2>2 DEF Held
    <3> QED BY <3>1, <3>2
  <2> QED BY <2>4, <2>5, <2>6
<1>4. testnet \in BOOLEAN /\ (environ["BINANCE_TESTNET"] = Startup!Unset => testnet)
    BY <1>2 DEF Startup!Switch
<1>5. /\ blocked \subseteq {"4h", "4H", "0", "60", "200", "WORD", "TRUE"}
      /\ environ["BLOCK_SELL_ON_INTERVALS"] = Startup!Unset => blocked = {"4h"}
  <2>1. environ["BLOCK_SELL_ON_INTERVALS"] \in TextOrUnset
      BY <1>1 DEF Startup!Keys
  <2> QED BY <1>2, <2>1
         DEF Startup!Listed, Startup!Upper, TextOrUnset, Startup!Texts, Startup!Numbers,
             Startup!Unset
<1>6. settings' = [hold |-> Held, rsiMin |-> rsi.min, rsiMax |-> rsi.max,
                   testnet |-> testnet, blocked |-> blocked]
    BY DEF Startup!FromEnv, LowRsi, HighRsi, Held
<1> HIDE DEF testnet, blocked
<1>7. /\ rsi.min \in 0 .. 100 /\ rsi.max \in 0 .. 100 /\ rsi.min <= rsi.max
      /\ {LowRsi, HighRsi} = {rsi.min, rsi.max}
  <2>1. LowRsi \in Int /\ HighRsi \in Int
      BY <1>3
  <2>2. /\ rsi.min <= rsi.max
        /\ {LowRsi, HighRsi} = {rsi.min, rsi.max}
      BY <2>1, InOrderLemma, Zenon
  <2> HIDE DEF rsi
  <2> QED BY <1>3, <2>2
<1> HIDE DEF rsi
<1>8. settings' \in Startup!Settings /\ settings'.hold >= 1
  <2>1. Held \in Nat /\ Held >= 1
      BY <1>3
  <2>2. settings'.hold = Held
      BY <1>6
  <2> QED BY <1>4, <1>5, <1>6, <1>7, <2>1, <2>2 DEF Startup!Settings
<1> QED BY <1>3, <1>4, <1>5, <1>6, <1>7, <1>8 DEF Coherent

(* A line sets what was not set. *)
LEMMA ReadLineStep ==
    ASSUME SettingsInv, Startup!ReadLine
    PROVE  /\ environ' \in [Startup!Keys -> TextOrUnset]
           /\ lines' \in Seq(Startup!Keys \X Startup!Texts)
           /\ \A k \in Startup!Keys : environ[k] # Startup!Unset => environ'[k] = environ[k]
           /\ \A k \in Startup!Keys : environ'[k] = Startup!Unset => environ[k] = Startup!Unset
<1> DEFINE key == Head(lines)[1]
           text == Head(lines)[2]
<1>1. /\ Head(lines) \in Startup!Keys \X Startup!Texts
      /\ Tail(lines) \in Seq(Startup!Keys \X Startup!Texts)
    BY DEF SettingsInv, Startup!ReadLine
<1>2. key \in Startup!Keys /\ text \in Startup!Texts
    BY <1>1
<1>3. environ' = IF environ[key] = Startup!Unset THEN [environ EXCEPT ![key] = text] ELSE environ
    BY DEF Startup!ReadLine, Startup!Put
<1>4. environ \in [Startup!Keys -> TextOrUnset] /\ lines' = Tail(lines)
    BY DEF SettingsInv, Startup!TypeOK, TextOrUnset, Startup!ReadLine
<1> HIDE DEF key, text
<1>5. environ' \in [Startup!Keys -> TextOrUnset]
    BY <1>2, <1>3, <1>4 DEF TextOrUnset
<1>6. \A k \in Startup!Keys : environ[k] # Startup!Unset => environ'[k] = environ[k]
    BY <1>2, <1>3, <1>4
<1> QED BY <1>1, <1>4, <1>5, <1>6

LEMMA SettingsInitially ==
    ASSUME Startup!ConfigurationAssumption, Startup!Init PROVE SettingsInv
<1>1. /\ given \in [Startup!Keys -> Startup!Texts \cup {Startup!Unset}] /\ environ = given
      /\ lines \in Seq(Startup!Keys \X Startup!Texts) /\ request \in Requests
      /\ settings = Startup!Defaults /\ stage = "file" /\ tradable = {} /\ scanned = {}
    BY DEF Startup!ConfigurationAssumption, Startup!Init
<1> QED BY <1>1, DefaultsCoherent DEF SettingsInv, Startup!TypeOK

(* What is asked for, allowed and scanned are pairs of the exchange. *)
LEMMA RequestType ==
    ASSUME Startup!ConfigurationAssumption, SettingsInv
    PROVE  /\ request.asked \subseteq Pairs /\ request.default \in Pairs
           /\ request.allow \subseteq Pairs /\ request.useTop \in BOOLEAN
           /\ Startup!Explicit \subseteq Pairs
           /\ Startup!Explicit \subseteq request.asked \cup {request.default}
BY DEF Startup!ConfigurationAssumption, SettingsInv, Startup!Explicit

LEMMA ScannedType ==
    ASSUME NEW known
    PROVE  /\ Startup!Passing(known) \subseteq tradable
           /\ tradable # {} => Startup!Passing(known) # {}
           /\ Startup!Scanned(known) \subseteq tradable
           /\ Startup!Explicit \cap tradable \subseteq Startup!Scanned(known)
BY DEF Startup!Passing, Startup!Scanned, Startup!Ranked, Startup!Top

(* SettingsInv is inductive. *)
LEMMA SettingsStep ==
    ASSUME Startup!ConfigurationAssumption, SettingsInv, [Startup!Next]_Startup!vars
    PROVE  SettingsInv'
<1>1. CASE Startup!ReadLine
  <2>1. /\ stage = "file" /\ settings = Startup!Defaults
        /\ UNCHANGED <<stage, given, settings, request, tradable, scanned>>
      BY <1>1 DEF Startup!ReadLine, SettingsInv
  <2>2. \A k \in Startup!Keys : given[k] # Startup!Unset => environ'[k] = given[k]
      BY <1>1, ReadLineStep DEF SettingsInv
  <2>3. Coherent(settings)'
      BY <2>1 DEF Coherent, Startup!Defaults
  <2> QED BY <1>1, <2>1, <2>2, <2>3, ReadLineStep DEF SettingsInv, Startup!TypeOK, TextOrUnset
<1>2. CASE Startup!FileEnds
    BY <1>2 DEF Startup!FileEnds, SettingsInv, Startup!TypeOK, Coherent
<1>3. CASE Startup!FromEnv
  <2>1. stage' = "info" /\ UNCHANGED <<given, lines, environ, request, tradable, scanned>>
      BY <1>3 DEF Startup!FromEnv
  <2>2. Coherent(settings)'
      BY <1>3, <2>1, FromEnvStep DEF Coherent
  <2>3. scanned = {}
      BY <1>3 DEF Startup!FromEnv, SettingsInv, Startup!TypeOK
  <2> QED BY <1>3, <2>1, <2>2, <2>3, FromEnvStep DEF SettingsInv, Startup!TypeOK
<1>4. CASE Startup!ReadInfo
  <2>1. /\ stage' \in {"ready", "tickers"} /\ UNCHANGED <<given, lines, environ, settings, request>>
        /\ tradable' \subseteq Pairs /\ scanned' \subseteq Pairs
        /\ stage' # "ready" => scanned' = {}
      BY <1>4, RequestType DEF Startup!ReadInfo, SettingsInv, Startup!TypeOK
  <2> QED BY <2>1 DEF SettingsInv, Startup!TypeOK, Coherent
<1>5. CASE Startup!ReadTickers
  <2>1. /\ stage' = "ready" /\ UNCHANGED <<given, lines, environ, settings, request, tradable>>
        /\ scanned' \subseteq tradable
      BY <1>5, ScannedType DEF Startup!ReadTickers
  <2> QED BY <2>1 DEF SettingsInv, Startup!TypeOK, Coherent
<1>6. CASE UNCHANGED Startup!vars
    BY <1>6 DEF Startup!vars, SettingsInv, Startup!TypeOK, Coherent
<1> QED BY <1>1, <1>2, <1>3, <1>4, <1>5, <1>6 DEF Startup!Next

(* Every setting stays within its bounds, whatever the environment and the file
   hold, and nothing is scanned before the universe is known
   (config.py:128-200, 326-345, services/bootstrap_service.py:138-195). *)
THEOREM StartupTypeCorrect ==
    ASSUME Startup!ConfigurationAssumption PROVE Startup!Spec => []Startup!TypeOK
<1>1. SettingsInv => Startup!TypeOK
    BY DEF SettingsInv
<1> QED BY <1>1, SettingsInitially, SettingsStep, PTL DEF Startup!Spec

(* For any environment and any .env file, of any length and however often a
   line repeats a name: the environment of the process wins, a default stands
   unless a text replaces it, and the RSI bounds are in order
   (config.py:128-144, 155-200, 376-378). *)
THEOREM SettingsTheorem ==
    ASSUME Startup!ConfigurationAssumption PROVE Startup!Spec => []Startup!SettingsCoherent
<1>1. SettingsInv => Startup!SettingsCoherent
  <2> SUFFICES ASSUME SettingsInv, NEW k \in Startup!Keys, environ[k] = Startup!Unset
               PROVE  CASE k = "MAX_HOLD_CANDLES"        -> settings.hold = Startup!Defaults.hold
                        [] k = "BINANCE_TESTNET"         -> settings.testnet
                        [] k = "BLOCK_SELL_ON_INTERVALS" ->
                             settings.blocked = Startup!Defaults.blocked
                        [] k = "RSI_LONG_MIN" ->
                             Startup!Defaults.rsiMin \in {settings.rsiMin, settings.rsiMax}
                        [] k = "RSI_LONG_MAX" ->
                             Startup!Defaults.rsiMax \in {settings.rsiMin, settings.rsiMax}
      BY DEF Startup!SettingsCoherent, SettingsInv, Coherent
  <2> QED BY DEF Startup!Keys, Startup!Defaults, SettingsInv, Coherent
<1> QED BY <1>1, SettingsInitially, SettingsStep, PTL DEF Startup!Spec

-----------------------------------------------------------------------------
(* The universe.                                                           *)

(* The order of _rank: by volume if it is known, then by name. *)
Precedes(r, s, known) ==
    IF known /\ Volume[r] # Volume[s] THEN Volume[r] > Volume[s] ELSE Name[r] < Name[s]
Before(set, s, known) == {r \in set : Precedes(r, s, known)}

LEMMA StartupFinite ==
    \A S : /\ Startup!Cardinality(S) = Cardinality(S)
           /\ Startup!IsFiniteSet(S) <=> IsFiniteSet(S)
<1>1. \A S : Startup!Cardinality(S) = Cardinality(S)
    BY Zenon DEF Cardinality, Startup!Cardinality
<1>2. \A S : Startup!IsFiniteSet(S) <=> IsFiniteSet(S)
    BY Zenon DEF IsFiniteSet, Startup!IsFiniteSet
<1> QED BY <1>1, <1>2

(* The order is total, so the ranks of the pairs of a set differ and start at 0. *)
LEMMA RankLemma ==
    ASSUME Startup!ConfigurationAssumption, NEW set \in SUBSET Pairs, NEW known \in BOOLEAN
    PROVE  /\ IsFiniteSet(set)
           /\ \A s \in set : Cardinality(Before(set, s, known)) \in 0 .. Cardinality(set) - 1
           /\ \A s, r \in set :
                Cardinality(Before(set, s, known)) = Cardinality(Before(set, r, known)) => s = r
<1>1. IsFiniteSet(Pairs) /\ Name \in [Pairs -> Nat] /\ Volume \in [Pairs -> Nat]
    BY StartupFinite DEF Startup!ConfigurationAssumption
<1>2. \A s, r \in Pairs : Name[s] = Name[r] => s = r
    BY DEF Startup!ConfigurationAssumption
<1>3. IsFiniteSet(set)
    BY <1>1, FS_Subset
<1>4. ASSUME NEW s \in set
      PROVE  /\ IsFiniteSet(Before(set, s, known))
             /\ Cardinality(Before(set, s, known)) \in 0 .. Cardinality(set) - 1
  <2>1. s \notin Before(set, s, known) /\ Before(set, s, known) \subseteq set
      BY <1>1 DEF Before, Precedes
  <2>2. /\ IsFiniteSet(Before(set, s, known)) /\ Cardinality(Before(set, s, known)) <= Cardinality(set)
        /\ Cardinality(Before(set, s, known)) # Cardinality(set)
      BY <1>3, <2>1, FS_Subset
  <2>3. Cardinality(Before(set, s, known)) \in Nat /\ Cardinality(set) \in Nat
      BY <1>3, <2>2, FS_CardinalityType
  <2> QED BY <2>2, <2>3
<1>5. ASSUME NEW s \in set, NEW r \in set, Precedes(s, r, known)
      PROVE  Cardinality(Before(set, s, known)) # Cardinality(Before(set, r, known))
  <2>1. Before(set, s, known) \subseteq Before(set, r, known)
    <3> SUFFICES ASSUME NEW q \in set, Precedes(q, s, known) PROVE Precedes(q, r, known)
        BY DEF Before
    <3> QED BY <1>1, <1>5 DEF Precedes
  <2>2. s \in Before(set, r, known) /\ s \notin Before(set, s, known)
      BY <1>1, <1>5 DEF Before, Precedes
  <2> QED BY <1>4, <2>1, <2>2, FS_Subset
<1>6. \A s, r \in set : s # r => Precedes(s, r, known) \/ Precedes(r, s, known)
    BY <1>1, <1>2 DEF Precedes
<1> QED BY <1>3, <1>4, <1>5, <1>6

(* The top of a set is no larger than asked for, and not empty. *)
LEMMA TopLemma ==
    ASSUME Startup!ConfigurationAssumption, NEW set \in SUBSET Pairs, NEW known \in BOOLEAN
    PROVE  LET top == Startup!Top(set, TopCount, known)
           IN  /\ IsFiniteSet(top) /\ Cardinality(top) <= TopCount
               /\ set # {} => top # {}
<1> DEFINE rank == [s \in set |-> Cardinality(Before(set, s, known))]
           top == {s \in set : rank[s] < TopCount}
           n == Cardinality(set)
<1>1. TopCount \in Nat /\ TopCount > 0
    BY DEF Startup!ConfigurationAssumption
<1>2. Startup!Top(set, TopCount, known) = top
    BY StartupFinite DEF Startup!Top, Before, Precedes
<1>3. IsFiniteSet(set) /\ n \in Nat
    BY RankLemma, FS_CardinalityType
<1>4. rank \in Injection(set, 0 .. n - 1)
  <2>1. rank \in [set -> 0 .. n - 1] /\ \A s, r \in set : rank[s] = rank[r] => s = r
      BY RankLemma
  <2> HIDE DEF rank
  <2> QED BY <2>1 DEF Injection, IsInjective
<1> HIDE DEF rank
<1>5. /\ IsFiniteSet(0 .. n - 1) /\ Cardinality(0 .. n - 1) = n
      /\ IsFiniteSet(0 .. TopCount - 1) /\ Cardinality(0 .. TopCount - 1) = TopCount
  <2>1. ASSUME NEW m \in Nat
        PROVE  IsFiniteSet(0 .. m - 1) /\ Cardinality(0 .. m - 1) = m
    <3>1. 0 \in Int /\ m - 1 \in Int
        BY <2>1
    <3>2. /\ IsFiniteSet(0 .. m - 1)
          /\ Cardinality(0 .. m - 1) = IF 0 > m - 1 THEN 0 ELSE (m - 1) - 0 + 1
        BY <3>1, FS_Interval, Zenon
    <3> QED BY <3>2
  <2> QED BY <1>1, <1>3, <2>1
<1>6. [s \in top |-> rank[s]] \in Injection(top, 0 .. TopCount - 1)
  <2>1. \A s \in top : rank[s] \in 0 .. TopCount - 1
      BY <1>1, <1>3, <1>4 DEF Injection
  <2>2. \A s, r \in top : rank[s] = rank[r] => s = r
      BY <1>4 DEF Injection, IsInjective
  <2> HIDE DEF top
  <2> QED BY <2>1, <2>2 DEF Injection, IsInjective
<1>7. IsFiniteSet(top) /\ Cardinality(top) <= TopCount
    BY <1>5, <1>6, FS_Injection
<1>8. ASSUME set # {} PROVE top # {}
  <2>1. n # 0
      BY <1>3, <1>8, FS_EmptySet
  <2>2. rank \in Surjection(set, 0 .. n - 1)
      BY <1>4, <1>5, FS_Injection
  <2>3. 0 \in 0 .. n - 1
      BY <1>3, <2>1
  <2>4. PICK s \in set : rank[s] = 0
      BY <2>2, <2>3 DEF Surjection
  <2> QED BY <1>1, <2>4
<1> QED BY <1>2, <1>7, <1>8

(* What the exchange said is not forgotten, and tickers are asked for only when
   it said something. *)
UniverseInv ==
    /\ SettingsInv
    /\ stage \in {"file", "settings", "info"} => tradable = {}
    /\ stage = "tickers" => tradable # {}
    /\ Startup!UniverseHonest

(* Nothing more than the top, the allowlist and the explicit symbols. *)
LEMMA ScannedCount ==
    ASSUME Startup!ConfigurationAssumption, SettingsInv, NEW known \in BOOLEAN, request.useTop
    PROVE  Cardinality(Startup!Scanned(known) \
               (Startup!Explicit \cup request.allow \cup {request.default})) <= TopCount
<1> DEFINE top == Startup!Top(Startup!Passing(known), TopCount, known)
           rest == Startup!Scanned(known) \
                     (Startup!Explicit \cup request.allow \cup {request.default})
<1>1. Startup!Passing(known) \in SUBSET Pairs
    BY ScannedType DEF SettingsInv, Startup!TypeOK
<1>2. IsFiniteSet(top) /\ Cardinality(top) <= TopCount
    BY <1>1, TopLemma
<1>3. rest \in SUBSET top
    BY DEF Startup!Scanned, Startup!Ranked
<1> HIDE DEF top, rest
<1>4. Cardinality(rest) <= Cardinality(top) /\ Cardinality(rest) \in Nat /\ Cardinality(top) \in Nat
    BY <1>2, <1>3, FS_Subset, FS_CardinalityType
<1>5. TopCount \in Nat
    BY DEF Startup!ConfigurationAssumption
<1> QED BY <1>2, <1>4, <1>5 DEF rest

LEMMA ReadTickersStep ==
    ASSUME Startup!ConfigurationAssumption, UniverseInv, Startup!ReadTickers
    PROVE  Startup!UniverseHonest'
<1>1. PICK known \in BOOLEAN : scanned' = Startup!Scanned(known)
    BY DEF Startup!ReadTickers
<1>2. /\ tradable # {} /\ tradable \subseteq Pairs /\ UNCHANGED <<tradable, request>>
      /\ Startup!Explicit' = Startup!Explicit
    BY DEF Startup!ReadTickers, UniverseInv, SettingsInv, Startup!TypeOK, Startup!Explicit
<1>3. scanned' # {}
  <2>1. Startup!Ranked(known) # {}
    <3>1. CASE request.useTop
      <4>1. Startup!Passing(known) \in SUBSET Pairs /\ Startup!Passing(known) # {}
          BY <1>2, ScannedType
      <4> QED BY <3>1, <4>1, TopLemma DEF Startup!Ranked
    <3>2. CASE ~request.useTop
        BY <1>2, <3>2 DEF Startup!Ranked
    <3> QED BY <3>1, <3>2
  <2> QED BY <1>1, <2>1 DEF Startup!Scanned
<1>4. request.useTop =>
        Startup!Cardinality(scanned' \
            (Startup!Explicit \cup request.allow \cup {request.default})) <= TopCount
    BY <1>1, ScannedCount, StartupFinite DEF UniverseInv
<1> QED BY <1>1, <1>2, <1>3, <1>4, ScannedType DEF Startup!UniverseHonest

LEMMA ReadInfoStep ==
    ASSUME Startup!ConfigurationAssumption, UniverseInv, Startup!ReadInfo
    PROVE  /\ Startup!UniverseHonest'
           /\ stage' = "tickers" => tradable' # {}
<1>1. tradable = {} /\ UNCHANGED request /\ Startup!Explicit' = Startup!Explicit /\ scanned = {}
    BY DEF Startup!ReadInfo, UniverseInv, SettingsInv, Startup!TypeOK, Startup!Explicit
<1>2. CASE tradable' # {} /\ ~request.useTop /\ Startup!Explicit \cap tradable' # {}
           /\ stage' = "ready" /\ scanned' = Startup!Explicit \cap tradable'
    BY <1>1, <1>2 DEF Startup!UniverseHonest
<1>3. CASE tradable' # {} /\ stage' = "tickers"
    BY <1>3 DEF Startup!UniverseHonest
<1>4. CASE stage' = "ready" /\ scanned' = request.asked \cup {request.default} /\ UNCHANGED tradable
  <2> DEFINE rest == scanned' \ (Startup!Explicit \cup request.allow \cup {request.default})
  <2>1. rest = {}
      BY <1>4 DEF Startup!Explicit
  <2>2. Startup!Cardinality(rest) <= TopCount
    <3>1. Cardinality({}) = 0
        BY FS_EmptySet
    <3>2. Startup!Cardinality(rest) = 0
        BY <2>1, <3>1, StartupFinite
    <3> HIDE DEF rest
    <3> QED BY <3>2 DEF Startup!ConfigurationAssumption
  <2> QED BY <1>1, <1>4, <2>2 DEF Startup!UniverseHonest
<1> QED BY <1>2, <1>3, <1>4 DEF Startup!ReadInfo

(* For any request and any list of pairs, and whichever of the two requests are
   answered: there is something to scan, what was asked for by name and can be
   traded is in it, nothing that cannot be traded is, and the top adds no more
   than top_volume_symbols_count (services/bootstrap_service.py:138-195). *)
THEOREM UniverseTheorem ==
    ASSUME Startup!ConfigurationAssumption PROVE Startup!Spec => []Startup!UniverseHonest
<1>1. Startup!Init => UniverseInv
    BY SettingsInitially DEF Startup!Init, UniverseInv, Startup!UniverseHonest
<1>2. ASSUME UniverseInv, [Startup!Next]_Startup!vars PROVE UniverseInv'
  <2>1. SettingsInv'
      BY <1>2, SettingsStep DEF UniverseInv
  <2>2. ASSUME UNCHANGED <<tradable, scanned, request>>,
               stage' = stage \/ {stage, stage'} \subseteq {"file", "settings", "info"}
        PROVE  UniverseInv'
      BY <1>2, <2>1, <2>2 DEF UniverseInv, Startup!UniverseHonest, Startup!Explicit
  <2>3. CASE Startup!ReadLine \/ Startup!FileEnds \/ Startup!FromEnv
      BY <2>2, <2>3 DEF Startup!ReadLine, Startup!FileEnds, Startup!FromEnv
  <2>4. CASE Startup!ReadInfo
    <3>1. stage' \in {"ready", "tickers"}
        BY <2>4 DEF Startup!ReadInfo
    <3> QED BY <1>2, <2>1, <2>4, <3>1, ReadInfoStep DEF UniverseInv
  <2>5. CASE Startup!ReadTickers
    <3>1. stage' = "ready"
        BY <2>5 DEF Startup!ReadTickers
    <3> QED BY <1>2, <2>1, <2>5, <3>1, ReadTickersStep DEF UniverseInv
  <2>6. CASE UNCHANGED Startup!vars
      BY <2>2, <2>6 DEF Startup!vars
  <2> QED BY <1>2, <2>3, <2>4, <2>5, <2>6 DEF Startup!Next
<1>3. UniverseInv => Startup!UniverseHonest
    BY DEF UniverseInv
<1> QED BY <1>1, <1>2, <1>3, PTL DEF Startup!Spec

-----------------------------------------------------------------------------
(* AccountLimit, the abstract specification EntryService implements but    *)
(* for stray fills.                                                        *)

CONSTANT MaxPositions
VARIABLES opened, atWork

Limit == INSTANCE AccountLimit WITH positions <- opened, working <- atWork

(* An entry at work keeps its room. *)
LimitInv ==
    /\ opened \cup atWork \subseteq Symbols
    /\ Cardinality(opened \cup atWork) <= MaxPositions

LEMMA LimitStep ==
    ASSUME IsFiniteSet(Symbols), MaxPositions \in Nat, LimitInv, [Limit!Next]_Limit!account
    PROVE  LimitInv'
<1> DEFINE taken == opened \cup atWork
<1>1. /\ IsFiniteSet(taken) /\ taken \subseteq Symbols
      /\ Cardinality(taken) \in Nat /\ Cardinality(taken) <= MaxPositions
    BY FS_Subset, FS_CardinalityType DEF LimitInv
<1>2. ASSUME taken' \subseteq taken PROVE LimitInv'
  <2>1. Cardinality(taken') <= Cardinality(taken) /\ Cardinality(taken') \in Nat
      BY <1>1, <1>2, FS_Subset, FS_CardinalityType
  <2> QED BY <1>1, <1>2, <2>1 DEF LimitInv
<1>3. ASSUME NEW s \in Symbols, Limit!Admit(s) PROVE LimitInv'
  <2>1. taken = opened /\ taken' = taken \cup {s} /\ s \notin taken
      BY <1>3 DEF Limit!Admit
  <2>2. Limit!Cardinality(opened) = Cardinality(opened)
      BY Zenon DEF Cardinality, Limit!Cardinality
  <2>3. Cardinality(taken) < MaxPositions
      BY <1>3, <2>1, <2>2 DEF Limit!Admit
  <2>4. Cardinality(taken') = Cardinality(taken) + 1
      BY <1>1, <2>1, FS_AddElement
  <2>5. taken' \subseteq Symbols
      BY <1>1, <2>1
  <2> QED BY <1>1, <2>3, <2>4, <2>5 DEF LimitInv
<1>4. ASSUME NEW s \in Symbols, Limit!Fill(s) PROVE LimitInv'
    BY <1>2, <1>4 DEF Limit!Fill
<1>5. ASSUME NEW s \in Symbols, Limit!Close(s) PROVE LimitInv'
    BY <1>2, <1>5 DEF Limit!Close
<1>6. CASE Limit!End
    BY <1>2, <1>6 DEF Limit!End
<1>7. CASE UNCHANGED Limit!account
    BY <1>2, <1>7 DEF Limit!account
<1> QED BY <1>3, <1>4, <1>5, <1>6, <1>7 DEF Limit!Next

(* A program whose entries keep the promise of AccountLimit never holds more
   than max_positions positions, however many fills, closes and failed entries
   come between (services/entry_service.py:896). *)
THEOREM LimitTheorem ==
    ASSUME IsFiniteSet(Symbols), MaxPositions \in Nat
    PROVE  Limit!Spec => []Limit!WithinLimit
<1>1. \A S : Limit!Cardinality(S) = Cardinality(S)
    BY Zenon DEF Cardinality, Limit!Cardinality
<1>2. Limit!Init => LimitInv
    BY <1>1 DEF Limit!Init, LimitInv
<1>3. LimitInv => Limit!WithinLimit
  <2> SUFFICES ASSUME LimitInv PROVE Limit!WithinLimit
      OBVIOUS
  <2>1. /\ Cardinality(opened) <= Cardinality(opened \cup atWork)
        /\ {Cardinality(opened), Cardinality(opened \cup atWork)} \subseteq Nat
      BY FS_Subset, FS_CardinalityType DEF LimitInv
  <2> QED BY <1>1, <2>1 DEF LimitInv, Limit!WithinLimit
<1> QED BY <1>2, <1>3, LimitStep, PTL DEF Limit!Spec

-----------------------------------------------------------------------------
(* ExecutorRegistry.                                                       *)

CONSTANTS Threads, NoThread, Leverage, LeverageLimits, RiskLots, SetupFaults, MaxCalls
VARIABLES registryPc, symbol, lev, executors, executorsLock, loaded, metadataLock, limit,
          heldBefore, leverage, isolated, calls

Registry == INSTANCE ExecutorRegistry
    WITH pc <- registryPc, held <- heldBefore, Limits <- LeverageLimits,
         Faults <- SetupFaults

USE DEF Registry!local, Registry!registry, Registry!metadata, Registry!account,
        Registry!market, Registry!InSetup

(* The types hold before the first call. *)
LEMMA RegistryInitially ==
    ASSUME Registry!RegistryAssumption, Registry!Init PROVE Registry!TypeOK
<1>1. (CHOOSE s \in Symbols : TRUE) \in Symbols
    BY DEF Registry!RegistryAssumption
<1>2. Leverage \in 1 .. Leverage /\ 0 \in 0 .. Leverage /\ 0 \in 0 .. MaxCalls
    BY DEF Registry!RegistryAssumption
<1> QED BY <1>1, <1>2 DEF Registry!Init, Registry!TypeOK

(* The step-down stays between one and the leverage it starts from, and ends
   less than five below any limit the start is above. *)
LEMMA StepDownBound ==
    ASSUME NEW l \in Nat \ {0}, NEW top \in Nat, l > top
    PROVE  Registry!StepDown(l) \in 1 .. l /\ Registry!StepDown(l) + 5 > top
BY DEF Registry!StepDown

LEMMA TypesOfLeverage ==
    ASSUME Registry!RegistryAssumption, Registry!TypeOK, NEW t \in Threads
    PROVE  lev[t] \in Nat \ {0} /\ limit[symbol[t]] \in Nat
<1>1. lev[t] \in 1 .. Leverage /\ Leverage \in Nat
    BY DEF Registry!RegistryAssumption, Registry!TypeOK
<1>2. symbol[t] \in Symbols
    BY DEF Registry!TypeOK
<1>3. limit[symbol[t]] \in LeverageLimits
    BY <1>2 DEF Registry!TypeOK
<1>4. limit[symbol[t]] \in Nat
    BY <1>3 DEF Registry!RegistryAssumption
<1>5. \A m \in Nat : \A n \in 1 .. m : n \in Nat \ {0}
    OBVIOUS
<1> QED BY <1>1, <1>4, <1>5

(* Every step keeps them. *)
LEMMA RegistryTypes ==
    ASSUME Registry!RegistryAssumption, Registry!TypeOK, [Registry!Next]_Registry!vars
    PROVE  Registry!TypeOK'
<1> USE DEF Registry!RegistryAssumption, Registry!TypeOK
<1>1. ASSUME NEW t \in Threads, NEW s \in Symbols, Registry!Call(t, s) PROVE Registry!TypeOK'
    BY <1>1 DEF Registry!Call, Registry!Goto
<1>2. ASSUME NEW t \in Threads, Registry!FoundExecutor(t) PROVE Registry!TypeOK'
    BY <1>2 DEF Registry!FoundExecutor, Registry!Goto
<1>3. ASSUME NEW t \in Threads, Registry!NewExecutor(t) PROVE Registry!TypeOK'
    BY <1>3 DEF Registry!NewExecutor, Registry!Goto
<1>4. ASSUME NEW t \in Threads, Registry!ChangeMarginType(t) PROVE Registry!TypeOK'
    BY <1>4 DEF Registry!ChangeMarginType, Registry!MarginTypeAfter, Registry!Goto
<1>5. ASSUME NEW t \in Threads, Registry!LeverageRejected(t) PROVE Registry!TypeOK'
  <2>1. lev[t] \in Nat \ {0} /\ limit[symbol[t]] \in Nat
      BY TypesOfLeverage
  <2>2. lev[t] > limit[symbol[t]] /\ lev[t] \in 1 .. Leverage
      BY <1>5 DEF Registry!LeverageRejected
  <2>3. Registry!StepDown(lev[t]) \in 1 .. lev[t]
      BY <2>1, <2>2, StepDownBound
  <2>4. Registry!StepDown(lev[t]) \in 1 .. Leverage
      BY <2>2, <2>3
  <2> QED BY <1>5, <2>4 DEF Registry!LeverageRejected
<1>6. ASSUME NEW t \in Threads, Registry!LeverageAccepted(t) PROVE Registry!TypeOK'
    BY <1>6 DEF Registry!LeverageAccepted, Registry!Kept, Registry!Goto
<1>7. ASSUME NEW t \in Threads, Registry!SetupRaises(t) PROVE Registry!TypeOK'
    BY <1>7 DEF Registry!SetupRaises, Registry!Goto
<1>8. ASSUME NEW t \in Threads,
             Registry!ReadFilters(t) \/ Registry!StartLoad(t) \/ Registry!Load(t)
      PROVE  Registry!TypeOK'
    BY <1>8 DEF Registry!ReadFilters, Registry!StartLoad, Registry!Load, Registry!Goto
<1>9. CASE UNCHANGED Registry!vars
    BY <1>9 DEF Registry!vars
<1> QED BY <1>1, <1>2, <1>3, <1>4, <1>5, <1>6, <1>7, <1>8, <1>9 DEF Registry!Next, Registry!Step

(* No thread tries a leverage above the settings', and no executor has one, for any
   threads, limits and faults (execution.py:229-254). *)
THEOREM RegistryTypeCorrect ==
    ASSUME Registry!RegistryAssumption PROVE Registry!Spec => []Registry!TypeOK
BY RegistryInitially, RegistryTypes, PTL DEF Registry!Spec

(* What makes the properties inductive: the lock is held exactly by a thread in
   setup; its symbol has no executor yet; and the leverage a thread tries, or is
   about to try, is the first one or less than five below the limit. *)
SetupLocked == \A t \in Threads : registryPc[t] \in Registry!InSetup <=> executorsLock = t

NotYetSetUp == \A t \in Threads : registryPc[t] \in Registry!InSetup => executors[symbol[t]] = 0

Tried ==
    \A t \in Threads : registryPc[t] \in Registry!InSetup \cup {"lock"} =>
        lev[t] = Leverage \/ lev[t] + 5 > limit[symbol[t]]

SetupInv ==
    /\ Registry!TypeOK /\ SetupLocked /\ NotYetSetUp /\ Tried
    /\ Registry!LeverageAgrees /\ Registry!LeverageNotWasted

LEMMA SetupInitially ==
    ASSUME Registry!RegistryAssumption, Registry!Init PROVE SetupInv
<1>1. Registry!TypeOK
    BY RegistryInitially
<1> QED
    BY <1>1 DEF Registry!RegistryAssumption, Registry!Init, SetupInv, SetupLocked,
      NotYetSetUp, Tried, Registry!LeverageAgrees, Registry!LeverageNotWasted

(* SetupInv is inductive. *)
LEMMA SetupStep ==
    ASSUME Registry!RegistryAssumption, SetupInv, [Registry!Next]_Registry!vars
    PROVE  SetupInv'
<1>0. Registry!TypeOK'
    BY RegistryTypes DEF SetupInv
<1> USE <1>0
    DEF Registry!RegistryAssumption, Registry!TypeOK, SetupInv, SetupLocked, NotYetSetUp,
        Tried, Registry!LeverageAgrees, Registry!LeverageNotWasted
<1>1. ASSUME NEW t \in Threads, NEW s \in Symbols, Registry!Call(t, s) PROVE SetupInv'
  <2>1. /\ registryPc[t] = "idle" /\ registryPc' = [registryPc EXCEPT ![t] = "lock"]
        /\ symbol' = [symbol EXCEPT ![t] = s]
        /\ lev' = [lev EXCEPT ![t] = Leverage]
        /\ UNCHANGED <<executors, executorsLock, limit, leverage>>
      BY <1>1 DEF Registry!Call, Registry!Goto
  <2>2. Registry!LeverageAgrees' /\ Registry!LeverageNotWasted'
      BY <2>1
  <2>3. /\ registryPc'[t] = "lock" /\ lev'[t] = Leverage
        /\ \A u \in Threads \ {t} :
              registryPc'[u] = registryPc[u] /\ symbol'[u] = symbol[u] /\ lev'[u] = lev[u]
      BY <2>1
  <2>4. SetupLocked'
      BY <2>1
  <2>5. NotYetSetUp' /\ Tried'
      BY <2>1, <2>3
  <2> QED BY <2>2, <2>4, <2>5
<1>2. ASSUME NEW t \in Threads, Registry!FoundExecutor(t) PROVE SetupInv'
    BY <1>2 DEF Registry!FoundExecutor, Registry!Goto
<1>3. ASSUME NEW t \in Threads, Registry!NewExecutor(t) PROVE SetupInv'
  <2>1. /\ registryPc[t] = "lock" /\ executorsLock = NoThread /\ executors[symbol[t]] = 0
        /\ registryPc' = [registryPc EXCEPT ![t] = "margin"] /\ executorsLock' = t
        /\ UNCHANGED <<symbol, lev, executors, limit, leverage>>
      BY <1>3 DEF Registry!NewExecutor, Registry!LockFree, Registry!Goto
  <2>2. Registry!LeverageAgrees' /\ Registry!LeverageNotWasted'
      BY <2>1
  <2>3. \A u \in Threads \ {t} :
            registryPc[u] \notin Registry!InSetup /\ registryPc'[u] = registryPc[u]
      BY <2>1
  <2>4. SetupLocked' /\ NotYetSetUp'
      BY <2>1, <2>3
  <2>5. Tried'
      BY <2>1, <2>3
  <2> QED BY <2>2, <2>4, <2>5
<1>4. ASSUME NEW t \in Threads, Registry!ChangeMarginType(t) PROVE SetupInv'
    BY <1>4 DEF Registry!ChangeMarginType, Registry!Goto
<1>5. ASSUME NEW t \in Threads, Registry!LeverageRejected(t) PROVE SetupInv'
  <2>1. lev[t] \in Nat \ {0} /\ limit[symbol[t]] \in Nat
      BY TypesOfLeverage
  <2>2. lev[t] > limit[symbol[t]]
      BY <1>5 DEF Registry!LeverageRejected
  <2>3. Registry!StepDown(lev[t]) + 5 > limit[symbol[t]]
      BY <2>1, <2>2, StepDownBound
  <2>4. /\ lev' = [lev EXCEPT ![t] = Registry!StepDown(lev[t])]
        /\ UNCHANGED <<registryPc, symbol, executors, executorsLock, limit, leverage>>
      BY <1>5 DEF Registry!LeverageRejected
  <2>5. SetupLocked' /\ NotYetSetUp' /\ Registry!LeverageAgrees' /\ Registry!LeverageNotWasted'
      BY <2>4
  <2>6. Tried'
      BY <2>3, <2>4
  <2> QED BY <2>5, <2>6
<1>6. ASSUME NEW t \in Threads, Registry!LeverageAccepted(t) PROVE SetupInv'
    BY <1>6 DEF Registry!LeverageAccepted, Registry!Kept, Registry!Goto
<1>7. ASSUME NEW t \in Threads, Registry!SetupRaises(t) PROVE SetupInv'
    BY <1>7 DEF Registry!SetupRaises, Registry!Goto
<1>8. ASSUME NEW t \in Threads,
             Registry!ReadFilters(t) \/ Registry!StartLoad(t) \/ Registry!Load(t)
      PROVE  SetupInv'
    BY <1>8 DEF Registry!ReadFilters, Registry!StartLoad, Registry!Load, Registry!Goto
<1>9. CASE UNCHANGED Registry!vars
    BY <1>9 DEF Registry!vars
<1> QED BY <1>1, <1>2, <1>3, <1>4, <1>5, <1>6, <1>7, <1>8, <1>9 DEF Registry!Next, Registry!Step

(* Whatever the exchange refuses and whichever answers are lost, an executor sizes
   with the leverage in force on the exchange (execution.py:229-232). *)
THEOREM LeverageTheorem ==
    ASSUME Registry!RegistryAssumption PROVE Registry!Spec => []Registry!LeverageAgrees
<1>1. SetupInv => Registry!LeverageAgrees
    BY DEF SetupInv
<1> QED BY <1>1, SetupInitially, SetupStep, PTL DEF Registry!Spec

(* The step-down ends less than five below the highest leverage the exchange allows,
   if that is below the settings' (execution.py:235). *)
THEOREM StepDownTheorem ==
    ASSUME Registry!RegistryAssumption PROVE Registry!Spec => []Registry!LeverageNotWasted
<1>1. SetupInv => Registry!LeverageNotWasted
    BY DEF SetupInv
<1> QED BY <1>1, SetupInitially, SetupStep, PTL DEF Registry!Spec

(* A symbol is set up by one thread at a time, and once, whatever threads ask for it
   (services/bootstrap_service.py:297). *)
THEOREM SetupOnceTheorem ==
    ASSUME Registry!RegistryAssumption PROVE Registry!Spec => []Registry!SetupOnce
<1>1. SetupInv => Registry!SetupOnce
    BY DEF SetupInv, SetupLocked, NotYetSetUp, Registry!SetupOnce
<1> QED BY <1>1, SetupInitially, SetupStep, PTL DEF Registry!Spec
=============================================================================
