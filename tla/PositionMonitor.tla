--------------------------- MODULE PositionMonitor ---------------------------
(***************************************************************************)
(* The thread that supervises one position, from the launch to the report: *)
(* monitor_protection.ensure_monitor_protections or, for a position found  *)
(* at startup, ensure_orphan_protections; then FuturesExecutor.monitor_oco *)
(* with its fill check, safety check, early exit and breakeven; and        *)
(* run_position_monitor around them.                                       *)
(*                                                                         *)
(* Each request to the exchange is a step of its own: TP and SL are placed *)
(* by two calls, their states are read by two calls, a replacement cancels *)
(* and then places.  The exchange triggers and expires orders in between,  *)
(* and a call may fail with or without having had its effect.              *)
(*                                                                         *)
(* Prices are abstracted to the level of the stop; sleeps to flags that a  *)
(* timer sets.  Bounds for TLC: MaxFaults, MaxPairs.                       *)
(***************************************************************************)
EXTENDS Integers, FiniteSets

CONSTANTS
    Algo,         \* the exchange answers with algoId, not with orderId
    Orphan,       \* the monitor resumes a position found at startup
    MayHold,      \* the position may outlive max_hold_sec
    StaleList,    \* open orders are listed with a delay of less than 2 s
    Restless,     \* somebody else may close the position or expire an order
    MaxFaults,    \* calls that fail, orders that expire
    MaxPairs,     \* TP/SL pairs: one for the start, one for the breakeven, one the
                  \* orphan brings along, and one that each fault may cost
    MaxAttempts   \* attempts of ensure_orphan_protections

ASSUME MonitorAssumption ==
    /\ {Algo, Orphan, MayHold, StaleList, Restless} \subseteq BOOLEAN
    /\ MaxFaults \in Nat /\ {MaxPairs, MaxAttempts} \subseteq Nat \ {0}

VARIABLES
    position,   \* the exchange holds the position
    book,       \* state of the n-th TP and the n-th SL on the exchange
    level,      \* where the n-th stop was placed
    placed,     \* TP/SL pairs placed so far
    unlisted,   \* open orders the list of open orders does not show yet
    pc,         \* the next request of the monitor
    goal,       \* what a placement, or the end of the trade, is for
    tpRef, slRef, seenTp, stop, breakEven,   \* locals of monitor_oco
    guard,      \* less than 2 s since last_replace
    checkDue,   \* safety_check_sec elapsed since the last check
    held,       \* max_hold_sec elapsed
    late,       \* position_wait_deadline has passed
    attempts,
    faults,     \* faults that may still happen
    result      \* what the monitor ended with

exchange == <<position, book, level, placed, unlisted>>
locals == <<goal, tpRef, slRef, seenTp, stop, breakEven, attempts>>
timers == <<guard, checkDue, held, late>>
vars == <<exchange, pc, locals, timers, faults, result>>

Kinds == {"tp", "sl"}
Pairs == 1 .. MaxPairs
NoRef == 0

PCs == {"ensure", "refs", "placeTp", "placeSl", "emergency", "loop", "tpStatus", "slStatus",
        "finish", "safety", "cancel", "review", "breakeven", "done"}
Results == {"none", "TP", "SL", "EARLY", "UNKNOWN", "gone", "unrecoverable", "died"}

BookOK ==
    /\ position \in BOOLEAN
    /\ book \in [Kinds \X Pairs -> {"unused", "open", "filled", "gone"}]
    /\ level \in [Pairs -> {"initial", "entry"}]
    /\ placed \in 0 .. MaxPairs
    /\ \A k \in Kinds, n \in Pairs : book[<<k, n>>] # "unused" => n <= placed
    /\ unlisted \subseteq Kinds \X Pairs

MonitorOK ==
    /\ pc \in PCs /\ result \in Results /\ (pc = "done" <=> result # "none")
    /\ goal \in {"ensure", "safety", "breakeven", "TP", "SL"}
    /\ tpRef \in Pairs \cup {NoRef} /\ slRef \in Pairs \cup {NoRef}
    /\ seenTp \in {"open", "filled", "gone"}
    /\ stop \in {"initial", "entry"} /\ breakEven \in BOOLEAN
    /\ guard \in BOOLEAN /\ checkDue \in BOOLEAN /\ held \in BOOLEAN /\ late \in BOOLEAN
    /\ attempts \in 0 .. MaxAttempts
    (* past the first placement the monitor has orders to look after *)
    /\ pc \in {"loop", "tpStatus", "slStatus", "safety", "review", "breakeven"} =>
         tpRef # NoRef /\ slRef # NoRef

TypeOK == BookOK /\ MonitorOK /\ faults \in 0 .. MaxFaults

-----------------------------------------------------------------------------
(* The exchange.                                                           *)

(* An orphan finds the TP and SL of the process before it; their client ids
   carry another prefix. *)
Own(n) == ~Orphan \/ n > 1

OpenOrders(k) == {n \in Pairs : book[<<k, n>>] = "open"}
Listed(k) == {n \in OpenOrders(k) : <<k, n>> \notin unlisted}
OwnListed(k) == {n \in Listed(k) : Own(n)}

CallOk == UNCHANGED faults
CallFails == faults > 0 /\ faults' = faults - 1

CancelAllOrders ==
    /\ book' = [o \in Kinds \X Pairs |-> IF book[o] = "open" THEN "gone" ELSE book[o]]
    /\ unlisted' = {}
    /\ UNCHANGED <<position, level, placed>>

AddOrder(k, n) ==
    /\ book' = [book EXCEPT ![<<k, n>>] = "open"]
    /\ unlisted' = IF Algo /\ StaleList THEN unlisted \cup {<<k, n>>} ELSE unlisted

NextPair == placed < MaxPairs /\ placed' = placed + 1

(* A reduce-only order closes the position at market. *)
MarketClose ==
    /\ position /\ position' = FALSE
    /\ UNCHANGED <<book, level, placed, unlisted>>

(* A failed call may or may not have had its effect. *)
CloseFails ==
    \/ ~position /\ CallOk /\ UNCHANGED exchange
    \/ CallFails /\ (MarketClose \/ UNCHANGED exchange)

Goto(l) == pc' = l /\ UNCHANGED result
Finish(r) == pc' = "done" /\ result' = r

Init ==
    /\ position = TRUE
    /\ book = [o \in Kinds \X Pairs |-> IF Orphan /\ o[2] = 1 THEN "open" ELSE "unused"]
    /\ level = [n \in Pairs |-> "initial"]
    /\ placed = IF Orphan THEN 1 ELSE 0
    /\ unlisted = {}
    /\ pc = "ensure" /\ goal = "ensure"
    /\ tpRef = NoRef /\ slRef = NoRef /\ seenTp = "open"
    /\ stop = "initial" /\ breakEven = FALSE
    /\ guard = FALSE /\ checkDue = TRUE /\ held = FALSE /\ late = FALSE
    /\ attempts = 0
    /\ faults = MaxFaults
    /\ result = "none"

-----------------------------------------------------------------------------
(* ensure_monitor_protections, ensure_orphan_protections.                  *)

SeePosition ==
    /\ pc = "ensure" /\ position
    /\ Goto("refs")
    /\ UNCHANGED <<exchange, locals, timers, faults>>

(* A failed request counts as no position; past the deadline that is final. *)
SeeNoPosition ==
    /\ pc = "ensure"
    /\ (~position /\ CallOk) \/ CallFails
    /\ IF late THEN Finish("gone") ELSE Goto("ensure")
    /\ UNCHANGED <<exchange, locals, timers>>

(* Mutant of ReuseRefs: one open order is enough. *)
ReuseRefs_Either ==
    /\ pc = "refs"
    /\ OwnListed("tp") # {} \/ OwnListed("sl") # {}
    /\ tpRef' \in (IF OwnListed("tp") = {} THEN {NoRef} ELSE OwnListed("tp"))
    /\ slRef' \in (IF OwnListed("sl") = {} THEN {NoRef} ELSE OwnListed("sl"))
    /\ Goto("loop")
    /\ UNCHANGED <<exchange, goal, seenTp, stop, breakEven, attempts, timers, faults>>

(* get_protection_refs: own open orders are reused ... *)
ReuseRefs ==
    /\ pc = "refs"
    /\ \E t \in OwnListed("tp"), s \in OwnListed("sl") : tpRef' = t /\ slRef' = s
    /\ Goto("loop")
    /\ UNCHANGED <<exchange, goal, seenTp, stop, breakEven, attempts, timers, faults>>

(* ... unless one is missing, or the request failed. *)
NoRefs ==
    /\ pc = "refs"
    /\ ((OwnListed("tp") = {} \/ OwnListed("sl") = {}) /\ CallOk) \/ CallFails
    /\ goal' = "ensure"
    /\ Goto("placeTp")
    /\ UNCHANGED <<exchange, tpRef, slRef, seenTp, stop, breakEven, attempts, timers>>

(* What follows a placement that raised.  The breakeven does not catch it,
   and the thread ends. *)
PlacementFailed ==
    /\ UNCHANGED <<goal, tpRef, slRef, seenTp, stop, breakEven, guard, held, late>>
    /\ \/ /\ goal = "ensure"
          /\ attempts' = IF Orphan THEN attempts + 1 ELSE attempts
          /\ Goto(IF attempts' = MaxAttempts THEN "emergency" ELSE "ensure")
          /\ UNCHANGED checkDue
       \/ /\ goal = "safety"
          /\ checkDue' = FALSE
          /\ Goto("review")
          /\ UNCHANGED attempts
       \/ /\ goal = "breakeven"
          /\ Finish("died")
          /\ UNCHANGED <<attempts, checkDue>>

(* place_tp_sl, first call. *)
PlaceTp ==
    /\ pc = "placeTp" /\ position
    /\ NextPair /\ AddOrder("tp", placed + 1)
    /\ Goto("placeSl")
    /\ UNCHANGED <<position, level, locals, timers, faults>>

(* Without a position a reduce-only order is refused. *)
PlaceTpFails ==
    /\ pc = "placeTp"
    /\ \/ ~position /\ CallOk /\ UNCHANGED exchange
       \/ CallFails /\ UNCHANGED exchange
       \/ /\ CallFails /\ position
          /\ NextPair /\ AddOrder("tp", placed + 1)
          /\ UNCHANGED <<position, level>>
    /\ PlacementFailed

(* The level the stop of this placement asks for. *)
NewStop == IF goal = "breakeven" THEN "entry" ELSE stop

(* Mutant of KeepStop: the breakeven forgets to update current_sl. *)
KeepStop_Forgets == stop
KeepStop == NewStop

AddStop ==
    /\ AddOrder("sl", placed)
    /\ level' = [level EXCEPT ![placed] = NewStop]
    /\ UNCHANGED <<position, placed>>

(* place_tp_sl, second call; then the caller takes the references over. *)
PlaceSl ==
    /\ pc = "placeSl" /\ position
    /\ AddStop
    /\ tpRef' = placed /\ slRef' = placed
    /\ stop' = KeepStop
    /\ breakEven' = (breakEven \/ goal = "breakeven")
    /\ guard' = (guard \/ goal = "breakeven")
    /\ checkDue' = (checkDue /\ goal # "safety")
    /\ Goto(IF goal = "safety" THEN "review" ELSE "loop")
    /\ UNCHANGED <<goal, seenTp, attempts, held, late, faults>>

PlaceSlFails ==
    /\ pc = "placeSl"
    /\ \/ ~position /\ CallOk /\ UNCHANGED exchange
       \/ CallFails /\ UNCHANGED exchange
       \/ CallFails /\ position /\ AddStop
    /\ PlacementFailed

(* After its last attempt an orphan is closed at market, if the call works,
   and abandoned either way. *)
Emergency ==
    /\ pc = "emergency"
    /\ (MarketClose /\ CallOk) \/ CloseFails
    /\ Finish("unrecoverable")
    /\ UNCHANGED <<locals, timers>>

-----------------------------------------------------------------------------
(* monitor_oco: one turn of the loop.                                      *)

HoldTimeout ==
    /\ pc = "loop" /\ held
    /\ \/ MarketClose /\ CallOk /\ Finish("EARLY")
       \/ CloseFails /\ Goto("loop")
    /\ UNCHANGED <<locals, timers>>

StartTurn ==
    /\ pc = "loop" /\ ~held
    /\ Goto("tpStatus")
    /\ UNCHANGED <<exchange, locals, timers, faults>>

(* An order has a status; an algo order is open as long as it is listed, and
   counts as filled when it is not. *)
Status(k, n) ==
    IF Algo THEN IF n \in Listed(k) THEN "open" ELSE "filled" ELSE book[<<k, n>>]

(* A failed request: _is_algo_open takes it for an order that is not open. *)
ReadTp ==
    /\ pc = "tpStatus"
    /\ \/ seenTp' = Status("tp", tpRef) /\ CallOk
       \/ Algo /\ seenTp' = "filled" /\ CallFails
    /\ Goto("slStatus")
    /\ UNCHANGED <<exchange, goal, tpRef, slRef, stop, breakEven, attempts, timers>>

(* futures_get_order raises, monitor_oco does not catch it. *)
ReadFails ==
    /\ pc \in {"tpStatus", "slStatus"} /\ ~Algo
    /\ CallFails
    /\ Finish("died")
    /\ UNCHANGED <<exchange, locals, timers>>

(* _check_order_fill_status and what monitor_oco makes of it.  Mutants: no
   answer when neither order is open; an order that is gone taken for filled. *)
Outcome_NoUnknown(t, s) ==
    CASE t = "filled" /\ ~guard /\ s = "open" -> "TP"
      [] s = "filled" /\ ~guard /\ t = "open" -> "SL"
      [] OTHER -> "none"
Outcome_GoneIsFilled(t, s) ==
    CASE t # "open" /\ ~guard /\ s = "open" -> "TP"
      [] s # "open" /\ ~guard /\ t = "open" -> "SL"
      [] t = "filled" /\ s = "filled" /\ ~guard -> "UNKNOWN"
      [] OTHER -> "none"

Outcome(t, s) ==
    CASE t = "filled" /\ ~guard /\ s = "open" -> "TP"
      [] s = "filled" /\ ~guard /\ t = "open" -> "SL"
      [] t = "filled" /\ s = "filled" /\ ~guard -> "UNKNOWN"
      [] OTHER -> "none"

ReadSl ==
    /\ pc = "slStatus"
    /\ \E s \in {"open", "filled", "gone"} :
        /\ \/ s = Status("sl", slRef) /\ CallOk
           \/ Algo /\ s = "filled" /\ CallFails
        /\ LET r == Outcome(seenTp, s) IN
           \/ r \in {"TP", "SL"} /\ goal' = r /\ Goto("finish")
           \/ r = "UNKNOWN" /\ Finish(r) /\ UNCHANGED goal
           \/ r = "none" /\ Goto("safety") /\ UNCHANGED goal
    /\ UNCHANGED <<exchange, tpRef, slRef, seenTp, stop, breakEven, attempts, timers>>

(* The remaining order is cancelled; a failure is not caught. *)
EndTrade ==
    /\ pc = "finish"
    /\ \/ CancelAllOrders /\ CallOk /\ Finish(goal)
       \/ UNCHANGED exchange /\ CallFails /\ Finish("died")
    /\ UNCHANGED <<locals, timers>>

(* protection_status; the mutant is content with one of the two orders. *)
ProtectionStatus_Either == OwnListed("tp") # {} \/ OwnListed("sl") # {}
ProtectionStatus == OwnListed("tp") # {} /\ OwnListed("sl") # {}

SafetyPasses ==
    /\ pc = "safety"
    /\ checkDue => ProtectionStatus
    /\ checkDue' = FALSE
    /\ Goto("review")
    /\ UNCHANGED <<exchange, locals, guard, held, late, faults>>

SafetyReplaces ==
    /\ pc = "safety" /\ checkDue
    /\ (~ProtectionStatus /\ CallOk) \/ CallFails
    /\ goal' = "safety"
    /\ Goto("cancel")
    /\ UNCHANGED <<exchange, tpRef, slRef, seenTp, stop, breakEven, attempts, timers>>

(* replace_tp_sl: cancel everything, whatever becomes of that, then place. *)
CancelForReplace ==
    /\ pc = "cancel"
    /\ (CancelAllOrders /\ CallOk) \/ (UNCHANGED exchange /\ CallFails)
    /\ Goto("placeTp")
    /\ UNCHANGED <<locals, timers>>

(* The review, when due, may ask for an early exit; not after a breakeven,
   and not for an orphan. *)
ReviewExits ==
    /\ pc = "review" /\ ~Orphan /\ ~breakEven
    /\ \/ MarketClose /\ CallOk /\ Finish("EARLY")
       \/ CloseFails /\ Goto("loop")
    /\ UNCHANGED <<locals, timers>>

ReviewPasses ==
    /\ pc = "review"
    /\ Goto("breakeven")
    /\ UNCHANGED <<exchange, locals, timers, faults>>

(* The price has moved far enough in favour of the trade. *)
BreakevenTriggers ==
    /\ pc = "breakeven" /\ ~breakEven /\ ~guard
    /\ goal' = "breakeven"
    /\ Goto("cancel")
    /\ UNCHANGED <<exchange, tpRef, slRef, seenTp, stop, breakEven, attempts, timers, faults>>

EndTurn ==
    /\ pc = "breakeven"
    /\ Goto("loop")
    /\ UNCHANGED <<exchange, locals, timers, faults>>

-----------------------------------------------------------------------------
(* The market and the clock.                                               *)

Fills(k, n) ==
    /\ position /\ book[<<k, n>>] = "open"
    /\ position' = FALSE
    /\ book' = [book EXCEPT ![<<k, n>>] = "filled"]
    /\ unlisted' = unlisted \ {<<k, n>>}
    /\ UNCHANGED <<level, placed, pc, locals, timers, faults, result>>

(* A reduce-only order that triggers without a position expires; one of an
   open position may be lost too, or be cancelled by somebody else. *)
Expires(k, n) ==
    /\ Restless /\ book[<<k, n>>] = "open"
    /\ IF position THEN CallFails ELSE CallOk
    /\ book' = [book EXCEPT ![<<k, n>>] = "gone"]
    /\ unlisted' = unlisted \ {<<k, n>>}
    /\ UNCHANGED <<position, level, placed, pc, locals, timers, result>>

(* The user, or a liquidation, closes the position. *)
ClosedByOthers ==
    /\ Restless /\ MarketClose /\ CallFails
    /\ UNCHANGED <<pc, locals, timers, result>>

ListCatchesUp ==
    /\ unlisted # {}
    /\ unlisted' = {}
    /\ UNCHANGED <<position, book, level, placed, pc, locals, timers, faults, result>>

(* The list lags by less than the 2 s of the guard and of the safety check. *)
GuardElapses ==
    /\ guard /\ unlisted = {}
    /\ guard' = FALSE
    /\ UNCHANGED <<exchange, pc, locals, checkDue, held, late, faults, result>>

CheckFallsDue ==
    /\ ~checkDue /\ unlisted = {}
    /\ checkDue' = TRUE
    /\ UNCHANGED <<exchange, pc, locals, guard, held, late, faults, result>>

DeadlinePasses ==
    /\ ~late
    /\ late' = TRUE
    /\ UNCHANGED <<exchange, pc, locals, guard, checkDue, held, faults, result>>

HoldElapses ==
    /\ MayHold /\ ~Orphan /\ ~held
    /\ held' = TRUE
    /\ UNCHANGED <<exchange, pc, locals, guard, checkDue, late, faults, result>>

-----------------------------------------------------------------------------
Monitor ==
    \/ SeePosition \/ SeeNoPosition \/ ReuseRefs \/ NoRefs
    \/ PlaceTp \/ PlaceTpFails \/ PlaceSl \/ PlaceSlFails \/ Emergency
    \/ HoldTimeout \/ StartTurn \/ ReadTp \/ ReadFails \/ ReadSl \/ EndTrade
    \/ SafetyPasses \/ SafetyReplaces \/ CancelForReplace
    \/ ReviewExits \/ ReviewPasses \/ BreakevenTriggers \/ EndTurn

Clock == ListCatchesUp \/ GuardElapses \/ CheckFallsDue \/ DeadlinePasses

Market ==
    \/ \E k \in Kinds, n \in Pairs : Fills(k, n) \/ Expires(k, n)
    \/ ClosedByOthers

Next == Monitor \/ Clock \/ HoldElapses \/ Market

Spec == Init /\ [][Next]_vars

(* The thread keeps running, every request returns or raises, and time
   passes; the market owes nothing. *)
FairSpec ==
    /\ Spec
    /\ WF_vars(Monitor)
    /\ WF_vars(ListCatchesUp) /\ WF_vars(GuardElapses)
    /\ WF_vars(CheckFallsDue) /\ WF_vars(DeadlinePasses)

-----------------------------------------------------------------------------
(* Properties.                                                             *)

StopNotLoosened ==
    \A n \in Pairs :
        book[<<"sl", n>>] = "unused" /\ book'[<<"sl", n>>] = "open" /\ breakEven =>
            level'[n] = "entry"

(* What the monitor tells the risk manager has happened: a TP or SL result
   means that such an order filled, and after any result the position is
   closed (execution.py:522-552, 630-690). *)
ResultIsTrue ==
    /\ result \in {"TP", "SL", "EARLY", "UNKNOWN"} => ~position
    /\ result = "TP" => \E n \in Pairs : book[<<"tp", n>>] = "filled"
    /\ result = "SL" => \E n \in Pairs : book[<<"sl", n>>] = "filled"

(* Once the stop has moved to the entry price no later replacement moves it
   back, whichever check makes it (execution.py:554-586, 718-745). *)
StopNeverLoosened == [][StopNotLoosened]_vars

(* "Safety check: ensure protections always exist" (execution.py:692): an
   open position that has lost its stop gets one again, unless it closes
   first or the monitor has ended. *)
StopRestored ==
    position /\ result = "none" /\ OpenOrders("sl") = {} ~>
       OpenOrders("sl") # {} \/ ~position \/ result # "none"

(* "Supervise TP/SL lifecycle until trade completion or early exit trigger."
   (execution.py:609): once the position is closed the monitor ends. *)
CloseIsNoticed == ~position ~> result # "none"

(* "TP/SL orders are placed on-exchange and persist independently of the bot
   process" (SECURITY.md:23): a monitor that died of a network failure has
   left the position with a stop. *)
DeathLeavesStop == result = "died" /\ position => OpenOrders("sl") # {}

(* reason=position_closed_no_protection (monitor_protection.py:63): a monitor
   that gives up before it has placed protections does so because the
   position is closed. *)
GivesUpOnlyWhenClosed == result = "gone" => ~position

(* "Applies a 2-second guard after the last replace to avoid false fills from
   stale exchange state." (execution.py:530): a list of open orders that lags
   by less than that never makes the monitor leave an open position. *)
NoFalseFills == result = "UNKNOWN" => ~position

(* "Return whether an algo/order identifier is still present in open orders."
   (execution.py:750): an order that is still open is not read as filled. *)
OpenIsNotFilled ==
    [][pc = "tpStatus" /\ pc' = "slStatus" /\ seenTp' = "filled" =>
          book[<<"tp", tpRef>>] # "open"]_vars

(* "Resolve currently open TP/SL references for reuse after restart."
   (execution.py:478): recovering a position that still has both its orders
   never leaves it with two stops. *)
ProtectionReused == Cardinality(OpenOrders("sl")) <= 1
=============================================================================
