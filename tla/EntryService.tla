---------------------------- MODULE EntryService ----------------------------
(***************************************************************************)
(* services.entry_service.EntryService: what happens from the close of a   *)
(* candle to the launch of a position monitor.                             *)
(*                                                                         *)
(* A callback (_on_close) runs in the scheduler thread, one due interval   *)
(* after the other, and again in a "slot2" follow-up thread whenever an    *)
(* entry succeeded and candidates were left.  Callbacks share the position *)
(* cache, the per-interval last_close_ms and the entry lock; the exchange  *)
(* fills and closes positions at any time.                                 *)
(*                                                                         *)
(* risk.can_trade and operations.can_open_new_entries are modelled in      *)
(* RiskManager and OperationalService; here each may answer either way.    *)
(*                                                                         *)
(* Bounds for TLC: MaxPolls, MaxReporting, the sets of constants.          *)
(***************************************************************************)
EXTENDS Integers, Sequences, FiniteSets

CONSTANTS
    Symbols, Intervals,
    CallbackOrder,   \* per interval: its place in the order of registration
    MainInterval,    \* settings.main_interval: due at every poll
    SignalLists,     \* ranked candidate lists a candle may produce
    NoSymbol,
    Sched,           \* the scheduler thread
    Followups,       \* follow-up threads
    NoThread,
    MaxPositions,    \* settings.max_positions
    Paper,           \* settings.use_paper_trading
    LimitOnly,       \* settings.use_limit_only
    Faults,          \* subset of AllFaults that may happen
    MaxPolls, MaxReporting

(* lost_fill:     the order filled and the call that would say so failed
   stray_limit:   the code gave up on a limit order that is still resting
   price_at_stop: the average fill price equals the stop                   *)
AllFaults == {"lost_fill", "stray_limit", "price_at_stop"}

ASSUME EntryAssumption ==
    /\ IsFiniteSet(Symbols)
    /\ MaxPositions \in Nat \ {0}
    /\ MaxPolls \in Nat /\ MaxReporting \in Nat
    /\ MainInterval \in Intervals
    /\ CallbackOrder \in [Intervals -> Nat]
    /\ NoSymbol \notin Symbols
    /\ SignalLists \subseteq Seq(Symbols)
    /\ Sched \notin Followups
    /\ NoThread \notin Followups \cup {Sched}
    /\ Faults \subseteq AllFaults
    /\ Paper \in BOOLEAN /\ LimitOnly \in BOOLEAN

Threads == Followups \cup {Sched}

VARIABLES
    candle,      \* per interval: the newest close of the anchor symbol
    signals,     \* per interval: what the strategy sees in that candle
    lastClose,   \* per interval: last_close_ms, 0 for None
    due,         \* callbacks the scheduler has still to make after a poll
    polls,       \* polls that brought a new candle
    pc, w,       \* per thread: the callback it runs, and its local variables
    lock,        \* holder of _entry_lock
    cache,       \* PositionCache: _data, and whether _ts is within the TTL
    positions,   \* symbols with a position on the exchange
    resting,     \* symbols with an entry order on the book
    monitors,    \* symbols whose position has a running monitor
    reporting,   \* per symbol: monitors whose position closed, not done yet
    entered      \* history: entries [iv, close, sym] working or open

vars == <<candle, signals, lastClose, due, polls, pc, w, lock, cache, positions,
          resting, monitors, reporting, entered>>

market == <<candle, signals, due, polls>>
exchange == <<positions, resting>>

Locals == [iv: Intervals, close: Nat, active: SUBSET Symbols,
           best: Symbols \cup {NoSymbol}, rivals: BOOLEAN]

Callback(iv) ==
    [iv |-> iv, close |-> 0, active |-> {}, best |-> NoSymbol, rivals |-> FALSE]
NoCallback == Callback(MainInterval)

PCs == {"idle", "start", "mark", "load", "storeLoaded", "evaluate", "gate", "storeLive",
        "plan", "recheck", "submit", "waiting", "finalize", "followup"}

(* From here on the callback has a best candidate. *)
Chosen == {"gate", "storeLive", "plan", "recheck", "submit", "waiting", "finalize", "followup"}

SharedOK ==
    /\ candle \in [Intervals -> Nat]
    /\ signals \in [Intervals -> SignalLists \cup {<<>>}]
    /\ lastClose \in [Intervals -> Nat]
    /\ \A iv \in Intervals : lastClose[iv] <= candle[iv]
    /\ due \subseteq Intervals
    /\ polls \in 0 .. MaxPolls
    /\ lock \in Threads \cup {NoThread}
    /\ cache \in [data: SUBSET Symbols, fresh: BOOLEAN]
    /\ positions \subseteq Symbols
    /\ resting \subseteq Symbols
    /\ monitors \subseteq Symbols
    /\ reporting \in [Symbols -> Nat]
    /\ entered \subseteq [iv: Intervals, close: Nat, sym: Symbols]

CallbacksOK ==
    /\ pc \in [Threads -> PCs]
    /\ w \in [Threads -> Locals]
    /\ \A t \in Threads : w[t].close <= candle[w[t].iv]
    /\ \A t \in Threads : pc[t] \in Chosen => w[t].best \in Symbols

TypeOK == SharedOK /\ CallbacksOK

(* futures_position_information: paper positions never reach the exchange. *)
Open == IF Paper THEN {} ELSE positions

Best(t) == w[t].best

Goto(t, l) == pc' = [pc EXCEPT ![t] = l] /\ UNCHANGED w
Return(t) ==
    /\ pc' = [pc EXCEPT ![t] = "idle"]
    /\ w' = [w EXCEPT ![t] = NoCallback]

Invalidate == cache' = [cache EXCEPT !.fresh = FALSE]

(* The finally clause of _submit_entry; the mutant is without it. *)
ReleaseLock_Leak == UNCHANGED lock
ReleaseLock == lock' = NoThread

Init ==
    /\ candle = [iv \in Intervals |-> 1]
    /\ signals = [iv \in Intervals |-> <<>>]
    /\ lastClose = [iv \in Intervals |-> 0]
    /\ due = {}
    /\ polls = 0
    /\ pc = [t \in Threads |-> "idle"]
    /\ w = [t \in Threads |-> NoCallback]
    /\ lock = NoThread
    /\ cache = [data |-> {}, fresh |-> FALSE]
    (* positions found at startup are supervised by orphan monitors *)
    /\ positions \in SUBSET Symbols
    /\ Cardinality(positions) <= MaxPositions
    /\ Paper => positions = {}
    /\ resting = {}
    /\ monitors = positions
    /\ reporting = [s \in Symbols |-> 0]
    /\ entered = {}

-----------------------------------------------------------------------------
(* The scheduler thread.                                                   *)

(* A poll refreshes the due intervals (a failed or late refresh leaves an
   interval as it was) and queues their callbacks. *)
Poll ==
    /\ pc[Sched] = "idle" /\ due = {}
    /\ \E atBoundary \in SUBSET Intervals :
        LET dueSet == atBoundary \cup {MainInterval} IN
        /\ \E refreshed \in SUBSET dueSet :
            /\ refreshed # {} => polls < MaxPolls
            /\ polls' = IF refreshed = {} THEN polls ELSE polls + 1
            /\ candle' = [iv \in Intervals |->
                            IF iv \in refreshed THEN candle[iv] + 1 ELSE candle[iv]]
            /\ \E seen \in [refreshed -> SignalLists] :
                 signals' = [iv \in Intervals |->
                               IF iv \in refreshed THEN seen[iv] ELSE signals[iv]]
        /\ due' = dueSet
    /\ UNCHANGED <<lastClose, pc, w, lock, cache, exchange, monitors, reporting, entered>>

Dispatch ==
    /\ pc[Sched] = "idle"
    /\ \E iv \in due :
        /\ \A other \in due : CallbackOrder[iv] <= CallbackOrder[other]
        /\ due' = due \ {iv}
        /\ pc' = [pc EXCEPT ![Sched] = "start"]
        /\ w' = [w EXCEPT ![Sched] = Callback(iv)]
    /\ UNCHANGED <<candle, signals, polls, lastClose, lock, cache, exchange,
                   monitors, reporting, entered>>

-----------------------------------------------------------------------------
(* _on_close, up to the choice of the candidates.                          *)

(* The close of the last row of the anchor symbol. *)
AnchorClose(iv) == candle[iv]

(* _resolve_interval_close reads the candle first ... *)
ReadClose(t) ==
    /\ pc[t] = "start"
    /\ pc' = [pc EXCEPT ![t] = "mark"]
    /\ w' = [w EXCEPT ![t].close = AnchorClose(w[t].iv)]
    /\ UNCHANGED <<market, lastClose, lock, cache, exchange, monitors, reporting, entered>>

(* ... and then, under the interval's lock, lets each close through once. *)
MarkClose(t) ==
    LET iv == w[t].iv IN
    /\ pc[t] = "mark"
    /\ lastClose' = [lastClose EXCEPT ![iv] = w[t].close]
    /\ IF lastClose[iv] = w[t].close THEN Return(t) ELSE Goto(t, "load")
    /\ UNCHANGED <<market, lock, cache, exchange, monitors, reporting, entered>>

(* _load_active_positions: PositionCache.get on a hit. *)
LoadHit(t) ==
    /\ pc[t] = "load" /\ cache.fresh
    /\ pc' = [pc EXCEPT ![t] = "evaluate"]
    /\ w' = [w EXCEPT ![t].active = cache.data]
    /\ UNCHANGED <<market, lastClose, lock, cache, exchange, monitors, reporting, entered>>

(* On a miss the request is made outside the lock and stored later. *)
LoadFetch(t) ==
    /\ pc[t] = "load" /\ ~cache.fresh
    /\ pc' = [pc EXCEPT ![t] = "storeLoaded"]
    /\ w' = [w EXCEPT ![t].active = Open]
    /\ UNCHANGED <<market, lastClose, lock, cache, exchange, monitors, reporting, entered>>

LoadStore(t) ==
    /\ pc[t] = "storeLoaded"
    /\ cache' = [data |-> w[t].active, fresh |-> TRUE]
    /\ Goto(t, "evaluate")
    /\ UNCHANGED <<market, lastClose, lock, exchange, monitors, reporting, entered>>

LoadFails(t) ==
    /\ pc[t] = "load" /\ ~cache.fresh
    /\ Return(t)
    /\ UNCHANGED <<market, lastClose, lock, cache, exchange, monitors, reporting, entered>>

(* _filter_signals_by_symbol_limit: the places in the ranked list whose
   symbol has no position in the snapshot. *)
Valid(t) == {i \in DOMAIN signals[w[t].iv] : signals[w[t].iv][i] \notin w[t].active}

(* risk.can_trade, the signals, the filter, and the part of
   _resolve_execution_gate that uses what was read so far. *)
Evaluate(t) ==
    /\ pc[t] = "evaluate"
    /\ \E permit \in BOOLEAN :
        IF Valid(t) # {} /\ permit /\ Cardinality(w[t].active) < MaxPositions
        THEN \E i \in Valid(t) :
                /\ \A j \in Valid(t) : i <= j
                /\ pc' = [pc EXCEPT ![t] = "gate"]
                /\ w' = [w EXCEPT ![t].active = {},
                                  ![t].best = signals[w[t].iv][i],
                                  ![t].rivals = Valid(t) # {i}]
        ELSE Return(t)
    /\ UNCHANGED <<market, lastClose, lock, cache, exchange, monitors, reporting, entered>>

(* slots_available of _on_close; candidates keeps max(1, slots) symbols, of
   which the first is executed and the others only ask for a follow-up. *)
Slots(live) == IF live < MaxPositions THEN MaxPositions - live ELSE 0

(* The rest of the gate: the live count, then the operational suspensions. *)
PassGate(t, snapshot) ==
    LET live == Cardinality(snapshot) IN
    \E opsAllows \in BOOLEAN :
        IF live < MaxPositions /\ opsAllows
        THEN /\ pc' = [pc EXCEPT ![t] = "plan"]
             /\ w' = [w EXCEPT ![t].active = {},
                               ![t].rivals = w[t].rivals /\ Slots(live) > 1]
        ELSE Return(t)

GateHit(t) ==
    /\ pc[t] = "gate" /\ cache.fresh
    /\ PassGate(t, cache.data)
    /\ UNCHANGED <<market, lastClose, lock, cache, exchange, monitors, reporting, entered>>

GateFetch(t) ==
    /\ pc[t] = "gate" /\ ~cache.fresh
    /\ pc' = [pc EXCEPT ![t] = "storeLive"]
    /\ w' = [w EXCEPT ![t].active = Open]
    /\ UNCHANGED <<market, lastClose, lock, cache, exchange, monitors, reporting, entered>>

GateStore(t) ==
    /\ pc[t] = "storeLive"
    /\ cache' = [data |-> w[t].active, fresh |-> TRUE]
    /\ PassGate(t, w[t].active)
    /\ UNCHANGED <<market, lastClose, lock, exchange, monitors, reporting, entered>>

GateFails(t) ==
    /\ pc[t] = "gate" /\ ~cache.fresh
    /\ Return(t)
    /\ UNCHANGED <<market, lastClose, lock, cache, exchange, monitors, reporting, entered>>

-----------------------------------------------------------------------------
(* _execute_candidate.                                                     *)

(* _build_trade_plan or _validate_trade_plan refuses (ATR, balance, sizing,
   stop inside the liquidation zone, notional), or setting up the executor
   raises. *)
PlanFails(t) ==
    /\ pc[t] = "plan"
    /\ Return(t)
    /\ UNCHANGED <<market, lastClose, lock, cache, exchange, monitors, reporting, entered>>

(* _submit_entry: the lock is tried, never waited for. *)
LockBusy(t) ==
    /\ pc[t] = "plan" /\ lock # NoThread
    /\ Return(t)
    /\ UNCHANGED <<market, lastClose, lock, cache, exchange, monitors, reporting, entered>>

(* The mutant does not try the lock. *)
LockTaken_NoTest(t) ==
    /\ pc[t] = "plan"
    /\ lock' = t
    /\ Goto(t, "recheck")
    /\ UNCHANGED <<market, lastClose, cache, exchange, monitors, reporting, entered>>

LockTaken(t) ==
    /\ pc[t] = "plan" /\ lock = NoThread
    /\ lock' = t
    /\ Goto(t, "recheck")
    /\ UNCHANGED <<market, lastClose, cache, exchange, monitors, reporting, entered>>

(* Mutants of PositionGateBlocked: a limit off by one, no symbol check. *)
PositionGateBlocked_OffByOne(s) == Cardinality(Open) > MaxPositions \/ s \in Open
PositionGateBlocked_AnySymbol(s) == Cardinality(Open) >= MaxPositions

PositionGateBlocked(s) == Cardinality(Open) >= MaxPositions \/ s \in Open

RecheckBlocks(t) ==
    /\ pc[t] = "recheck"      \* blocked, or the request failed
    /\ ReleaseLock
    /\ Return(t)
    /\ UNCHANGED <<market, lastClose, cache, exchange, monitors, reporting, entered>>

RecheckPasses(t) ==
    /\ pc[t] = "recheck"
    /\ ~PositionGateBlocked(Best(t))
    /\ Goto(t, "submit")
    /\ UNCHANGED <<market, lastClose, lock, cache, exchange, monitors, reporting, entered>>

Entry(t) == [iv |-> w[t].iv, close |-> w[t].close, sym |-> Best(t)]

(* The symbol's open orders are cancelled (best effort), the limit order is
   accepted.  A paper order has no id and counts as filled. *)
Submit(t) ==
    /\ pc[t] = "submit"
    /\ IF Paper
       THEN /\ Goto(t, "finalize") /\ ReleaseLock
            /\ UNCHANGED resting
       ELSE /\ Goto(t, "waiting") /\ UNCHANGED lock
            /\ resting' = resting \cup {Best(t)}
    /\ entered' = entered \cup {Entry(t)}
    /\ UNCHANGED <<market, lastClose, cache, positions, monitors, reporting>>

SubmitRejected(t) ==
    /\ pc[t] = "submit" /\ ~Paper
    /\ resting' = resting \ {Best(t)}
    /\ ReleaseLock /\ Return(t)
    /\ UNCHANGED <<market, lastClose, cache, positions, monitors, reporting, entered>>

(* The poll of the order reports a fill. *)
FillReported(t) ==
    /\ pc[t] = "waiting"
    /\ Best(t) \in positions \ resting
    /\ ReleaseLock /\ Goto(t, "finalize")
    /\ UNCHANGED <<market, lastClose, cache, exchange, monitors, reporting, entered>>

(* executor.cancel_order; errors are swallowed by both callers. *)
CancelOrder(t) ==
    \/ resting' = resting \ {Best(t)}
    \/ "stray_limit" \in Faults /\ UNCHANGED resting

(* place_limit_with_market_fallback: cancel, then the rest at market. *)
MarketFallback(t) ==
    /\ pc[t] = "waiting" /\ ~LimitOnly
    /\ positions' = positions \cup {Best(t)}
    /\ CancelOrder(t)
    /\ ReleaseLock /\ Goto(t, "finalize")
    /\ UNCHANGED <<market, lastClose, cache, monitors, reporting, entered>>

(* _place_limit_only: the wait is over, the order is cancelled, whatever it
   has done since the last poll, and the entry counts as not filled. *)
LimitTimeout(t) ==
    /\ pc[t] = "waiting" /\ LimitOnly
    /\ CancelOrder(t)
    /\ entered' = IF resting' = resting THEN entered ELSE entered \ {Entry(t)}
    /\ ReleaseLock /\ Return(t)
    /\ UNCHANGED <<market, lastClose, cache, positions, monitors, reporting>>

(* A call of the placement raises: a limit order may be left behind, or a
   fill go unnoticed. *)
PlacementRaises(t) ==
    /\ pc[t] = "waiting"
    /\ \/ /\ "stray_limit" \in Faults
          /\ UNCHANGED exchange
       \/ /\ "lost_fill" \in Faults
          /\ positions' = positions \cup {Best(t)}
          /\ resting' = resting \ {Best(t)}
    /\ ReleaseLock /\ Return(t)
    /\ UNCHANGED <<market, lastClose, cache, monitors, reporting, entered>>

(* The supervised symbols after a launch; in the mutant the new monitor
   takes the place of the running ones. *)
LaunchMonitor_Replaces(t) == {Best(t)}
LaunchMonitor(t) == monitors \cup {Best(t)}

(* _finalize_entry and _launch_monitor.  A paper position is open for as
   long as the model runs: its monitor returns at once and closes nothing. *)
Finalize(t) ==
    /\ pc[t] = "finalize"
    /\ Paper \/ Best(t) \in positions
    /\ Invalidate
    /\ Goto(t, "followup")
    /\ monitors' = IF Paper THEN monitors ELSE LaunchMonitor(t)
    /\ UNCHANGED <<market, lastClose, lock, exchange, reporting, entered>>

(* The position is gone before its monitor has started. *)
FinalizeLate(t) ==
    /\ pc[t] = "finalize"
    /\ ~Paper /\ Best(t) \notin positions
    /\ Invalidate
    /\ Goto(t, "followup")
    /\ reporting' = [reporting EXCEPT ![Best(t)] = IF @ < MaxReporting THEN @ + 1 ELSE @]
    /\ UNCHANGED <<market, lastClose, lock, exchange, monitors, entered>>

(* post_fill_risk_invalid: the fill stands, no monitor is launched. *)
FinalizeRefuses(t) ==
    /\ pc[t] = "finalize" /\ "price_at_stop" \in Faults
    /\ Invalidate
    /\ Return(t)
    /\ UNCHANGED <<market, lastClose, lock, exchange, monitors, reporting, entered>>

(* _schedule_followup_if_needed *)
NoFollowup(t) ==
    /\ pc[t] = "followup" /\ ~w[t].rivals
    /\ Return(t)
    /\ UNCHANGED <<market, lastClose, lock, cache, exchange, monitors, reporting, entered>>

Followup(t) ==
    /\ pc[t] = "followup" /\ w[t].rivals
    /\ Invalidate
    /\ lastClose' = [lastClose EXCEPT ![w[t].iv] = 0]
    /\ \E f \in Followups :
        /\ f = t \/ pc[f] = "idle"
        /\ pc' = [pc EXCEPT ![t] = "idle", ![f] = "start"]
        /\ w' = [w EXCEPT ![t] = NoCallback, ![f] = Callback(w[t].iv)]
    /\ UNCHANGED <<market, lock, exchange, monitors, reporting, entered>>

-----------------------------------------------------------------------------
(* The exchange, the monitors and the clock.                               *)

LimitFills(s) ==
    /\ s \in resting
    /\ positions' = positions \cup {s}
    /\ resting' = resting \ {s}
    /\ UNCHANGED <<market, lastClose, pc, w, lock, cache, monitors, reporting, entered>>

(* TP, SL, liquidation or the user closes a position; its monitor has yet
   to notice. *)
PositionCloses(s) ==
    /\ s \in positions
    /\ reporting[s] < MaxReporting
    /\ positions' = positions \ {s}
    /\ monitors' = monitors \ {s}
    /\ reporting' = [reporting EXCEPT ![s] = @ + (IF s \in monitors THEN 1 ELSE 0)]
    /\ entered' = {e \in entered : e.sym # s}
    /\ UNCHANGED <<market, lastClose, pc, w, lock, cache, resting>>

(* run_position_monitor reports the close: pos_cache_invalidate(). *)
MonitorReports(s) ==
    /\ reporting[s] > 0
    /\ reporting' = [reporting EXCEPT ![s] = @ - 1]
    /\ Invalidate
    /\ UNCHANGED <<market, lastClose, pc, w, lock, exchange, monitors, entered>>

(* The TTL of the cached snapshot elapses. *)
CacheExpires ==
    /\ cache.fresh
    /\ Invalidate
    /\ UNCHANGED <<market, lastClose, pc, w, lock, exchange, monitors, reporting, entered>>

-----------------------------------------------------------------------------
Step(t) ==
    \/ ReadClose(t) \/ MarkClose(t)
    \/ LoadHit(t) \/ LoadFetch(t) \/ LoadStore(t) \/ LoadFails(t)
    \/ Evaluate(t)
    \/ GateHit(t) \/ GateFetch(t) \/ GateStore(t) \/ GateFails(t)
    \/ PlanFails(t) \/ LockBusy(t) \/ LockTaken(t)
    \/ RecheckBlocks(t) \/ RecheckPasses(t)
    \/ Submit(t) \/ SubmitRejected(t)
    \/ FillReported(t) \/ MarketFallback(t) \/ LimitTimeout(t) \/ PlacementRaises(t)
    \/ Finalize(t) \/ FinalizeLate(t) \/ FinalizeRefuses(t)
    \/ NoFollowup(t) \/ Followup(t)

Environment ==
    \/ \E s \in Symbols : LimitFills(s) \/ PositionCloses(s) \/ MonitorReports(s)
    \/ CacheExpires

Next ==
    \/ Poll
    \/ Dispatch
    \/ \E t \in Threads : Step(t)
    \/ Environment

Spec == Init /\ [][Next]_vars

(* A running callback keeps running: every exchange call has a timeout and
   the lock is never waited for. *)
FairSpec == Spec /\ WF_vars(Dispatch) /\ \A t \in Threads : WF_vars(Step(t))

-----------------------------------------------------------------------------
(* Properties.                                                             *)

(* No entry is submitted that is already working or open. *)
EntersOnce ==
    \A t \in Threads :
        pc[t] = "submit" /\ pc'[t] \in {"waiting", "finalize"} => Entry(t) \notin entered

(* However callbacks, follow-ups, fills and closes interleave, the account
   never holds more positions than max_positions: the recheck under
   _entry_lock (entry_service.py:645, 664, 896) asks the exchange itself, so
   the stale snapshots of the gates before it cannot matter. *)
MaxPositionsHeld == Cardinality(positions) <= MaxPositions

(* A position on the exchange is watched by a monitor, or the thread that
   opened it is still on its way to launch one (entry_service.py:693-760,
   837-887). *)
EveryPositionMonitored ==
    \A s \in positions :
        \/ s \in monitors
        \/ \E t \in Threads : pc[t] \in {"waiting", "finalize"} /\ Best(t) = s

(* A candle is acted on once: while an entry is working or its position is
   open, no thread enters the same symbol on the same close again, even
   though every follow-up forgets last_close_ms (entry_service.py:180-183,
   318). *)
SameCandleEnteredOnce == [][EntersOnce]_vars

(* Whoever takes _entry_lock gives it back (entry_service.py:742-743): a leaked
   lock would refuse every later entry as entry_lock_busy. *)
LockIsReturned == \A t \in Threads : lock = t ~> lock # t

(* The inductive strengthening of MaxPositionsHeld, proved in
   EntryServiceProofs: who holds the lock, what may rest on the book, and the
   room a submission has left. *)
Critical == {"recheck", "submit", "waiting"}

(* The entry lock is held by the thread between the lock and the end of the
   placement and by no other, whichever exit is taken (entry_service.py:645,
   739): a lock that is kept would refuse every later entry. *)
LockInv == \A t \in Threads : pc[t] \in Critical <=> lock = t

RestingInv == \A s \in resting : \E t \in Threads : pc[t] = "waiting" /\ Best(t) = s

RoomInv ==
    \A t \in Threads :
        /\ pc[t] = "submit" /\ ~Paper => Cardinality(positions) < MaxPositions
        /\ pc[t] = "waiting" => Cardinality(positions \cup {Best(t)}) <= MaxPositions

SafetyInv == LockInv /\ RestingInv /\ RoomInv /\ MaxPositionsHeld

(* The refinement mapping: an entry is at work from the recheck, which counts
   the account, to the end of the placement. *)
Working == {Best(t) : t \in {u \in Threads : pc[u] \in {"submit", "waiting"}}}

Account == INSTANCE AccountLimit WITH working <- Working

(* Limit orders the code has given up on and that still rest on the book. *)
Stray == {s \in resting : \A t \in Threads : pc[t] = "waiting" => Best(t) # s}

(* A position opens only for the entry that holds _entry_lock and that the
   recheck found room for, and no second entry is let in before the first has
   ended, whatever the gates before them read (entry_service.py:645-739): every
   step is a step of AccountLimit, or leaves its state alone, or is the fill of
   a stray order, which opens a position for nobody. *)
ImplementsAccountLimit ==
    /\ Account!Init
    /\ [][Account!Next \/ \E s \in Stray : LimitFills(s)]_<<positions, Working>>
=============================================================================
