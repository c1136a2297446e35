------------------------- MODULE BacktestSimulation -------------------------
(* backtest/backtest.py, phase 2 and the equity curve: one task per symbol    *)
(* walks its series candle by candle and simulates the trade of each signal,  *)
(* the main process merges the trades of finished tasks, until ctrl-C at      *)
(* worst, sorts them by entry and reports drawdown and streaks.               *)
(*                                                                            *)
(* A candle is its index, from 0, and a time is the candle that closes then.  *)
(* What a candle does to an open trade is the set of the trade's two prices   *)
(* between its low and its high; what evaluate_signal makes of a window is    *)
(* left open.  Prices, sizes, counters and tables are left out.               *)
EXTENDS Integers, Sequences, SequencesExt

CONSTANTS
    Symbols,
    SeriesOf,      \* how many series, of as many intervals, a symbol has
    Length,        \* candles of a series
    MinWarm, MaxWarm,   \* the 20 and the 230 of the warm-up
    Hold,          \* MAX_CANDLES_HOLD
    Skip,          \* SKIP_AFTER_SIGNAL
    ContextPeriod, \* candles of a series in one of its context series
    Gains,         \* per result: the pnl a trade may have
    MayFail        \* a task may raise, the user may interrupt

Results == {"WIN", "LOSS", "TIMEOUT"}

(* Assumed of the constants, by the module that instantiates this one. *)
SimulationAssumption ==
    /\ IsFiniteSet(Symbols)
    /\ {Length, MinWarm, MaxWarm} \subseteq Nat
    /\ {SeriesOf, Hold, Skip, ContextPeriod} \subseteq Nat \ {0}
    /\ Gains \in [Results -> SUBSET Int]
    /\ MayFail \in BOOLEAN

VARIABLES
    pc,         \* per symbol: where its task is
    series,     \* the series it walks
    i,          \* the candle it is at
    touched,    \* the prices touched by the candles after i, as far as scanned
    context,    \* context_sub: the context candles at hand, by their close
    position,   \* prev_ctx_pos
    trades,     \* all_trades of the task
    phase,      \* of the main process: "simulate", "report" or "done"
    merged,     \* all_trades
    collected,  \* symbols whose future is done with
    report      \* section 10

vars == <<pc, series, i, touched, context, position, trades,
          phase, merged, collected, report>>
main == <<phase, merged, collected, report>>

NoReport == [cum |-> 0, peak |-> 0, maxDd |-> 0, ddPeak |-> 0, inDrawdown |-> FALSE,
             wins |-> 0, losses |-> 0, maxWins |-> 0, maxLosses |-> 0]

TypeOK ==
    /\ pc \in [Symbols -> {"walk", "scan", "returned", "raised"}]
    /\ \A s \in Symbols :
        /\ series[s] \in 1 .. SeriesOf
        /\ i[s] \in Nat /\ position[s] \in -1 .. Length
        /\ pc[s] = "scan" => i[s] + Len(touched[s]) < Length - 1
        /\ \A k \in DOMAIN touched[s] : touched[s][k] = {}
        /\ \A k \in DOMAIN trades[s] : trades[s][k].result \in Results
    /\ phase \in {"simulate", "report", "done"}
    /\ collected \subseteq Symbols
    /\ DOMAIN report = DOMAIN NoReport

FirstCandle == Min({MaxWarm, Max({MinWarm, Length \div 2})})

Init ==
    /\ pc = [s \in Symbols |-> "walk"]
    /\ series = [s \in Symbols |-> 1]
    /\ i = [s \in Symbols |-> FirstCandle]
    /\ touched = [s \in Symbols |-> << >>]
    /\ context = [s \in Symbols |-> {}]
    /\ position = [s \in Symbols |-> -1]
    /\ trades = [s \in Symbols |-> << >>]
    /\ phase = "simulate"
    /\ merged = << >> /\ collected = {}
    /\ report = NoReport

-----------------------------------------------------------------------------
(* The context candles that have closed by candle c (searchsorted, "right");
   the mutant takes in the one that is still open. *)
ContextPosition_Open(c) == c \div ContextPeriod + 1
ContextPosition(c) == c \div ContextPeriod

(* Rebuilt only when another context candle has closed. *)
SeeContext(s) ==
    LET closed == ContextPosition(i[s]) IN
    /\ position' = [position EXCEPT ![s] = closed]
    /\ context' = IF closed = position[s] THEN context
                  ELSE [context EXCEPT ![s] = {n * ContextPeriod : n \in 1 .. closed}]

Walking(s) == phase = "simulate" /\ pc[s] = "walk" /\ i[s] < Length - 1

(* No signal, an exception of the strategy, a blocked sell, a low score or a
   price of zero. *)
Pass(s) ==
    /\ Walking(s) /\ SeeContext(s)
    /\ i' = [i EXCEPT ![s] = @ + 1]
    /\ UNCHANGED <<pc, series, touched, trades, main>>

Signal(s) ==
    /\ Walking(s) /\ SeeContext(s)
    /\ pc' = [pc EXCEPT ![s] = "scan"]
    /\ UNCHANGED <<series, i, touched, trades, main>>

LastCandle(s) == Min({i[s] + Hold, Length - 1})

(* A candle that touches both prices is a loss. *)
Outcome(touches) ==
    IF "stop" \in touches THEN "LOSS" ELSE IF "tp" \in touches THEN "WIN" ELSE "TIMEOUT"

(* The next candle touches nothing and is not the last. *)
Untouched(s) ==
    /\ phase = "simulate" /\ pc[s] = "scan"
    /\ i[s] + Len(touched[s]) + 1 < LastCandle(s)
    /\ touched' = [touched EXCEPT ![s] = Append(@, {})]
    /\ UNCHANGED <<pc, series, i, context, position, trades, main>>

(* The next candle ends the trade. *)
TradeEnds(s, touches, pnl) ==
    LET exit == i[s] + Len(touched[s]) + 1
        trade == [symbol |-> s, series |-> series[s], entry |-> i[s], exit |-> exit,
                  result |-> Outcome(touches), pnl |-> pnl,
                  touched |-> Append(touched[s], touches), context |-> context[s]]
    IN  /\ phase = "simulate" /\ pc[s] = "scan"
        /\ touches # {} \/ exit = LastCandle(s)
        /\ pnl \in Gains[Outcome(touches)]
        /\ trades' = [trades EXCEPT ![s] = Append(@, trade)]
        /\ touched' = [touched EXCEPT ![s] = << >>]
        /\ pc' = [pc EXCEPT ![s] = "walk"]
        /\ i' = [i EXCEPT ![s] = @ + Skip]
        /\ UNCHANGED <<series, context, position, main>>

(* The next interval of the symbol, or the end of its task. *)
SeriesEnds(s) ==
    /\ phase = "simulate" /\ pc[s] = "walk" /\ i[s] >= Length - 1
    /\ IF series[s] < SeriesOf
       THEN /\ series' = [series EXCEPT ![s] = @ + 1]
            /\ i' = [i EXCEPT ![s] = FirstCandle]
            /\ context' = [context EXCEPT ![s] = {}]
            /\ position' = [position EXCEPT ![s] = -1]
            /\ UNCHANGED pc
       ELSE /\ pc' = [pc EXCEPT ![s] = "returned"]
            /\ UNCHANGED <<series, i, context, position>>
    /\ UNCHANGED <<touched, trades, main>>

Raise(s) ==
    /\ MayFail /\ phase = "simulate" /\ pc[s] \in {"walk", "scan"}
    /\ pc' = [pc EXCEPT ![s] = "raised"]
    /\ UNCHANGED <<series, i, touched, context, position, trades, main>>

-----------------------------------------------------------------------------
(* as_completed: the trades of a task are merged whole, those of one that
   raised are lost with a message. *)
Collect(s) ==
    /\ phase = "simulate"
    /\ pc[s] \in {"returned", "raised"} /\ s \notin collected
    /\ collected' = collected \cup {s}
    /\ merged' = IF pc[s] = "returned" THEN merged \o trades[s] ELSE merged
    /\ UNCHANGED <<pc, series, i, touched, context, position, trades, phase, report>>

(* All are done, or KeyboardInterrupt: what runs on is not heard any more. *)
PhaseEnds ==
    /\ phase = "simulate"
    /\ collected = Symbols \/ MayFail
    /\ phase' = "report"
    /\ UNCHANGED <<pc, series, i, touched, context, position, trades, merged,
                   collected, report>>

(* list.sort, which is stable. *)
SortedByEntry(ts) ==
    LET Before(k) == {m \in DOMAIN ts : \/ ts[m].entry < ts[k].entry
                                        \/ ts[m].entry = ts[k].entry /\ m < k}
    IN  [r \in DOMAIN ts |-> ts[CHOOSE k \in DOMAIN ts : Cardinality(Before(k)) = r - 1]]

(* One turn of the loop of section 10; the mutant takes the peak for the one
   of the largest drawdown whenever it moves. *)
Count_AnyPeak(r, t) ==
    LET cum == r.cum + t.pnl
        peak == Max({r.peak, cum})
    IN  [r EXCEPT !.cum = cum, !.peak = peak, !.ddPeak = peak,
                  !.maxDd = Min({@, cum - peak}),
                  !.inDrawdown = cum < peak]
Count(r, t) ==
    LET cum == r.cum + t.pnl
        peak == Max({r.peak, cum})
        deeper == cum - peak < r.maxDd
        ddPeak == IF deeper THEN peak ELSE r.ddPeak
        wins == CASE t.result = "WIN" -> r.wins + 1
                  [] t.result = "LOSS" -> 0
                  [] OTHER -> r.wins
        losses == CASE t.result = "LOSS" -> r.losses + 1
                    [] t.result = "WIN" -> 0
                    [] OTHER -> r.losses
    IN  [cum |-> cum, peak |-> peak, ddPeak |-> ddPeak,
         maxDd |-> IF deeper THEN cum - peak ELSE r.maxDd,
         inDrawdown |-> (deeper \/ r.inDrawdown) /\ cum < ddPeak,
         wins |-> wins, losses |-> losses,
         maxWins |-> Max({r.maxWins, wins}), maxLosses |-> Max({r.maxLosses, losses})]

Running(ts) ==
    LET after[n \in 0 .. Len(ts)] == IF n = 0 THEN NoReport ELSE Count(after[n - 1], ts[n])
    IN  after[Len(ts)]

Report ==
    /\ phase = "report"
    /\ phase' = "done"
    /\ merged' = SortedByEntry(merged)
    /\ report' = Running(merged')
    /\ UNCHANGED <<pc, series, i, touched, context, position, trades, collected>>

Step(s) ==
    \/ Pass(s) \/ Signal(s) \/ Untouched(s) \/ SeriesEnds(s) \/ Raise(s)
    \/ \E touches \in SUBSET {"tp", "stop"}, pnl \in UNION {Gains[r] : r \in Results} :
         TradeEnds(s, touches, pnl)

Next == PhaseEnds \/ Report \/ \E s \in Symbols : Step(s) \/ Collect(s)

Spec == Init /\ [][Next]_vars

-----------------------------------------------------------------------------
(* Each simulated trade is one a trader could have made: it is entered on
   context candles that had closed, the newest among them; no price was
   touched before its exit; it is a win only if the stop was not touched by
   then; it times out at the last candle it may be held; and it is held until
   the end (backtest.py:540-546, 664-707). *)
TradesTrue ==
    \A s \in Symbols : \A k \in DOMAIN trades[s] :
        LET t == trades[s][k]
            last == Min({t.entry + Hold, Length - 1})
        IN  /\ t.context = {c \in 1 .. t.entry : c % ContextPeriod = 0}
            /\ t.exit \in t.entry + 1 .. last
            /\ Len(t.touched) = t.exit - t.entry
            /\ \A c \in 1 .. Len(t.touched) - 1 : t.touched[c] = {}
            /\ (t.result = "WIN") = (t.touched[Len(t.touched)] = {"tp"})
            /\ t.result = "TIMEOUT" => t.exit = last /\ t.touched[Len(t.touched)] = {}

(* Trade u is entered on a later candle, or in a later series of the symbol. *)
Later(t, u) ==
    \/ t.entry < u.entry
    \/ t.entry = u.entry /\ (t.symbol = u.symbol => t.series < u.series)

(* The report is about all trades of the tasks that were collected, none of them
   twice, and about no others. *)
WholeTasks ==
    /\ {merged[k] : k \in DOMAIN merged} =
         UNION {{trades[s][k] : k \in DOMAIN trades[s]} :
                  s \in {u \in collected : pc[u] = "returned"}}
    /\ \A k, m \in DOMAIN merged : k < m => Later(merged[k], merged[m])

(* What the trades earned so far, after each of them, and how far below its
   highest point that is. *)
Equity(ts) ==
    LET curve[n \in 0 .. Len(ts)] == IF n = 0 THEN 0 ELSE curve[n - 1] + ts[n].pnl
    IN  curve
Drawdown(curve, n) == curve[n] - Max({curve[m] : m \in 0 .. n})

CurveTrue ==
    LET curve == Equity(merged)
        n == Len(merged)
        deepest == Min({Drawdown(curve, k) : k \in 0 .. n})
        first == Min({k \in 0 .. n : Drawdown(curve, k) = deepest})
    IN  /\ report.cum = curve[n] /\ report.maxDd = deepest
        /\ report.inDrawdown =
             (deepest < 0 /\ \A k \in first .. n : curve[k] < curve[first] - deepest)

(* The trades with one result up to trade n, back to the last one with the
   other; a timeout neither counts nor ends them. *)
Streak(ts, n, result, other) ==
    Cardinality({k \in 1 .. n : ts[k].result = result /\ \A m \in k .. n : ts[m].result # other})
Longest(ts, result, other) == Max({Streak(ts, n, result, other) : n \in 0 .. Len(ts)})

StreaksTrue ==
    /\ report.maxWins = Longest(merged, "WIN", "LOSS")
    /\ report.maxLosses = Longest(merged, "LOSS", "WIN")

(* Whatever tasks failed, in whatever order the others ended and whenever the
   user interrupted, the report is about whole tasks, in the order of their
   entries, and its drawdown, recovery and streaks are those of that curve:
   the loop keeps a running peak and a flag for what is defined over all pairs
   of trades (backtest.py:1437-1466, 1547, 1148-1169). *)
ReportTrue == phase = "done" => WholeTasks /\ CurveTrue /\ StreaksTrue

(* "candles to skip after a signal to avoid overlapping trades"
   (backtest.py:30): refuted when Skip < Hold. *)
NoOverlap ==
    \A s \in Symbols : \A k \in 1 .. Len(trades[s]) - 1 :
        trades[s][k].series = trades[s][k + 1].series =>
            trades[s][k].exit <= trades[s][k + 1].entry

(* A drawdown is reported with its percentage of the peak it fell from: refuted
   for one that begins with the first trade (backtest.py:1171). *)
DrawdownHasPercent == report.maxDd < 0 => report.ddPeak > 0
=============================================================================
