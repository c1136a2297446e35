---------------------------- MODULE RiskManager ----------------------------
(***************************************************************************)
(* risk.RiskManager: the trade throttle shared by the scheduler thread and *)
(* the monitor threads, together with the way the bootstrap and the        *)
(* shutdown persist it.                                                    *)
(*                                                                         *)
(* A caller reads the wall clock BEFORE it takes the RLock                 *)
(* (risk.can_trade(datetime.now(utc))), so a call is two steps: it is      *)
(* stamped, and later executes atomically with that stamp.  MaxSkew bounds *)
(* how far the clock may run ahead of a pending stamp: with a tick of many *)
(* minutes, skew 1 is a call stamped just before a tick and executed just  *)
(* after it.                                                               *)
(*                                                                         *)
(* Bounds for TLC: MaxTime, MaxTrades, MaxRestarts, MaxSkew.               *)
(***************************************************************************)
EXTENDS Integers, Sequences, FiniteSets

CONSTANTS
    Threads,        \* scheduler and monitor threads
    DayLen,         \* clock ticks in one UTC day
    Cooldown,       \* cooldown_sec
    MaxLosses,      \* max_consecutive_losses
    LossPause,      \* loss_pause_sec
    PctLimit,       \* daily_drawdown_limit, in percent (0 = off)
    UsdtLimit,      \* daily_drawdown_limit_usdt (0 = off)
    StartBalance,   \* account balance at the first start
    Pnls,           \* realised results of a trade
    MaxTime, MaxTrades, MaxRestarts, MaxSkew

ASSUME RiskAssumption ==
    /\ DayLen \in Nat \ {0}
    /\ {Cooldown, MaxLosses, LossPause, PctLimit, UsdtLimit} \subseteq Nat
    /\ StartBalance \in Int
    /\ Pnls \subseteq Int
    /\ {MaxTime, MaxTrades, MaxRestarts, MaxSkew} \subseteq Nat

VARIABLES
    now,        \* wall clock
    phase,      \* of the process: it runs, is shutting down, has ended
    st,         \* RiskManager.state
    calls,      \* per thread: the call it has stamped and not yet executed
    verdict,    \* per thread: what its last can_trade returned
    disk,       \* the risk-state JSON file
    account,    \* balance held by the exchange
    restarts,
    closed,     \* history: trades st has been told of, oldest first
    pausedDay,  \* history: day on which st.paused was last raised
    restartDay  \* history: day of the last restart

vars == <<now, phase, st, calls, verdict, disk, account, restarts, closed, pausedDay, restartDay>>

NoTime == -1
Day(t) == t \div DayLen

RiskState == [losses: Nat, last: Int, dayStart: Int, day: Int,
              equity: Int, paused: BOOLEAN, pauseUntil: Int]

(* RiskState(): the dataclass defaults. *)
FreshState == [losses |-> 0, last |-> NoTime, dayStart |-> 0, day |-> NoTime,
               equity |-> 0, paused |-> FALSE, pauseUntil |-> NoTime]

Trade == [at: Nat, pnl: Int]
Idle == [op |-> "idle", at |-> 0, pnl |-> 0]
Call == [op: {"idle", "can_trade", "update_trade"}, at: Nat, pnl: Int]
NoFile == [present |-> FALSE, st |-> FreshState, closed |-> <<>>, pausedDay |-> NoTime]
File == [present: BOOLEAN, st: RiskState, closed: Seq(Trade), pausedDay: Int]

TypeOK ==
    /\ now \in Nat
    /\ phase \in {"up", "stopping", "down"}
    /\ st \in RiskState
    /\ calls \in [Threads -> Call]
    /\ verdict \in [Threads -> {"none", "yes", "no"}]
    /\ disk \in File
    /\ account \in Int
    /\ restarts \in Nat
    /\ closed \in Seq(Trade)
    /\ {pausedDay, restartDay} \subseteq Int

-----------------------------------------------------------------------------
(* The pieces of can_trade and update_trade.                               *)

RollDay(s, at) ==
    IF s.day = Day(at) THEN s
    ELSE [s EXCEPT !.day = Day(at), !.dayStart = s.equity,
                   !.losses = 0, !.paused = FALSE]

LossPaused(s, at) == s.pauseUntil # NoTime /\ at < s.pauseUntil

CoolingDown(s, at) == s.last # NoTime /\ at - s.last < Cooldown

(* Mutant of LossStreak: off by one. *)
LossStreak_OffByOne(s) == MaxLosses > 0 /\ s.losses > MaxLosses

LossStreak(s) == MaxLosses > 0 /\ s.losses >= MaxLosses

(* Mutant of DrawdownHit: the USDT limit is only hit when it is exceeded. *)
DrawdownHit_Exceeded(s) == UsdtLimit > 0 /\ s.dayStart - s.equity > UsdtLimit

(* Percentage drawdown is only measured against a positive baseline. *)
DrawdownHit(s) ==
    \/ /\ PctLimit > 0 /\ s.dayStart > 0
       /\ 100 * (s.dayStart - s.equity) >= PctLimit * s.dayStart
    \/ /\ UsdtLimit > 0
       /\ s.dayStart - s.equity >= UsdtLimit

InitEquity(s, equity) ==
    [s EXCEPT !.equity = equity, !.dayStart = equity, !.day = Day(now)]

-----------------------------------------------------------------------------
Init ==
    /\ now = 0
    /\ phase = "up"
    /\ st = InitEquity(FreshState, StartBalance)
    /\ calls = [t \in Threads |-> Idle]
    /\ verdict = [t \in Threads |-> "none"]
    /\ disk = NoFile
    /\ account = StartBalance
    /\ restarts = 0
    /\ closed = <<>>
    /\ pausedDay = NoTime
    /\ restartDay = NoTime

Tick ==
    /\ now < MaxTime
    /\ \A t \in Threads : calls[t].op # "idle" => now - calls[t].at < MaxSkew
    /\ now' = now + 1
    /\ UNCHANGED <<phase, st, calls, verdict, disk, account, restarts, closed, pausedDay, restartDay>>

(* A thread evaluates datetime.now(utc) for a call it is about to make. *)
Stamp(t, op, pnl) ==
    /\ phase # "down"
    /\ calls[t].op = "idle"
    /\ calls' = [calls EXCEPT ![t] = [op |-> op, at |-> now, pnl |-> pnl]]
    /\ verdict' = [verdict EXCEPT ![t] = "none"]
    /\ UNCHANGED <<now, phase, st, disk, restarts, closed, pausedDay, restartDay>>

CallCanTrade(t) == Stamp(t, "can_trade", 0) /\ UNCHANGED account

(* The position has closed on the exchange; its monitor is about to report. *)
CallUpdateTrade(t) ==
    \E pnl \in Pnls :
        /\ Len(closed) + Cardinality({u \in Threads : calls[u].op = "update_trade"})
             < MaxTrades
        /\ Stamp(t, "update_trade", pnl)
        /\ account' = account + pnl

Return(t, answer) ==
    /\ calls' = [calls EXCEPT ![t] = Idle]
    /\ verdict' = [verdict EXCEPT ![t] = answer]
    /\ UNCHANGED <<now, phase, disk, account, restarts, closed, restartDay>>

Serving(t, op) == phase # "down" /\ calls[t].op = op

(* can_trade: still paused for the day or for a loss streak. *)
DenyPaused(t) ==
    LET s == RollDay(st, calls[t].at) IN
    /\ Serving(t, "can_trade")
    /\ s.paused \/ LossPaused(s, calls[t].at)
    /\ st' = s
    /\ Return(t, "no")
    /\ UNCHANGED pausedDay

(* can_trade past the pause checks: an elapsed loss pause is dropped. *)
Unpaused(t) ==
    LET s == RollDay(st, calls[t].at) IN [s EXCEPT !.pauseUntil = NoTime]

PastPauses(t) ==
    LET s == RollDay(st, calls[t].at) IN
    Serving(t, "can_trade") /\ ~s.paused /\ ~LossPaused(s, calls[t].at)

DenyCooldown(t) ==
    /\ PastPauses(t)
    /\ CoolingDown(Unpaused(t), calls[t].at)
    /\ st' = Unpaused(t)
    /\ Return(t, "no")
    /\ UNCHANGED pausedDay

DenyLossStreak(t) ==
    /\ PastPauses(t)
    /\ ~CoolingDown(Unpaused(t), calls[t].at)
    /\ LossStreak(Unpaused(t))
    /\ st' = [Unpaused(t) EXCEPT !.pauseUntil = calls[t].at + LossPause, !.losses = 0]
    /\ Return(t, "no")
    /\ UNCHANGED pausedDay

DenyDrawdown(t) ==
    /\ PastPauses(t)
    /\ ~CoolingDown(Unpaused(t), calls[t].at)
    /\ ~LossStreak(Unpaused(t))
    /\ DrawdownHit(Unpaused(t))
    /\ st' = [Unpaused(t) EXCEPT !.paused = TRUE]
    /\ pausedDay' = Day(calls[t].at)
    /\ Return(t, "no")

Grant(t) ==
    /\ PastPauses(t)
    /\ ~CoolingDown(Unpaused(t), calls[t].at)
    /\ ~LossStreak(Unpaused(t))
    /\ ~DrawdownHit(Unpaused(t))
    /\ st' = Unpaused(t)
    /\ Return(t, "yes")
    /\ UNCHANGED pausedDay

(* Mutant of CountLoss: a win forgives one loss instead of all of them. *)
CountLoss_Forgive(s, pnl) == IF pnl < 0 THEN s.losses + 1 ELSE s.losses - 1

CountLoss(s, pnl) == IF pnl < 0 THEN s.losses + 1 ELSE 0

UpdateTrade(t) ==
    LET c == calls[t]
        s == RollDay(st, c.at)
    IN
    /\ Serving(t, "update_trade")
    /\ st' = [s EXCEPT !.equity = s.equity + c.pnl,
                       !.last = c.at,
                       !.losses = CountLoss(s, c.pnl)]
    /\ closed' = Append(closed, [at |-> c.at, pnl |-> c.pnl])
    /\ calls' = [calls EXCEPT ![t] = Idle]
    /\ UNCHANGED <<now, phase, verdict, disk, account, restarts, pausedDay, restartDay>>

-----------------------------------------------------------------------------
(* Stop and restart.  The threads are daemons: they run on while the state
   is saved and the stream is stopped, and die with the process.           *)

(* RuntimeController._shutdown: risk.save(path). *)
Save ==
    /\ phase = "up"
    /\ restarts < MaxRestarts
    /\ phase' = "stopping"
    /\ disk' = [present |-> TRUE, st |-> st, closed |-> closed, pausedDay |-> pausedDay]
    /\ UNCHANGED <<now, st, calls, verdict, account, restarts, closed, pausedDay, restartDay>>

(* The process ends: after the save, or by a crash without one. *)
Exit ==
    /\ phase # "down"
    /\ restarts < MaxRestarts
    /\ phase' = "down"
    /\ restarts' = restarts + 1
    /\ calls' = [t \in Threads |-> Idle]
    /\ verdict' = [t \in Threads |-> "none"]
    /\ UNCHANGED <<now, st, disk, account, closed, pausedDay, restartDay>>

(* Mutants of Load: a field left out of the file. *)
Load_NoLastTrade ==
    IF disk.present THEN [disk.st EXCEPT !.last = NoTime] ELSE FreshState
Load_NoPaused ==
    IF disk.present THEN [disk.st EXCEPT !.paused = FALSE] ELSE FreshState

(* risk.load: the file's fields, or the defaults when there is no file. *)
Load == IF disk.present THEN disk.st ELSE FreshState

(* bootstrap_runtime of a live account: risk.load, then init_equity with the balance it
   fetched, or with 0.0 when the balance could not be fetched.  The trades
   and the pause of the history are those the loaded state can know. *)
Restart ==
    /\ phase = "down"
    /\ phase' = "up"
    /\ \E equity \in {account, 0} : st' = InitEquity(Load, equity)
    /\ closed' = disk.closed
    /\ pausedDay' = disk.pausedDay
    /\ restartDay' = Day(now)
    /\ UNCHANGED <<now, calls, verdict, disk, account, restarts>>

Next ==
    \/ Tick
    \/ \E t \in Threads :
        \/ CallCanTrade(t)
        \/ CallUpdateTrade(t)
        \/ DenyPaused(t)
        \/ DenyCooldown(t)
        \/ DenyLossStreak(t)
        \/ DenyDrawdown(t)
        \/ Grant(t)
        \/ UpdateTrade(t)
    \/ Save
    \/ Exit
    \/ Restart

Spec == Init /\ [][Next]_vars

-----------------------------------------------------------------------------
(* Properties.                                                             *)

Answered(t, answer) ==
    calls[t].op = "can_trade" /\ calls'[t].op = "idle" /\ verdict'[t] = answer

(* The rules an answer has to keep, as actions; MaxSkew is the price of
   stamping a call before the lock is taken. *)
CooldownKept ==
    \A t \in Threads : Answered(t, "yes") =>
        \A i \in DOMAIN closed : calls[t].at - closed[i].at >= Cooldown - MaxSkew

(* The losses that ended day d in a row, as far as it has come. *)
TradesOn(d) == {i \in DOMAIN closed : Day(closed[i].at) = d}
LossRun(d) ==
    {i \in TradesOn(d) : \A j \in TradesOn(d) : j >= i => closed[j].pnl < 0}

PauseServed ==
    \A t \in Threads : Answered(t, "yes") =>
        LET run == LossRun(Day(calls[t].at)) IN
        MaxLosses > 0 /\ Cardinality(run) = MaxLosses /\ restartDay # Day(calls[t].at) =>
            \A i \in run : calls[t].at >= closed[i].at + LossPause - 2 * MaxSkew

(* What some trades lost on day d, wins included. *)
LostOf(trades, d) ==
    LET total[i \in 0 .. Len(trades)] ==
          IF i = 0 THEN 0
          ELSE total[i - 1] - (IF Day(trades[i].at) = d THEN trades[i].pnl ELSE 0)
    IN total[Len(trades)]

WithinDailyLimit ==
    \A t \in Threads : Answered(t, "yes") =>
        LET lost == LostOf(closed, Day(calls[t].at)) IN
        restartDay # Day(calls[t].at) =>
            /\ UsdtLimit > 0 => lost < UsdtLimit
            /\ PctLimit > 0 /\ st'.dayStart > 0 => 100 * lost < PctLimit * st'.dayStart

DayStaysPaused ==
    \A t \in Threads : Answered(t, "yes") => pausedDay # Day(calls[t].at)

PauseIsOfTheDay ==
    \A t \in Threads : Answered(t, "no") /\ st'.paused => pausedDay' = Day(calls[t].at)

(* can_trade (risk.py:86-89) never allows an entry while ANY trade the
   manager knows of closed less than cooldown_sec ago, whichever thread
   reported last and across a graceful restart; out-of-order reports may
   shorten the wait by the skew of their stamps, never by more. *)
CooldownAfterEveryClose == [][CooldownKept]_vars

(* A streak of max_consecutive_losses losses closed on one day costs at
   least loss_pause_sec without entries for the rest of that day
   (risk.py:91-94), however the asking and the reporting threads interleave;
   stamps taken before the lock may shorten it by twice their skew.  On the day
   of a restart the streak of the day before may count in. *)
StreakServesPause == [][PauseServed]_vars

(* No entry is allowed on a day whose closed trades already lost
   daily_drawdown_limit_usdt, or daily_drawdown_limit of what the day began
   with (risk.py:96-110), but on the day of a restart, which measures from the
   balance it found (BaselineSurvivesRestart). *)
DailyLossLimit == [][WithinDailyLimit]_vars

(* Once can_trade has paused the day, no later call of that day is allowed,
   not even after winning trades, nor after a shutdown that saved the state
   and a restart that loaded it (risk.py:78, 104, 149, 174). *)
PauseHoldsAllDay == [][DayStaysPaused]_vars

(* "Reset day-scoped counters when UTC date changes." (risk.py:61): the
   daily pause is day-scoped, so a call is never answered from a daily pause
   that was raised on another day. *)
PauseEndsWithItsDay == [][PauseIsOfTheDay]_vars

(* "Risk state is persisted to logs/risk_state.json and reloaded
   automatically on restart." (DEPLOY.md:50): a restart on the day the file
   was saved keeps the equity that day's drawdown is measured from. *)
BaselineSurvivesRestart ==
    [][phase = "down" /\ phase' = "up" /\ disk.present /\ disk.st.day = Day(now) =>
          st'.dayStart = disk.st.dayStart]_vars
=============================================================================
