------------------------- MODULE RiskManagerProofs -------------------------
(* Type correctness of RiskManager, the cooldown after every close, and the *)
(* three rules of the day (the pause, the limits of its losses, the pause   *)
(* for a streak), for every value of the constants.                         *)
EXTENDS RiskManager, FiniteSetTheorems, WellFoundedInduction, TLAPS

LEMMA DayType == \A t \in Nat : Day(t) \in Nat
BY RiskAssumption DEF Day

LEMMA DayGrows == \A a, b \in Nat : a <= b => Day(a) <= Day(b)
BY RiskAssumption DEF Day

LEMMA TradeType ==
    ASSUME NEW trades \in Seq(Trade), NEW i \in 1 .. Len(trades)
    PROVE  trades[i] \in Trade /\ trades[i].at \in Nat
<1>1. trades[i] \in Trade
    OBVIOUS
<1> QED BY <1>1 DEF Trade

-----------------------------------------------------------------------------
(* Types.                                                                  *)

LEMMA RollType ==
    ASSUME NEW s \in RiskState, NEW at \in Nat
    PROVE  /\ RollDay(s, at) \in RiskState
           /\ RollDay(s, at).day = Day(at)
           /\ RollDay(s, at).last = s.last
<1>1. CASE s.day = Day(at)
    BY <1>1 DEF RollDay
<1>2. CASE s.day # Day(at)
  <2> DEFINE d == Day(at)
             e == s.equity
             r == [s EXCEPT !.day = d, !.dayStart = e, !.losses = 0, !.paused = FALSE]
  <2>1. RollDay(s, at) = r
      BY <1>2 DEF RollDay
  <2>2. d \in Int /\ e \in Int
      BY DayType DEF RiskState
  <2> HIDE DEF d, e
  <2>3. r \in RiskState
      BY <2>2 DEF RiskState
  <2>4. r.day = d /\ r.last = s.last
      BY DEF RiskState
  <2> QED BY <2>1, <2>3, <2>4 DEF d
<1> QED BY <1>1, <1>2

LEMMA LoadedType ==
    ASSUME TypeOK, NEW s \in RiskState, NEW equity \in Int
    PROVE  InitEquity(s, equity) \in RiskState /\ InitEquity(s, equity).last = s.last
<1>1. Day(now) \in Int
    BY DayType DEF TypeOK
<1> QED BY <1>1 DEF InitEquity, RiskState

LEMMA FreshType == FreshState \in RiskState
BY DEF FreshState, RiskState, NoTime

LEMMA IdleType == Idle \in Call
BY DEF Idle, Call

LEMMA CallType ==
    ASSUME TypeOK, NEW t \in Threads
    PROVE  /\ calls[t] \in Call /\ calls[t].at \in Nat /\ calls[t].pnl \in Int
           /\ RollDay(st, calls[t].at) \in RiskState
           /\ Unpaused(t) \in RiskState
<1>1. calls[t] \in Call /\ calls[t].at \in Nat /\ calls[t].pnl \in Int
    BY DEF TypeOK, Call
<1>2. RollDay(st, calls[t].at) \in RiskState
    BY <1>1, RollType DEF TypeOK
<1> QED BY <1>1, <1>2 DEF Unpaused, RiskState, NoTime

LEMMA InitTypeOK == Init => TypeOK
<1> SUFFICES ASSUME Init PROVE TypeOK
    OBVIOUS
<1>1. st \in RiskState
  <2>1. st = [FreshState EXCEPT !.equity = StartBalance, !.dayStart = StartBalance,
                                !.day = Day(now)]
      BY DEF Init, InitEquity
  <2>2. Day(now) \in Int /\ StartBalance \in Int
      BY DayType, RiskAssumption DEF Init
  <2> QED BY <2>1, <2>2, FreshType DEF RiskState
<1>2. disk \in File
    BY FreshType DEF Init, NoFile, File, NoTime
<1>3. calls \in [Threads -> Call]
    BY IdleType DEF Init
<1> QED BY <1>1, <1>2, <1>3, RiskAssumption DEF Init, TypeOK, NoTime

(* A thread stamps a call. *)
LEMMA StampType ==
    ASSUME TypeOK, NEW t \in Threads, CallCanTrade(t) \/ CallUpdateTrade(t)
    PROVE  TypeOK'
<1>1. PICK op \in {"can_trade", "update_trade"}, pnl \in Int :
        Stamp(t, op, pnl) /\ account' \in Int
  <2>1. CASE CallCanTrade(t)
      BY <2>1 DEF CallCanTrade, TypeOK
  <2>2. CASE CallUpdateTrade(t)
      BY <2>2, RiskAssumption DEF CallUpdateTrade, TypeOK
  <2> QED BY <2>1, <2>2
<1>2. [op |-> op, at |-> now, pnl |-> pnl] \in Call
    BY DEF Call, TypeOK
<1>3. calls' \in [Threads -> Call] /\ verdict' \in [Threads -> {"none", "yes", "no"}]
    BY <1>1, <1>2 DEF Stamp, TypeOK
<1> QED BY <1>1, <1>3 DEF Stamp, TypeOK

(* can_trade answers. *)
Answers(t) ==
    DenyPaused(t) \/ DenyCooldown(t) \/ DenyLossStreak(t) \/ DenyDrawdown(t) \/ Grant(t)

LEMMA AnswerType ==
    ASSUME TypeOK, NEW t \in Threads, Answers(t)
    PROVE  TypeOK'
<1>1. st' \in RiskState
  <2>1. CASE DenyPaused(t)
      BY <2>1, CallType DEF DenyPaused
  <2>2. CASE DenyCooldown(t) \/ Grant(t)
      BY <2>2, CallType DEF DenyCooldown, Grant
  <2>3. CASE DenyLossStreak(t)
    <3>1. calls[t].at + LossPause \in Int
        BY CallType, RiskAssumption
    <3> QED BY <2>3, <3>1, CallType DEF DenyLossStreak, RiskState
  <2>4. CASE DenyDrawdown(t)
      BY <2>4, CallType DEF DenyDrawdown, RiskState
  <2> QED BY <2>1, <2>2, <2>3, <2>4 DEF Answers
<1>2. pausedDay' \in Int
    BY CallType, DayType DEF Answers, DenyPaused, DenyCooldown, DenyLossStreak, DenyDrawdown,
                             Grant, TypeOK
<1>3. \E answer \in {"yes", "no"} : Return(t, answer)
    BY DEF Answers, DenyPaused, DenyCooldown, DenyLossStreak, DenyDrawdown, Grant
<1> QED BY <1>1, <1>2, <1>3, IdleType DEF Return, TypeOK

LEMMA UpdateType ==
    ASSUME TypeOK, NEW t \in Threads, UpdateTrade(t)
    PROVE  TypeOK'
<1> DEFINE c == calls[t]
           s == RollDay(st, c.at)
<1>1. c.at \in Nat /\ c.pnl \in Int /\ s \in RiskState
    BY CallType
<1>2. CountLoss(s, c.pnl) \in Nat
    BY <1>1 DEF CountLoss, RiskState
<1>3. st' \in RiskState
  <2>1. st' = [s EXCEPT !.equity = s.equity + c.pnl, !.last = c.at,
                        !.losses = CountLoss(s, c.pnl)]
      BY DEF UpdateTrade
  <2>2. s.equity + c.pnl \in Int
      BY <1>1 DEF RiskState
  <2> DEFINE e == s.equity + c.pnl
             n == CountLoss(s, c.pnl)
             a == c.at
  <2>3. e \in Int /\ n \in Nat /\ a \in Int
      BY <1>1, <1>2, <2>2
  <2> HIDE DEF s, c, e, n, a
  <2>4. [s EXCEPT !.equity = e, !.last = a, !.losses = n] \in RiskState
      BY <1>1, <2>3 DEF RiskState
  <2> QED BY <2>1, <2>4 DEF e, n, a
<1>4. [at |-> c.at, pnl |-> c.pnl] \in Trade
    BY <1>1 DEF Trade
<1>5. closed' \in Seq(Trade)
    BY <1>4 DEF UpdateTrade, TypeOK
<1> QED BY <1>3, <1>5, IdleType DEF UpdateTrade, TypeOK

LEMMA ProcessType ==
    ASSUME TypeOK, Tick \/ Save \/ Exit \/ Restart
    PROVE  TypeOK'
<1>1. CASE Tick
    BY <1>1 DEF Tick, TypeOK
<1>2. CASE Save
  <2>1. disk' \in File
      BY <1>2 DEF Save, TypeOK, File
  <2> QED BY <1>2, <2>1 DEF Save, TypeOK
<1>3. CASE Exit
    BY <1>3, IdleType DEF Exit, TypeOK
<1>4. CASE Restart
  <2>1. Load \in RiskState
      BY FreshType DEF Load, TypeOK, File
  <2>2. st' \in RiskState
      BY <1>4, <2>1, LoadedType DEF Restart, TypeOK
  <2>3. closed' \in Seq(Trade) /\ {pausedDay', restartDay'} \subseteq Int
      BY <1>4, DayType DEF Restart, TypeOK, File
  <2> QED BY <1>4, <2>2, <2>3 DEF Restart, TypeOK
<1> QED BY <1>1, <1>2, <1>3, <1>4

LEMMA NextType == TypeOK /\ [Next]_vars => TypeOK'
<1>1. TypeOK /\ UNCHANGED vars => TypeOK'
    BY DEF TypeOK, vars
<1> QED BY <1>1, StampType, AnswerType, UpdateType, ProcessType DEF Next, Answers

(* Every variable keeps its type, the loss count included: whatever the
   threads, restarts and files do, it never goes below zero
   (risk.py:60-126, 141-177). *)
THEOREM TypeCorrect == Spec => []TypeOK
BY InitTypeOK, NextType, PTL DEF Spec

-----------------------------------------------------------------------------
(* The cooldown.  What can_trade compares with is the stamp of the trade    *)
(* reported last, not of the trade that closed last: a report may overtake  *)
(* an older one by the skew of the stamps, and by no more.                  *)

(* The trades known are no later than the clock and at most the skew after
   the trade the state remembers as the last. *)
KnownUpTo(last, trades) ==
    \A i \in 1 .. Len(trades) :
        trades[i].at <= now /\ last # NoTime /\ trades[i].at <= last + MaxSkew

StampInv ==
    \A t \in Threads : calls[t].op # "idle" => calls[t].at <= now /\ now <= calls[t].at + MaxSkew

LastInv ==
    /\ KnownUpTo(st.last, closed)
    /\ KnownUpTo(disk.st.last, disk.closed)
    /\ ~disk.present => disk = NoFile

CooldownInv == StampInv /\ LastInv

LEMMA SkewType == MaxSkew \in Nat /\ Cooldown \in Nat
BY RiskAssumption

LEMMA StampCooldown ==
    ASSUME TypeOK, CooldownInv, NEW t \in Threads, CallCanTrade(t) \/ CallUpdateTrade(t)
    PROVE  CooldownInv'
<1>1. PICK op, pnl : Stamp(t, op, pnl)
    BY DEF CallCanTrade, CallUpdateTrade
<1>2. StampInv'
    BY <1>1, SkewType DEF Stamp, CooldownInv, StampInv, TypeOK
<1> QED BY <1>1, <1>2 DEF Stamp, CooldownInv, LastInv, KnownUpTo

LEMMA AnswerCooldown ==
    ASSUME TypeOK, CooldownInv, NEW t \in Threads, Answers(t)
    PROVE  CooldownInv'
<1>1. PICK answer : Return(t, answer)
    BY DEF Answers, DenyPaused, DenyCooldown, DenyLossStreak, DenyDrawdown, Grant
<1>2. st'.last = st.last
  <2>1. RollDay(st, calls[t].at).last = st.last /\ Unpaused(t).last = st.last
      BY CallType, RollType DEF Unpaused, RiskState, TypeOK
  <2> QED BY <2>1, CallType DEF Answers, DenyPaused, DenyCooldown, DenyLossStreak, DenyDrawdown,
                                Grant, RiskState
<1>3. StampInv'
    BY <1>1 DEF Return, CooldownInv, StampInv, Idle, TypeOK
<1> QED BY <1>1, <1>2, <1>3 DEF Return, CooldownInv, LastInv, KnownUpTo

LEMMA UpdateCooldown ==
    ASSUME TypeOK, CooldownInv, NEW t \in Threads, UpdateTrade(t)
    PROVE  CooldownInv'
<1>1. /\ calls[t].at \in Nat /\ calls[t].at <= now /\ now <= calls[t].at + MaxSkew
      /\ calls[t].at # NoTime
    BY CallType DEF UpdateTrade, Serving, CooldownInv, StampInv, NoTime
<1>2. st'.last = calls[t].at
  <2> DEFINE s == RollDay(st, calls[t].at)
             n == CountLoss(s, calls[t].pnl)
  <2>1. st' = [s EXCEPT !.equity = s.equity + calls[t].pnl, !.last = calls[t].at, !.losses = n]
      BY DEF UpdateTrade
  <2>2. s \in RiskState
      BY CallType
  <2> HIDE DEF s, n
  <2> QED BY <2>1, <2>2 DEF RiskState
<1>3. closed' = Append(closed, [at |-> calls[t].at, pnl |-> calls[t].pnl])
    BY DEF UpdateTrade
<1>4. UNCHANGED <<now, disk>>
    BY DEF UpdateTrade
<1>5. KnownUpTo(st.last, closed)'
  <2> SUFFICES ASSUME NEW i \in 1 .. Len(closed')
               PROVE  closed'[i].at <= now /\ closed'[i].at <= calls[t].at + MaxSkew
      BY <1>1, <1>2, <1>4 DEF KnownUpTo
  <2>1. CASE i \in 1 .. Len(closed)
    <3>1. closed'[i] = closed[i]
        BY <1>3, <2>1 DEF TypeOK
    <3>2. closed[i].at <= now
        BY <2>1 DEF CooldownInv, LastInv, KnownUpTo
    <3>3. closed[i].at \in Nat
        BY <2>1, TradeType DEF TypeOK
    <3> QED BY <1>1, <3>1, <3>2, <3>3, SkewType DEF TypeOK
  <2>2. CASE i = Len(closed) + 1
    <3>1. closed'[i].at = calls[t].at
        BY <1>3, <2>2 DEF TypeOK
    <3> QED BY <1>1, <3>1, SkewType
  <2> QED BY <1>3, <2>1, <2>2 DEF TypeOK
<1>6. StampInv'
    BY DEF UpdateTrade, CooldownInv, StampInv, Idle, TypeOK
<1> QED BY <1>4, <1>5, <1>6 DEF CooldownInv, LastInv, KnownUpTo

LEMMA ProcessCooldown ==
    ASSUME TypeOK, CooldownInv, Tick \/ Save \/ Exit \/ Restart
    PROVE  CooldownInv'
<1> USE DEF CooldownInv
<1>1. CASE Tick
  <2>1. StampInv'
    <3> SUFFICES ASSUME NEW t \in Threads, calls[t].op # "idle"
                 PROVE  calls[t].at <= now + 1 /\ now + 1 <= calls[t].at + MaxSkew
        BY <1>1 DEF Tick, StampInv
    <3>1. now - calls[t].at < MaxSkew /\ calls[t].at <= now
        BY <1>1 DEF Tick, StampInv
    <3> QED BY <3>1, CallType, SkewType DEF TypeOK
  <2>2. \A i \in 1 .. Len(closed) : closed[i].at \in Nat
      BY TradeType DEF TypeOK
  <2>3. \A i \in 1 .. Len(disk.closed) : disk.closed[i].at \in Nat
    <3>1. disk.closed \in Seq(Trade)
        BY DEF TypeOK, File
    <3> QED BY <3>1, TradeType
  <2> QED BY <1>1, <2>1, <2>2, <2>3 DEF Tick, LastInv, KnownUpTo, TypeOK
<1>2. CASE Save
    BY <1>2 DEF Save, StampInv, LastInv, KnownUpTo
<1>3. CASE Exit
    BY <1>3 DEF Exit, StampInv, LastInv, KnownUpTo, Idle
<1>4. CASE Restart
  <2>1. Load.last = disk.st.last
      BY DEF Load, LastInv, NoFile
  <2>2. st'.last = Load.last
      BY <1>4, FreshType DEF Restart, InitEquity, Load, RiskState, TypeOK, File
  <2> QED BY <1>4, <2>1, <2>2 DEF Restart, StampInv, LastInv, KnownUpTo
<1> QED BY <1>1, <1>2, <1>3, <1>4

LEMMA NextCooldown == TypeOK /\ CooldownInv /\ [Next]_vars => CooldownInv'
<1>1. CooldownInv /\ UNCHANGED vars => CooldownInv'
    BY DEF vars, CooldownInv, StampInv, LastInv, KnownUpTo
<1> QED BY <1>1, StampCooldown, AnswerCooldown, UpdateCooldown, ProcessCooldown
       DEF Next, Answers

LEMMA CooldownCorrect == Spec => []CooldownInv
<1>1. Init => CooldownInv
    BY DEF Init, CooldownInv, StampInv, LastInv, KnownUpTo, Idle, NoFile
<1> QED BY <1>1, NextCooldown, TypeCorrect, PTL DEF Spec

(* An answer comes from the thread that asked. *)
LEMMA GrantOnly ==
    ASSUME TypeOK, [Next]_vars, NEW t \in Threads, Answered(t, "yes")
    PROVE  Grant(t)
<1> USE DEF Answered, TypeOK
<1>1. calls' # calls
    OBVIOUS
<1>2. ~Exit /\ ~Tick /\ ~Save /\ ~Restart /\ ~UNCHANGED vars
    BY <1>1 DEF Exit, Tick, Save, Restart, vars
<1>3. PICK u \in Threads :
        CallCanTrade(u) \/ CallUpdateTrade(u) \/ Answers(u) \/ UpdateTrade(u)
    BY <1>2 DEF Next, Answers
<1>4. u = t
    BY <1>3 DEF CallCanTrade, CallUpdateTrade, Stamp, Answers, DenyPaused, DenyCooldown,
                DenyLossStreak, DenyDrawdown, Grant, Return, UpdateTrade
<1>5. ~CallCanTrade(t) /\ ~CallUpdateTrade(t) /\ ~UpdateTrade(t)
    BY DEF CallCanTrade, CallUpdateTrade, Stamp, UpdateTrade, Serving
<1>6. ~DenyPaused(t) /\ ~DenyCooldown(t) /\ ~DenyLossStreak(t) /\ ~DenyDrawdown(t)
    BY DEF DenyPaused, DenyCooldown, DenyLossStreak, DenyDrawdown, Return
<1> QED BY <1>3, <1>4, <1>5, <1>6 DEF Answers

(* can_trade never allows an entry within cooldown_sec, less the skew of the
   stamps, of the close of any trade the manager knows of, whichever threads
   reported and in whichever order, and across every restart
   (risk.py:86-89, 113-126). *)
THEOREM CooldownTheorem == Spec => CooldownAfterEveryClose
<1>1. TypeOK /\ CooldownInv /\ [Next]_vars => [CooldownKept]_vars
  <2> SUFFICES ASSUME TypeOK, CooldownInv, [Next]_vars, NEW t \in Threads, Answered(t, "yes"),
                      NEW i \in DOMAIN closed
               PROVE  calls[t].at - closed[i].at >= Cooldown - MaxSkew
      BY DEF CooldownKept
  <2>1. ~CoolingDown(Unpaused(t), calls[t].at) /\ Unpaused(t).last = st.last
      BY GrantOnly, CallType, RollType DEF Grant, Unpaused, RiskState, TypeOK
  <2>2. st.last # NoTime /\ closed[i].at <= st.last + MaxSkew /\ closed[i].at \in Nat
    <3>1. closed \in Seq(Trade) /\ i \in 1 .. Len(closed)
        BY DEF TypeOK
    <3> QED BY <3>1, TradeType DEF CooldownInv, LastInv, KnownUpTo
  <2>3. ~(calls[t].at - st.last < Cooldown)
      BY <2>1, <2>2 DEF CoolingDown
  <2>4. st.last \in Int /\ calls[t].at \in Nat
      BY CallType DEF TypeOK, RiskState
  <2> QED BY <2>2, <2>3, <2>4, SkewType
<1> QED BY <1>1, CooldownCorrect, TypeCorrect, PTL DEF Spec, CooldownAfterEveryClose
-----------------------------------------------------------------------------
(* The daily pause.  The pause is a flag of the state's day, so a call      *)
(* stamped before midnight and served after a call of the new day would     *)
(* roll the state back and drop it: the theorem is about clocks whose calls *)
(* are served on the day they were stamped.                                 *)

SameDayCalls == \A t \in Threads : calls[t].op # "idle" => Day(calls[t].at) = Day(now)

(* A state no later than today, that is paused when its day was paused. *)
PauseKnown(s, paused) ==
    /\ s.day <= Day(now)
    /\ paused # NoTime => paused <= s.day
    /\ paused # NoTime /\ paused = s.day => s.paused

PauseInv ==
    /\ PauseKnown(st, pausedDay)
    /\ PauseKnown(disk.st, disk.pausedDay)
    /\ ~disk.present => disk = NoFile

LEMMA TodayType == TypeOK => now \in Nat /\ Day(now) \in Nat /\ Day(now) # NoTime
BY DayType DEF TypeOK, NoTime

(* Rolling to today forgets a pause of an earlier day only. *)
LEMMA RollPause ==
    ASSUME TypeOK, NEW s \in RiskState, NEW paused \in Int, PauseKnown(s, paused),
           NEW at \in Nat, Day(at) = Day(now)
    PROVE  /\ PauseKnown(RollDay(s, at), paused)
           /\ paused = Day(now) => RollDay(s, at).paused
<1>1. s.day \in Int /\ Day(now) \in Int /\ Day(now) # NoTime
    BY TodayType DEF RiskState
<1>2. CASE s.day = Day(at)
  <2>1. RollDay(s, at) = s
      BY <1>2 DEF RollDay
  <2> QED BY <1>1, <1>2, <2>1 DEF PauseKnown
<1>3. CASE s.day # Day(at)
  <2>1. RollDay(s, at).day = Day(at)
      BY RollType
  <2> QED BY <1>1, <1>3, <2>1 DEF PauseKnown
<1> QED BY <1>2, <1>3

LEMMA StampPause ==
    ASSUME TypeOK, PauseInv, NEW t \in Threads, CallCanTrade(t) \/ CallUpdateTrade(t)
    PROVE  PauseInv'
BY DEF CallCanTrade, CallUpdateTrade, Stamp, PauseInv, PauseKnown

LEMMA RolledPause ==
    ASSUME TypeOK, PauseInv, SameDayCalls, NEW t \in Threads, calls[t].op # "idle"
    PROVE  /\ PauseKnown(RollDay(st, calls[t].at), pausedDay)
           /\ pausedDay = Day(now) => RollDay(st, calls[t].at).paused
<1>1. st \in RiskState /\ pausedDay \in Int /\ PauseKnown(st, pausedDay)
    BY DEF TypeOK, PauseInv
<1>2. calls[t].at \in Nat /\ Day(calls[t].at) = Day(now)
    BY CallType DEF SameDayCalls
<1> QED BY <1>1, <1>2, RollPause

LEMMA AnswerPause ==
    ASSUME TypeOK, PauseInv, SameDayCalls, NEW t \in Threads, Answers(t)
    PROVE  PauseInv'
<1> DEFINE s == RollDay(st, calls[t].at)
<1>1. PICK answer : Return(t, answer)
    BY DEF Answers, DenyPaused, DenyCooldown, DenyLossStreak, DenyDrawdown, Grant
<1>2. calls[t].op # "idle"
    BY DEF Answers, DenyPaused, DenyCooldown, DenyLossStreak, DenyDrawdown, Grant, PastPauses,
           Serving
<1>3. PauseKnown(s, pausedDay) /\ s \in RiskState
    BY <1>2, RolledPause, CallType
<1>4. Unpaused(t).day = s.day /\ Unpaused(t).paused = s.paused /\ Unpaused(t) \in RiskState
    BY <1>3, CallType DEF Unpaused, RiskState
<1>5. PauseKnown(st, pausedDay)'
  <2>1. CASE DenyPaused(t)
      BY <1>1, <1>3, <2>1 DEF DenyPaused, Return, PauseKnown
  <2>2. CASE DenyCooldown(t) \/ Grant(t)
      BY <1>1, <1>3, <1>4, <2>2 DEF DenyCooldown, Grant, Return, PauseKnown
  <2>3. CASE DenyLossStreak(t)
    <3>1. st'.day = s.day /\ st'.paused = s.paused
        BY <1>4, <2>3 DEF DenyLossStreak, RiskState
    <3> QED BY <1>1, <1>3, <2>3, <3>1 DEF DenyLossStreak, Return, PauseKnown
  <2>4. CASE DenyDrawdown(t)
    <3>1. st'.day = Day(calls[t].at) /\ st'.paused
      <4>1. s.day = Day(calls[t].at)
          BY CallType, RollType DEF TypeOK
      <4> QED BY <1>4, <2>4, <4>1 DEF DenyDrawdown, RiskState
    <3>2. pausedDay' = Day(calls[t].at) /\ Day(calls[t].at) = Day(now)
        BY <1>2, <2>4 DEF DenyDrawdown, SameDayCalls
    <3> QED BY <1>1, <3>1, <3>2, TodayType DEF Return, PauseKnown
  <2> QED BY <2>1, <2>2, <2>3, <2>4 DEF Answers
<1> QED BY <1>1, <1>5 DEF Return, PauseInv, PauseKnown

LEMMA UpdatePause ==
    ASSUME TypeOK, PauseInv, SameDayCalls, NEW t \in Threads, UpdateTrade(t)
    PROVE  PauseInv'
<1> DEFINE s == RollDay(st, calls[t].at)
           e == s.equity + calls[t].pnl
           n == CountLoss(s, calls[t].pnl)
           a == calls[t].at
<1>1. calls[t].op # "idle"
    BY DEF UpdateTrade, Serving
<1>2. PauseKnown(s, pausedDay) /\ s \in RiskState
    BY <1>1, RolledPause, CallType
<1>3. st' = [s EXCEPT !.equity = e, !.last = a, !.losses = n]
    BY DEF UpdateTrade
<1>4. st'.day = s.day /\ st'.paused = s.paused
  <2> HIDE DEF s, e, a, n
  <2> QED BY <1>2, <1>3 DEF RiskState
<1> QED BY <1>2, <1>4 DEF UpdateTrade, PauseInv, PauseKnown

LEMMA ProcessPause ==
    ASSUME TypeOK, PauseInv, Tick \/ Save \/ Exit \/ Restart
    PROVE  PauseInv'
<1> USE DEF PauseInv, PauseKnown
<1>1. CASE Tick
  <2>1. Day(now) <= Day(now') /\ Day(now') \in Nat
      BY <1>1, DayGrows, DayType DEF Tick, TypeOK
  <2>2. st.day \in Int /\ disk.st.day \in Int
      BY DEF TypeOK, RiskState, File
  <2> QED BY <1>1, <2>1, <2>2, TodayType DEF Tick
<1>2. CASE Save \/ Exit
    BY <1>2 DEF Save, Exit
<1>3. CASE Restart
  <2>1. PICK equity \in {account, 0} : st' = InitEquity(Load, equity)
      BY <1>3 DEF Restart
  <2>2. Load \in RiskState /\ Load = disk.st
      BY DEF Load, NoFile, TypeOK, File
  <2>3. st'.day = Day(now) /\ st'.paused = disk.st.paused
    <3> DEFINE d == Day(now)
    <3> HIDE DEF d
    <3>1. st' = [disk.st EXCEPT !.equity = equity, !.dayStart = equity, !.day = d]
        BY <2>1, <2>2 DEF InitEquity, d
    <3>2. st'.day = d /\ st'.paused = disk.st.paused
        BY <2>2, <3>1 DEF RiskState
    <3> QED BY <3>2 DEF d
  <2>4. disk.st.day \in Int /\ disk.pausedDay \in Int
      BY <2>2 DEF TypeOK, File, RiskState
  <2> QED BY <1>3, <2>3, <2>4, TodayType DEF Restart
<1> QED BY <1>1, <1>2, <1>3

LEMMA NextPause == TypeOK /\ PauseInv /\ SameDayCalls /\ [Next]_vars => PauseInv'
<1>1. PauseInv /\ UNCHANGED vars => PauseInv'
    BY DEF vars, PauseInv, PauseKnown
<1> QED BY <1>1, StampPause, AnswerPause, UpdatePause, ProcessPause DEF Next, Answers

LEMMA PauseCorrect == Spec /\ []SameDayCalls => []PauseInv
<1>1. Init => PauseInv
  <2> SUFFICES ASSUME Init PROVE PauseInv
      OBVIOUS
  <2>1. st.day = Day(now) /\ Day(now) \in Nat
      BY DayType DEF Init, InitEquity, FreshState
  <2> QED BY <2>1 DEF Init, PauseInv, PauseKnown, NoFile, FreshState, NoTime
<1> QED BY <1>1, NextPause, TypeCorrect, PTL DEF Spec

(* When every call is served on the day it was stamped, a day that can_trade
   has paused stays paused: no call of that day is allowed, whatever the
   trades reported later, across a shutdown that saved the state and across
   a crash, for as much of the history as the file could know
   (risk.py:60-110, 141-177). *)
THEOREM PauseOfOneDay == Spec /\ []SameDayCalls => PauseHoldsAllDay
<1>1. TypeOK /\ PauseInv /\ SameDayCalls /\ [Next]_vars => [DayStaysPaused]_vars
  <2> SUFFICES ASSUME TypeOK, PauseInv, SameDayCalls, [Next]_vars, NEW t \in Threads,
                      Answered(t, "yes"), pausedDay = Day(calls[t].at)
               PROVE  FALSE
      BY DEF DayStaysPaused
  <2>1. Grant(t) /\ calls[t].op # "idle"
      BY GrantOnly DEF Answered
  <2>2. RollDay(st, calls[t].at).paused
      BY <2>1, RolledPause DEF SameDayCalls
  <2> QED BY <2>1, <2>2 DEF Grant, PastPauses
<1> QED BY <1>1, PauseCorrect, TypeCorrect, PTL DEF Spec, PauseHoldsAllDay

-----------------------------------------------------------------------------
(* What the trades of a day lost.  The sum is a recursive function: that it *)
(* exists, and is the only one, is by the least number at which it would    *)
(* not, which the well-foundedness of < provides.                           *)

LEMMA LeastNumber ==
    ASSUME NEW T \in SUBSET Nat, T # {}
    PROVE  \E n \in T : \A m \in T : n <= m
<1> DEFINE R == OpToRel(<, Nat)
<1>1. \E x \in T : \A y \in T : ~(<<y, x>> \in R)
    BY NatLessThanWellFounded, WFMin
<1>2. \A x, y \in Nat : <<y, x>> \in R <=> y < x
    BY DEF OpToRel
<1> HIDE DEF R
<1>3. PICK x \in T : \A y \in T : ~(<<y, x>> \in R)
    BY <1>1
<1>4. x \in Nat /\ T \subseteq Nat
    OBVIOUS
<1>5. \A y \in T : ~(y < x)
    BY <1>2, <1>3, <1>4
<1> QED BY <1>4, <1>5

(* What trade i takes off, and what f says the first n trades lost. *)
Off(trades, d, i) == IF Day(trades[i].at) = d THEN trades[i].pnl ELSE 0
Sums(f, trades, d, n) ==
    f = [i \in 0 .. n |-> IF i = 0 THEN 0 ELSE f[i - 1] - Off(trades, d, i)]

LEMMA OffType ==
    ASSUME NEW trades \in Seq(Trade), NEW d, NEW i \in 1 .. Len(trades)
    PROVE  Off(trades, d, i) \in Int
<1>1. trades[i] \in Trade
    OBVIOUS
<1> QED BY <1>1 DEF Off, Trade

LEMMA SumsExist ==
    ASSUME NEW trades \in Seq(Trade), NEW d, NEW n \in 0 .. Len(trades)
    PROVE  \E f : Sums(f, trades, d, n)
<1> DEFINE T == {m \in 0 .. Len(trades) : ~ \E f : Sums(f, trades, d, m)}
<1>1. SUFFICES ASSUME T # {} PROVE FALSE
    OBVIOUS
<1>2. PICK m \in T : \A k \in T : m <= k
  <2>1. T \in SUBSET Nat
      OBVIOUS
  <2> HIDE DEF T
  <2> QED BY <1>1, <2>1, LeastNumber
<1>3. m # 0
  <2>1. Sums([i \in 0 .. 0 |-> 0], trades, d, 0)
      BY DEF Sums
  <2> QED BY <2>1
<1>4. m - 1 \in 0 .. Len(trades) /\ m - 1 \notin T
    BY <1>2, <1>3
<1>5. PICK f : Sums(f, trades, d, m - 1)
    BY <1>4
<1> DEFINE g == [i \in 0 .. m |-> IF i = m THEN f[m - 1] - Off(trades, d, m) ELSE f[i]]
<1>6. Sums(g, trades, d, m)
  <2>1. \A i \in 0 .. m - 1 : f[i] = IF i = 0 THEN 0 ELSE f[i - 1] - Off(trades, d, i)
      BY <1>5 DEF Sums
  <2>2. \A i \in 0 .. m : g[i] = IF i = 0 THEN 0 ELSE g[i - 1] - Off(trades, d, i)
      BY <1>2, <1>3, <2>1
  <2>3. g = [i \in 0 .. m |-> g[i]]
      OBVIOUS
  <2> HIDE DEF g
  <2> QED BY <2>2, <2>3 DEF Sums
<1> QED BY <1>2, <1>6

(* Two sums agree as far as the trades do. *)
LEMMA SumsAgree ==
    ASSUME NEW trades, NEW others, NEW d, NEW n \in Nat, NEW m \in Nat, n <= m,
           \A i \in 1 .. n : trades[i] = others[i],
           NEW f, Sums(f, trades, d, n), NEW g, Sums(g, others, d, m)
    PROVE  \A i \in 0 .. n : f[i] = g[i]
<1> DEFINE T == {i \in 0 .. n : f[i] # g[i]}
<1>1. SUFFICES ASSUME T # {} PROVE FALSE
    OBVIOUS
<1>2. PICK i \in T : \A k \in T : i <= k
  <2>1. T \in SUBSET Nat
      OBVIOUS
  <2> HIDE DEF T
  <2> QED BY <1>1, <2>1, LeastNumber
<1>3. /\ f[i] = IF i = 0 THEN 0 ELSE f[i - 1] - Off(trades, d, i)
      /\ g[i] = IF i = 0 THEN 0 ELSE g[i - 1] - Off(others, d, i)
    BY <1>2 DEF Sums
<1>4. i # 0
    BY <1>2, <1>3
<1>5. f[i - 1] = g[i - 1]
    BY <1>2, <1>4
<1>6. Off(trades, d, i) = Off(others, d, i)
    BY <1>2, <1>4 DEF Off
<1> QED BY <1>2, <1>3, <1>4, <1>5, <1>6

LEMMA LostSum ==
    ASSUME NEW trades \in Seq(Trade), NEW d
    PROVE  \E f : Sums(f, trades, d, Len(trades)) /\ LostOf(trades, d) = f[Len(trades)]
<1> DEFINE P(f) == f = [i \in 0 .. Len(trades) |->
                          IF i = 0 THEN 0
                          ELSE f[i - 1] - (IF Day(trades[i].at) = d THEN trades[i].pnl ELSE 0)]
           total == CHOOSE f : P(f)
<1>1. \A f : P(f) <=> Sums(f, trades, d, Len(trades))
    BY DEF Sums, Off
<1>2. \E f : P(f)
  <2>1. Len(trades) \in 0 .. Len(trades)
      OBVIOUS
  <2>2. \E f : Sums(f, trades, d, Len(trades))
      BY <2>1, SumsExist
  <2> HIDE DEF P
  <2> QED BY <1>1, <2>2
<1>3. P(total)
    BY <1>2
<1>4. LostOf(trades, d) = total[Len(trades)]
    BY DEF LostOf
<1> QED BY <1>1, <1>3, <1>4

(* Nothing is lost without trades of the day ... *)
LEMMA LostNone ==
    ASSUME NEW trades \in Seq(Trade), NEW d,
           \A i \in 1 .. Len(trades) : Day(trades[i].at) # d
    PROVE  LostOf(trades, d) = 0
<1>1. PICK f : Sums(f, trades, d, Len(trades)) /\ LostOf(trades, d) = f[Len(trades)]
    BY LostSum
<1> DEFINE T == {i \in 0 .. Len(trades) : f[i] # 0}
<1>2. SUFFICES ASSUME T # {} PROVE FALSE
    BY <1>1
<1>3. PICK i \in T : \A k \in T : i <= k
  <2>1. T \in SUBSET Nat
      OBVIOUS
  <2> HIDE DEF T
  <2> QED BY <1>2, <2>1, LeastNumber
<1>4. f[i] = IF i = 0 THEN 0 ELSE f[i - 1] - Off(trades, d, i)
    BY <1>1, <1>3 DEF Sums
<1>5. i # 0
    BY <1>3, <1>4
<1>6. f[i - 1] = 0 /\ Off(trades, d, i) = 0
    BY <1>3, <1>5 DEF Off
<1> QED BY <1>3, <1>4, <1>5, <1>6

(* ... and each trade counts once. *)
LEMMA LostMore ==
    ASSUME NEW trades \in Seq(Trade), NEW d, NEW c \in Trade
    PROVE  LostOf(Append(trades, c), d) =
             LostOf(trades, d) - (IF Day(c.at) = d THEN c.pnl ELSE 0)
<1> DEFINE others == Append(trades, c)
           n == Len(trades)
<1>1. /\ others \in Seq(Trade) /\ Len(others) = n + 1 /\ n \in Nat
      /\ others[n + 1] = c /\ \A i \in 1 .. n : trades[i] = others[i]
    OBVIOUS
<1> HIDE DEF others
<1>2. PICK f : Sums(f, trades, d, n) /\ LostOf(trades, d) = f[n]
    BY LostSum
<1>3. PICK g : Sums(g, others, d, n + 1) /\ LostOf(others, d) = g[n + 1]
    BY <1>1, LostSum
<1>4. f[n] = g[n]
  <2>1. n <= n + 1 /\ n + 1 \in Nat
      BY <1>1
  <2>2. \A i \in 0 .. n : f[i] = g[i]
      BY <1>1, <1>2, <1>3, <2>1, SumsAgree
  <2> QED BY <1>1, <2>2
<1>5. g[n + 1] = g[n] - Off(others, d, n + 1)
  <2>1. \A i \in 0 .. n + 1 : g[i] = IF i = 0 THEN 0 ELSE g[i - 1] - Off(others, d, i)
      BY <1>3 DEF Sums
  <2>2. n + 1 \in 0 .. n + 1 /\ n + 1 # 0 /\ (n + 1) - 1 = n
      BY <1>1
  <2> QED BY <2>1, <2>2
<1> QED BY <1>1, <1>2, <1>3, <1>4, <1>5 DEF Off, others

LEMMA LostType ==
    ASSUME NEW trades \in Seq(Trade), NEW d
    PROVE  LostOf(trades, d) \in Int
<1>1. PICK f : Sums(f, trades, d, Len(trades)) /\ LostOf(trades, d) = f[Len(trades)]
    BY LostSum
<1> DEFINE T == {i \in 0 .. Len(trades) : f[i] \notin Int}
<1>2. SUFFICES ASSUME T # {} PROVE FALSE
    BY <1>1
<1>3. PICK i \in T : \A k \in T : i <= k
  <2>1. T \in SUBSET Nat
      OBVIOUS
  <2> HIDE DEF T
  <2> QED BY <1>2, <2>1, LeastNumber
<1>4. f[i] = IF i = 0 THEN 0 ELSE f[i - 1] - Off(trades, d, i)
    BY <1>1, <1>3 DEF Sums
<1>5. i # 0
    BY <1>3, <1>4
<1>6. f[i - 1] \in Int /\ Off(trades, d, i) \in Int
    BY <1>3, <1>5, OffType
<1> QED BY <1>3, <1>4, <1>5, <1>6
-----------------------------------------------------------------------------
(* The streak and the daily limit.  Unless the process was restarted on it, *)
(* the state of a day counts that day's trades and no other.                *)

(* LossRun of some trades. *)
RunOf(trades, d) ==
    {i \in 1 .. Len(trades) :
        /\ Day(trades[i].at) = d
        /\ \A j \in 1 .. Len(trades) : Day(trades[j].at) = d /\ j >= i => trades[j].pnl < 0}

LEMMA RunType ==
    ASSUME NEW trades \in Seq(Trade), NEW d
    PROVE  IsFiniteSet(RunOf(trades, d)) /\ Cardinality(RunOf(trades, d)) \in Nat
<1>1. IsFiniteSet(1 .. Len(trades))
  <2>1. 1 \in Int /\ Len(trades) \in Int
      OBVIOUS
  <2> QED BY <2>1, FS_Interval
<1>2. RunOf(trades, d) \in SUBSET (1 .. Len(trades))
    BY DEF RunOf
<1> QED BY <1>1, <1>2, FS_Subset, FS_CardinalityType

LEMMA RunNone ==
    ASSUME NEW trades \in Seq(Trade), NEW d,
           \A i \in 1 .. Len(trades) : Day(trades[i].at) # d
    PROVE  RunOf(trades, d) = {}
BY DEF RunOf

(* A loss makes the run longer by one, a win ends it. *)
LEMMA RunMore ==
    ASSUME NEW trades \in Seq(Trade), NEW c \in Trade
    PROVE  LET run == RunOf(trades, Day(c.at))
               more == RunOf(Append(trades, c), Day(c.at))
           IN  /\ c.pnl < 0 => /\ more = run \cup {Len(trades) + 1}
                               /\ Cardinality(more) = Cardinality(run) + 1
               /\ c.pnl >= 0 => more = {}
<1> DEFINE others == Append(trades, c)
           n == Len(trades)
           d == Day(c.at)
           run == RunOf(trades, d)
           more == RunOf(others, d)
<1>1. /\ others \in Seq(Trade) /\ Len(others) = n + 1 /\ n \in Nat
      /\ others[n + 1] = c /\ \A i \in 1 .. n : others[i] = trades[i]
    OBVIOUS
<1> HIDE DEF others, n, d
<1>2. c.pnl \in Int /\ Day(c.at) = d
    BY DEF Trade, d
<1>3. ASSUME c.pnl < 0 PROVE more = run \cup {n + 1}
  <2>1. ASSUME NEW i \in 1 .. n PROVE i \in more <=> i \in run
      BY <1>1, <1>2, <1>3, <2>1 DEF RunOf, n
  <2>2. n + 1 \in more
      BY <1>1, <1>2, <1>3 DEF RunOf
  <2>3. more \subseteq 1 .. n + 1 /\ run \subseteq 1 .. n
      BY <1>1 DEF RunOf, n
  <2>4. \A i \in 1 .. n + 1 : i \in 1 .. n \/ i = n + 1
      BY <1>1
  <2> HIDE DEF more, run
  <2> QED BY <2>1, <2>2, <2>3, <2>4
<1>4. ASSUME c.pnl >= 0 PROVE more = {}
    BY <1>1, <1>2, <1>4 DEF RunOf
<1>5. n + 1 \notin run
    BY <1>1 DEF RunOf, n
<1>6. IsFiniteSet(run)
    BY RunType
<1>7. c.pnl < 0 => Cardinality(more) = Cardinality(run) + 1
  <2> HIDE DEF more, run
  <2> QED BY <1>3, <1>5, <1>6, FS_AddElement
<1> QED BY <1>3, <1>4, <1>7 DEF d, n, others

(* The pause for trade i of the run has been set, or is over. *)
Served(s, i) ==
    \/ closed[i].at + LossPause - MaxSkew <= s.pauseUntil
    \/ closed[i].at + LossPause - MaxSkew <= now

StreakKnown(s) ==
    LET run == RunOf(closed, s.day) IN
    /\ Cardinality(run) < MaxLosses => s.losses = Cardinality(run)
    /\ Cardinality(run) = MaxLosses => s.losses = MaxLosses \/ \A i \in run : Served(s, i)

DayKnown(s) ==
    /\ restartDay <= s.day
    /\ \A i \in 1 .. Len(closed) : Day(closed[i].at) <= s.day
    /\ restartDay # s.day =>
        /\ s.dayStart - s.equity = LostOf(closed, s.day)
        /\ MaxLosses > 0 => StreakKnown(s)

DayInv == CooldownInv /\ PauseInv /\ DayKnown(st)

LEMMA ClosedTrades ==
    ASSUME TypeOK
    PROVE  /\ closed \in Seq(Trade)
           /\ \A i \in 1 .. Len(closed) : closed[i].at \in Nat /\ Day(closed[i].at) \in Nat
<1>1. closed \in Seq(Trade)
    BY DEF TypeOK
<1> QED BY <1>1, TradeType, DayType

(* Rolling to today begins an empty day. *)
LEMMA RollKnown ==
    ASSUME TypeOK, DayInv, NEW at \in Nat, Day(at) = Day(now)
    PROVE  DayKnown(RollDay(st, at))
<1>1. CASE st.day = Day(at)
  <2>1. RollDay(st, at) = st
      BY <1>1 DEF RollDay
  <2> QED BY <2>1 DEF DayInv
<1>2. CASE st.day # Day(at)
  <2> DEFINE r == RollDay(st, at)
             d == Day(at)
             e == st.equity
  <2>1. d \in Nat /\ st.day \in Int /\ restartDay \in Int /\ e \in Int
      BY DayType DEF TypeOK, RiskState
  <2>2. st.day < d
      BY <1>2, <2>1 DEF DayInv, PauseInv, PauseKnown
  <2>3. r.day = d /\ r.dayStart = e /\ r.equity = e /\ r.losses = 0
    <3> HIDE DEF d, e
    <3>1. st \in RiskState
        BY DEF TypeOK
    <3>2. r = [st EXCEPT !.day = d, !.dayStart = e, !.losses = 0, !.paused = FALSE]
        BY <1>2 DEF RollDay, d, e
    <3> HIDE DEF r
    <3> QED BY <3>1, <3>2 DEF RiskState, e
  <2>4. \A i \in 1 .. Len(closed) : Day(closed[i].at) < d
      BY <2>1, <2>2, ClosedTrades DEF DayInv, DayKnown
  <2> HIDE DEF d, r
  <2>5. LostOf(closed, d) = 0 /\ RunOf(closed, d) = {}
    <3>1. \A i \in 1 .. Len(closed) : Day(closed[i].at) # d
        BY <2>1, <2>4, ClosedTrades
    <3> QED BY <3>1, ClosedTrades, LostNone, RunNone
  <2>6. MaxLosses > 0 => StreakKnown(r)
    <3>1. Cardinality({}) = 0 /\ MaxLosses \in Nat
        BY FS_EmptySet, RiskAssumption
    <3> QED BY <2>3, <2>5, <3>1 DEF StreakKnown
  <2>7. restartDay <= r.day
      BY <2>1, <2>2, <2>3 DEF DayInv, DayKnown
  <2>8. \A i \in 1 .. Len(closed) : Day(closed[i].at) <= r.day
      BY <2>1, <2>3, <2>4, ClosedTrades
  <2>9. r.dayStart - r.equity = 0
      BY <2>1, <2>3
  <2> QED BY <2>3, <2>5, <2>6, <2>7, <2>8, <2>9 DEF DayKnown, r
<1> QED BY <1>1, <1>2

LEMMA CallNow ==
    ASSUME TypeOK, DayInv, SameDayCalls, NEW t \in Threads, calls[t].op # "idle"
    PROVE  /\ calls[t].at \in Nat /\ calls[t].at <= now /\ now <= calls[t].at + MaxSkew
           /\ now \in Nat /\ MaxSkew \in Nat /\ Day(calls[t].at) = Day(now)
           /\ DayKnown(RollDay(st, calls[t].at))
           /\ RollDay(st, calls[t].at).day = Day(now)
<1>1. /\ calls[t].at \in Nat /\ calls[t].at <= now /\ now <= calls[t].at + MaxSkew
      /\ now \in Nat /\ MaxSkew \in Nat /\ Day(calls[t].at) = Day(now)
    BY CallType, SkewType DEF TypeOK, DayInv, CooldownInv, StampInv, SameDayCalls
<1>2. DayKnown(RollDay(st, calls[t].at))
    BY <1>1, RollKnown
<1>3. RollDay(st, calls[t].at).day = Day(now)
    BY <1>1, RollType DEF TypeOK
<1> QED BY <1>1, <1>2, <1>3

(* Dropping an elapsed pause forgets nothing. *)
LEMMA UnpausedKnown ==
    ASSUME TypeOK, DayInv, SameDayCalls, NEW t \in Threads, PastPauses(t)
    PROVE  /\ DayKnown(Unpaused(t)) /\ Unpaused(t) \in RiskState
           /\ Unpaused(t).day = Day(now) /\ Unpaused(t).pauseUntil = NoTime
<1> DEFINE s == RollDay(st, calls[t].at)
           u == Unpaused(t)
<1>1. /\ calls[t].at \in Nat /\ calls[t].at <= now /\ now \in Nat
      /\ DayKnown(s) /\ s.day = Day(now) /\ s \in RiskState
    BY CallNow, CallType DEF PastPauses, Serving
<1>2. s.pauseUntil = NoTime \/ s.pauseUntil <= calls[t].at
    BY <1>1 DEF PastPauses, LossPaused, RiskState
<1>3. u = [s EXCEPT !.pauseUntil = NoTime]
    BY DEF Unpaused
<1> HIDE DEF s, u
<1>4. /\ u.day = s.day /\ u.dayStart = s.dayStart /\ u.equity = s.equity /\ u.losses = s.losses
      /\ u.pauseUntil = NoTime /\ u \in RiskState /\ s.pauseUntil \in Int
    BY <1>1, <1>3 DEF RiskState, NoTime
<1>5. ASSUME NEW i \in 1 .. Len(closed), Served(s, i) PROVE Served(u, i)
  <2>1. closed[i].at + LossPause - MaxSkew \in Int
      BY ClosedTrades, SkewType, RiskAssumption
  <2> QED BY <1>1, <1>2, <1>4, <1>5, <2>1 DEF Served, NoTime
<1>6. RunOf(closed, s.day) \subseteq 1 .. Len(closed)
    BY DEF RunOf
<1>7. StreakKnown(s) => StreakKnown(u)
    BY <1>4, <1>5, <1>6 DEF StreakKnown
<1>8. DayKnown(u)
    BY <1>1, <1>4, <1>7 DEF DayKnown
<1> QED BY <1>1, <1>4, <1>8 DEF u

(* What a call changes besides the state of the day. *)
LEMMA KnownPrimed ==
    ASSUME NEW s, UNCHANGED <<closed, now, restartDay>>, st' = s, DayKnown(s)
    PROVE  DayKnown(st)'
BY DEF DayKnown, StreakKnown, Served

LEMMA KnownByFields ==
    ASSUME NEW r, NEW s, DayKnown(r), s.day = r.day, s.dayStart = r.dayStart,
           s.equity = r.equity, s.losses = r.losses, s.pauseUntil = r.pauseUntil
    PROVE  DayKnown(s)
BY DEF DayKnown, StreakKnown, Served

LEMMA AnswerKnown ==
    ASSUME TypeOK, DayInv, SameDayCalls, NEW t \in Threads, Answers(t)
    PROVE  DayKnown(st)'
<1>1. UNCHANGED <<closed, now, restartDay>>
    BY DEF Answers, DenyPaused, DenyCooldown, DenyLossStreak, DenyDrawdown, Grant, Return
<1>2. CASE DenyPaused(t)
    BY <1>1, <1>2, CallNow, KnownPrimed DEF DenyPaused, Serving
<1>3. CASE DenyCooldown(t) \/ Grant(t)
    BY <1>1, <1>3, UnpausedKnown, KnownPrimed DEF DenyCooldown, Grant
<1>4. CASE DenyDrawdown(t)
  <2> DEFINE u == Unpaused(t)
             v == [u EXCEPT !.paused = TRUE]
  <2>1. DayKnown(u) /\ u \in RiskState
      BY <1>4, UnpausedKnown DEF DenyDrawdown
  <2>2. st' = v
      BY <1>4 DEF DenyDrawdown
  <2> HIDE DEF u
  <2>3. /\ v.day = u.day /\ v.dayStart = u.dayStart /\ v.equity = u.equity
        /\ v.losses = u.losses /\ v.pauseUntil = u.pauseUntil
      BY <2>1 DEF RiskState
  <2> HIDE DEF v
  <2>4. DayKnown(v)
      BY <2>1, <2>3, KnownByFields
  <2> QED BY <1>1, <2>2, <2>4, KnownPrimed
<1>5. CASE DenyLossStreak(t)
  <2> DEFINE u == Unpaused(t)
             p == calls[t].at + LossPause
             v == [u EXCEPT !.pauseUntil = p, !.losses = 0]
  <2>1. DayKnown(u) /\ u \in RiskState
      BY <1>5, UnpausedKnown DEF DenyLossStreak
  <2>2. st' = v /\ MaxLosses > 0 /\ u.losses >= MaxLosses
      BY <1>5 DEF DenyLossStreak, LossStreak
  <2>3. /\ calls[t].at \in Nat /\ now <= calls[t].at + MaxSkew /\ now \in Nat
        /\ MaxSkew \in Nat /\ LossPause \in Nat /\ MaxLosses \in Nat /\ p = calls[t].at + LossPause
      BY <1>5, CallNow, RiskAssumption DEF DenyLossStreak, PastPauses, Serving
  <2> HIDE DEF u, p
  <2>4. /\ v.day = u.day /\ v.dayStart = u.dayStart /\ v.equity = u.equity
        /\ v.losses = 0 /\ v.pauseUntil = p
      BY <2>1 DEF RiskState
  <2> HIDE DEF v
  <2>5. ASSUME NEW i \in 1 .. Len(closed) PROVE Served(v, i)
    <3>1. closed[i].at \in Nat /\ closed[i].at <= now
        BY ClosedTrades DEF DayInv, CooldownInv, LastInv, KnownUpTo
    <3> QED BY <2>3, <2>4, <3>1 DEF Served
  <2>6. StreakKnown(u) => StreakKnown(v)
    <3> DEFINE run == RunOf(closed, u.day)
               n == Cardinality(run)
    <3>1. n \in Nat /\ run \subseteq 1 .. Len(closed) /\ u.losses \in Nat
        BY <2>1, RunType, ClosedTrades DEF RunOf, RiskState
    <3>2. ASSUME StreakKnown(u) PROVE ~(n < MaxLosses)
        BY <2>2, <2>3, <3>1, <3>2 DEF StreakKnown
    <3> HIDE DEF n
    <3> QED BY <2>4, <2>5, <3>1, <3>2 DEF StreakKnown, n
  <2>7. DayKnown(v)
      BY <2>1, <2>4, <2>6 DEF DayKnown
  <2> QED BY <1>1, <2>2, <2>7, KnownPrimed
<1> QED BY <1>2, <1>3, <1>4, <1>5 DEF Answers

(* A trade reported is one more of today. *)
LEMMA UpdateKnown ==
    ASSUME TypeOK, DayInv, SameDayCalls, NEW t \in Threads, UpdateTrade(t)
    PROVE  DayKnown(st)'
<1> DEFINE s == RollDay(st, calls[t].at)
           a == calls[t].at
           pnl == calls[t].pnl
           e == s.equity + pnl
           n == CountLoss(s, pnl)
           c == [at |-> a, pnl |-> pnl]
           d == Day(a)
<1>1. /\ DayKnown(s) /\ s.day = d /\ s \in RiskState /\ a \in Nat /\ pnl \in Int
      /\ c \in Trade /\ c.at = a /\ c.pnl = pnl
    BY CallNow, CallType DEF UpdateTrade, Serving, Trade
<1>2. /\ st' = [s EXCEPT !.equity = e, !.last = a, !.losses = n]
      /\ closed' = Append(closed, c) /\ UNCHANGED <<now, restartDay>>
    BY DEF UpdateTrade
<1>3. closed \in Seq(Trade) /\ d \in Nat /\ MaxLosses \in Nat
    BY <1>1, ClosedTrades, DayType, RiskAssumption
<1>4. /\ e = s.equity + pnl /\ n = IF pnl < 0 THEN s.losses + 1 ELSE 0
      /\ Day(c.at) = d
    BY <1>1 DEF CountLoss
<1> HIDE DEF s, a, pnl, e, n, c, d
<1>5. /\ st'.day = d /\ st'.dayStart = s.dayStart /\ st'.equity = e /\ st'.losses = n
      /\ {s.dayStart, s.equity} \subseteq Int /\ s.losses \in Nat
    BY <1>1, <1>2 DEF RiskState
<1>6. \A i \in 1 .. Len(closed') : Day(closed'[i].at) <= st'.day
  <2> SUFFICES ASSUME NEW i \in 1 .. Len(closed') PROVE Day(closed'[i].at) <= d
      BY <1>5
  <2>1. CASE i \in 1 .. Len(closed)
      BY <1>1, <1>2, <1>3, <2>1 DEF DayKnown
  <2>2. CASE i = Len(closed) + 1
      BY <1>2, <1>3, <1>4, <2>2
  <2> QED BY <1>2, <1>3, <2>1, <2>2
<1>7. ASSUME restartDay # d
      PROVE  st'.dayStart - st'.equity = LostOf(closed', d)
  <2>1. LostOf(closed', d) = LostOf(closed, d) - pnl
      BY <1>1, <1>2, <1>3, <1>4, LostMore
  <2>2. s.dayStart - s.equity = LostOf(closed, d)
      BY <1>1, <1>7 DEF DayKnown
  <2> QED BY <1>1, <1>4, <1>5, <2>1, <2>2
<1>8. ASSUME restartDay # d, MaxLosses > 0
      PROVE  StreakKnown(st)'
  <2> DEFINE run == RunOf(closed, d)
             more == RunOf(closed', d)
             k == Cardinality(run)
  <2>1. k < MaxLosses => s.losses = k
      BY <1>1, <1>8 DEF DayKnown, StreakKnown
  <2>2. k \in Nat
      BY <1>3, RunType
  <2>3. CASE pnl < 0
    <3>1. Cardinality(more) = k + 1 /\ n = s.losses + 1
        BY <1>1, <1>2, <1>3, <1>4, <2>3, RunMore
    <3>2. k + 1 <= MaxLosses => n = k + 1
        BY <1>3, <2>1, <2>2, <3>1
    <3> HIDE DEF more, k
    <3> QED BY <1>3, <1>5, <2>2, <3>1, <3>2 DEF StreakKnown, more
  <2>4. CASE ~(pnl < 0)
    <3>1. c.pnl >= 0
        BY <1>1, <2>4
    <3>2. more = {} /\ n = 0
        BY <1>1, <1>2, <1>3, <1>4, <2>4, <3>1, RunMore
    <3>3. Cardinality(more) = 0
        BY <3>2, FS_EmptySet
    <3> QED BY <1>3, <1>5, <1>8, <3>2, <3>3 DEF StreakKnown
  <2> QED BY <2>3, <2>4
<1>9. restartDay <= d
    BY <1>1 DEF DayKnown
<1> QED BY <1>2, <1>5, <1>6, <1>7, <1>8, <1>9 DEF DayKnown

LEMMA ProcessKnown ==
    ASSUME TypeOK, DayInv, Tick \/ Save \/ Exit \/ Restart
    PROVE  DayKnown(st)'
<1>1. CASE Tick
  <2>1. now \in Nat /\ now' = now + 1 /\ UNCHANGED <<st, closed, restartDay>>
      BY <1>1 DEF Tick, TypeOK
  <2>2. ASSUME NEW i \in 1 .. Len(closed), Served(st, i) PROVE Served(st, i)'
    <3>1. closed[i].at + LossPause - MaxSkew \in Int
        BY ClosedTrades, SkewType, RiskAssumption
    <3> QED BY <2>1, <2>2, <3>1 DEF Served
  <2>3. RunOf(closed, st.day) \subseteq 1 .. Len(closed)
      BY DEF RunOf
  <2>4. StreakKnown(st) => StreakKnown(st)'
      BY <2>1, <2>2, <2>3 DEF StreakKnown
  <2> QED BY <2>1, <2>4 DEF DayInv, DayKnown
<1>2. CASE Save \/ Exit
    BY <1>2 DEF Save, Exit, DayInv, DayKnown, StreakKnown, Served
<1>3. CASE Restart
  <2> DEFINE d == Day(now)
  <2>1. st'.day = d /\ restartDay' = d /\ closed' = disk.closed
    <3>1. PICK equity \in {account, 0} : st' = InitEquity(Load, equity)
        BY <1>3 DEF Restart
    <3>2. Load \in RiskState
        BY FreshType DEF Load, TypeOK, File
    <3> HIDE DEF d
    <3>3. st' = [Load EXCEPT !.equity = equity, !.dayStart = equity, !.day = d]
        BY <3>1 DEF InitEquity, d
    <3>4. st'.day = d
        BY <3>2, <3>3 DEF RiskState
    <3> QED BY <1>3, <3>4 DEF Restart, d
  <2>2. disk.closed \in Seq(Trade) /\ now \in Nat /\ d \in Nat
      BY DayType DEF TypeOK, File
  <2>3. \A i \in 1 .. Len(disk.closed) : Day(disk.closed[i].at) <= d
    <3>1. ASSUME NEW i \in 1 .. Len(disk.closed) PROVE Day(disk.closed[i].at) <= d
      <4>1. disk.closed[i].at \in Nat /\ disk.closed[i].at <= now
          BY <2>2, TradeType DEF DayInv, CooldownInv, LastInv, KnownUpTo
      <4> QED BY <2>2, <4>1, DayGrows
    <3> QED BY <3>1
  <2> HIDE DEF d
  <2> QED BY <2>1, <2>2, <2>3 DEF DayKnown
<1> QED BY <1>1, <1>2, <1>3

LEMMA NextDay == TypeOK /\ DayInv /\ SameDayCalls /\ [Next]_vars => DayInv'
<1> SUFFICES ASSUME TypeOK, DayInv, SameDayCalls, [Next]_vars PROVE DayInv'
    OBVIOUS
<1>1. CooldownInv' /\ PauseInv'
    BY NextCooldown, NextPause DEF DayInv
<1>2. ASSUME UNCHANGED <<st, closed, now, restartDay>> PROVE DayKnown(st)'
    BY <1>2 DEF DayInv, DayKnown, StreakKnown, Served
<1>3. ASSUME NEW t \in Threads, CallCanTrade(t) \/ CallUpdateTrade(t) PROVE DayKnown(st)'
    BY <1>2, <1>3 DEF CallCanTrade, CallUpdateTrade, Stamp
<1>4. UNCHANGED vars => DayKnown(st)'
    BY <1>2 DEF vars
<1> QED BY <1>1, <1>3, <1>4, AnswerKnown, UpdateKnown, ProcessKnown DEF Next, Answers, DayInv

LEMMA DayCorrect == Spec /\ []SameDayCalls => []DayInv
<1>1. Init => DayKnown(st)
  <2> SUFFICES ASSUME Init PROVE DayKnown(st)
      OBVIOUS
  <2> DEFINE d == Day(now)
  <2>1. d \in Nat /\ closed = <<>> /\ closed \in Seq(Trade) /\ restartDay = NoTime
      BY DayType DEF Init
  <2>2. st.day = d /\ st.dayStart - st.equity = 0 /\ st.losses = 0
    <3> HIDE DEF d
    <3>1. st = [FreshState EXCEPT !.equity = StartBalance, !.dayStart = StartBalance, !.day = d]
        BY DEF Init, InitEquity, d
    <3> QED BY <3>1, RiskAssumption DEF FreshState
  <2>3. LostOf(closed, d) = 0 /\ Cardinality(RunOf(closed, d)) = 0
    <3>1. \A i \in 1 .. Len(closed) : Day(closed[i].at) # d
        BY <2>1
    <3> QED BY <2>1, <3>1, LostNone, RunNone, FS_EmptySet
  <2> HIDE DEF d
  <2>4. MaxLosses > 0 => StreakKnown(st)
      BY <2>2, <2>3, RiskAssumption DEF StreakKnown
  <2> QED BY <2>1, <2>2, <2>3, <2>4 DEF DayKnown, NoTime
<1>2. TypeOK /\ CooldownInv /\ PauseInv /\ DayKnown(st) => DayInv
    BY DEF DayInv
<1> QED BY <1>1, <1>2, NextDay, CooldownCorrect, PauseCorrect, TypeCorrect, PTL DEF Spec

(* What is known when an answer allows an entry. *)
LEMMA GrantKnown ==
    ASSUME TypeOK, DayInv, SameDayCalls, [Next]_vars, NEW t \in Threads, Answered(t, "yes"),
           restartDay # Day(calls[t].at)
    PROVE  LET u == Unpaused(t)  d == Day(calls[t].at) IN
           /\ st' = u /\ u.day = d /\ u \in RiskState /\ u.pauseUntil = NoTime
           /\ u.dayStart - u.equity = LostOf(closed, d)
           /\ MaxLosses > 0 => StreakKnown(u)
           /\ ~LossStreak(u) /\ ~DrawdownHit(u)
<1>1. Grant(t)
    BY GrantOnly
<1>2. /\ DayKnown(Unpaused(t)) /\ Unpaused(t) \in RiskState
      /\ Unpaused(t).day = Day(now) /\ Unpaused(t).pauseUntil = NoTime
    BY <1>1, UnpausedKnown DEF Grant
<1>3. Day(calls[t].at) = Day(now)
    BY <1>1, CallNow DEF Grant, PastPauses, Serving
<1> QED BY <1>1, <1>2, <1>3 DEF Grant, DayKnown

(* When calls are served on the day of their stamp, no entry is allowed on a day
   that has lost daily_drawdown_limit_usdt, or daily_drawdown_limit percent of
   what it began with, whichever threads report and ask: what the state counts
   from the day's start is the sum of the day's trades (risk.py:60-76, 96-110,
   113-126).  The day of a restart, which begins again at its balance, is excepted. *)
THEOREM DailyLossTheorem == Spec /\ []SameDayCalls => DailyLossLimit
<1>1. TypeOK /\ DayInv /\ SameDayCalls /\ [Next]_vars => [WithinDailyLimit]_vars
  <2> SUFFICES ASSUME TypeOK, DayInv, SameDayCalls, [Next]_vars, NEW t \in Threads,
                      Answered(t, "yes"), restartDay # Day(calls[t].at)
               PROVE  LET lost == LostOf(closed, Day(calls[t].at)) IN
                      /\ UsdtLimit > 0 => lost < UsdtLimit
                      /\ PctLimit > 0 /\ st'.dayStart > 0 => 100 * lost < PctLimit * st'.dayStart
      BY DEF WithinDailyLimit
  <2> DEFINE u == Unpaused(t)
             lost == LostOf(closed, Day(calls[t].at))
  <2>1. st' = u /\ u \in RiskState /\ u.dayStart - u.equity = lost /\ ~DrawdownHit(u)
      BY GrantKnown
  <2>2. lost \in Int /\ UsdtLimit \in Nat /\ PctLimit \in Nat
      BY ClosedTrades, LostType, RiskAssumption
  <2> HIDE DEF u, lost
  <2>3. u.dayStart \in Int
      BY <2>1 DEF RiskState
  <2>4. UsdtLimit > 0 => lost < UsdtLimit
      BY <2>1, <2>2 DEF DrawdownHit
  <2>5. PctLimit > 0 /\ u.dayStart > 0 => ~(100 * lost >= PctLimit * u.dayStart)
      BY <2>1 DEF DrawdownHit
  <2>6. 100 * lost \in Int /\ PctLimit * u.dayStart \in Int
      BY <2>2, <2>3
  <2>7. PctLimit > 0 /\ u.dayStart > 0 => 100 * lost < PctLimit * u.dayStart
      BY <2>5, <2>6
  <2> QED BY <2>1, <2>4, <2>7 DEF lost
<1> QED BY <1>1, DayCorrect, TypeCorrect, PTL DEF Spec, DailyLossLimit

(* When calls are served on the day of their stamp, a streak of
   max_consecutive_losses losses on one day costs loss_pause_sec, less twice the
   skew of the stamps: the pause is set by whichever call of can_trade comes
   first, and neither later reports nor later calls shorten it
   (risk.py:81-94, 113-126). *)
THEOREM StreakTheorem == Spec /\ []SameDayCalls => StreakServesPause
<1>1. TypeOK /\ DayInv /\ SameDayCalls /\ [Next]_vars => [PauseServed]_vars
  <2>1. \A d : LossRun(d) = RunOf(closed, d)
      BY ClosedTrades DEF LossRun, TradesOn, RunOf
  <2> SUFFICES ASSUME TypeOK, DayInv, SameDayCalls, [Next]_vars, NEW t \in Threads,
                      Answered(t, "yes"), restartDay # Day(calls[t].at), MaxLosses > 0,
                      Cardinality(RunOf(closed, Day(calls[t].at))) = MaxLosses,
                      NEW i \in RunOf(closed, Day(calls[t].at))
               PROVE  calls[t].at >= closed[i].at + LossPause - 2 * MaxSkew
      BY <2>1 DEF PauseServed
  <2> DEFINE u == Unpaused(t)
             run == RunOf(closed, Day(calls[t].at))
  <2>2. /\ u.day = Day(calls[t].at) /\ u \in RiskState /\ u.pauseUntil = NoTime
        /\ StreakKnown(u) /\ ~LossStreak(u)
      BY GrantKnown
  <2>3. Served(u, i)
      BY <2>2, RiskAssumption DEF StreakKnown, LossStreak
  <2>4. /\ calls[t].at \in Nat /\ now <= calls[t].at + MaxSkew /\ now \in Nat /\ MaxSkew \in Nat
        /\ LossPause \in Nat /\ closed[i].at \in Nat
    <3>1. calls[t].op # "idle"
        BY DEF Answered
    <3>2. i \in 1 .. Len(closed)
        BY DEF RunOf
    <3> QED BY <3>1, <3>2, CallNow, ClosedTrades, RiskAssumption
  <2> HIDE DEF u, run
  <2> QED BY <2>2, <2>3, <2>4 DEF Served, NoTime
<1> QED BY <1>1, DayCorrect, TypeCorrect, PTL DEF Spec, StreakServesPause

(* Calls served within the tick they were stamped in are served on its day, so
   that all three rules of the day hold (risk.py:78, 91-110, 149, 174). *)
THEOREM ExactStamps ==
    ASSUME MaxSkew = 0
    PROVE  Spec => PauseHoldsAllDay /\ DailyLossLimit /\ StreakServesPause
<1>1. TypeOK /\ CooldownInv => SameDayCalls
  <2> SUFFICES ASSUME TypeOK, CooldownInv, NEW t \in Threads, calls[t].op # "idle"
               PROVE  calls[t].at = now
      BY DEF SameDayCalls
  <2> QED BY CallType DEF CooldownInv, StampInv, TypeOK
<1> QED BY <1>1, CooldownCorrect, TypeCorrect, PauseOfOneDay, DailyLossTheorem, StreakTheorem, PTL
=============================================================================
