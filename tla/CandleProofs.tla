---------------------------- MODULE CandleProofs ----------------------------
(***************************************************************************)
(* For every value of the constants: the scheduler's candle closes, the    *)
(* indicator cache of a scan, and the backtest's downloads and trades.     *)
(* Each component is an instance with state of its own; what it assumes of *)
(* its constants is a hypothesis of its theorems.                          *)
(***************************************************************************)
EXTENDS Integers, Sequences, FiniteSets, FiniteSetTheorems, SequenceTheorems,
        WellFoundedInduction, TLAPS

-----------------------------------------------------------------------------
(* Division.                                                               *)

(* Quotient and remainder ... *)
LEMMA DivMod ==
    ASSUME NEW n \in Nat, NEW p \in Nat \ {0}
    PROVE  /\ n \div p \in Nat /\ n % p \in 0 .. p - 1
           /\ n = p * (n \div p) + (n % p)
OBVIOUS

(* ... are the only ones. *)
LEMMA DivUnique ==
    ASSUME NEW n \in Nat, NEW p \in Nat \ {0}, NEW q \in Nat, NEW r \in 0 .. p - 1,
           n = p * q + r
    PROVE  n \div p = q /\ n % p = r
<1> DEFINE d == n \div p  m == n % p
<1>1. d \in Nat /\ m \in 0 .. p - 1 /\ n = p * d + m
    BY DivMod
<1> HIDE DEF d, m
<1>2. ~(d < q)
  <2>1. d < q => d + 1 <= q
      BY <1>1
  <2>2. d + 1 <= q => p * (d + 1) <= p * q
      BY <1>1
  <2> QED BY <1>1, <2>1, <2>2
<1>3. ~(q < d)
  <2>1. q < d => q + 1 <= d
      BY <1>1
  <2>2. q + 1 <= d => p * (q + 1) <= p * d
      BY <1>1
  <2> QED BY <1>1, <2>1, <2>2
<1> QED BY <1>1, <1>2, <1>3 DEF d, m

(* The multiples of p up to n are those numbered up to n \div p. *)
LEMMA DivLe ==
    ASSUME NEW n \in Nat, NEW p \in Nat \ {0}, NEW c \in Nat
    PROVE  c <= n \div p <=> c * p <= n
<1> DEFINE q == n \div p  r == n % p
<1>1. q \in Nat /\ r \in 0 .. p - 1 /\ n = p * q + r
    BY DivMod
<1> HIDE DEF q, r
<1>2. c <= q => c * p <= n
    BY <1>1
<1>3. ASSUME c > q PROVE c * p > n
  <2>1. c >= q + 1
      BY <1>1, <1>3
  <2>2. c * p >= (q + 1) * p
      BY <1>1, <2>1
  <2> QED BY <1>1, <2>2
<1> QED BY <1>1, <1>2, <1>3 DEF q

(* Later times have at least as many closes. *)
LEMMA DivMonotone ==
    ASSUME NEW n \in Nat, NEW m \in Nat, NEW p \in Nat \ {0}, n <= m
    PROVE  n \div p <= m \div p
<1>1. n \div p \in Nat /\ m \div p \in Nat
    BY DivMod
<1>2. (n \div p) * p <= n
    BY <1>1, DivLe
<1>3. (n \div p) * p <= m
    BY <1>1, <1>2
<1> QED BY <1>1, <1>3, DivLe

(* No time has more closes than seconds. *)
LEMMA DivAtMost ==
    ASSUME NEW n \in Nat, NEW p \in Nat \ {0} PROVE n \div p <= n
<1> DEFINE q == n \div p  r == n % p
<1>1. q \in Nat /\ r \in 0 .. p - 1 /\ n = p * q + r
    BY DivMod
<1> HIDE DEF q, r
<1>2. p * q >= q
    BY <1>1
<1> QED BY <1>1, <1>2 DEF q

(* A close of a longer interval is one of the main interval as well. *)
LEMMA MultipleOfMultiple ==
    ASSUME NEW p \in Nat \ {0}, NEW P \in Nat \ {0}, p % P = 0, NEW c \in Nat
    PROVE  \E d \in Nat : c * p = d * P
<1> DEFINE m == p \div P
<1>1. m \in Nat /\ p = P * m
    BY DivMod
<1> HIDE DEF m
<1>2. c * m \in Nat /\ c * p = (c * m) * P
    BY <1>1
<1> QED BY <1>2

(* A multiple leaves no remainder ... *)
LEMMA MultipleMod ==
    ASSUME NEW P \in Nat \ {0}, NEW d \in Nat PROVE (d * P) % P = 0
<1>1. d * P \in Nat /\ d * P = P * d + 0 /\ 0 \in 0 .. P - 1
    OBVIOUS
<1> QED BY <1>1, DivUnique

(* Two multiples of P less than P apart are one. *)
LEMMA MultiplesApart ==
    ASSUME NEW P \in Nat \ {0}, NEW d \in Nat, NEW e \in Nat,
           d * P < e * P + P, e * P < d * P + P
    PROVE  d = e
<1>1. d >= e + 1 => d * P >= (e + 1) * P
    OBVIOUS
<1>2. e >= d + 1 => e * P >= (d + 1) * P
    OBVIOUS
<1> QED BY <1>1, <1>2

-----------------------------------------------------------------------------
(* CandleSchedule.                                                         *)

CONSTANTS Intervals, MainInterval, Period, CallbackOrder, Buffer, DueWindow,
          MaxLate, MaxPoll, MaxCall, MaxTime
VARIABLES now, schedulePc, wakeAt, polledAt, due, stopping, started, evaluated, overrun

Schedule == INSTANCE CandleSchedule WITH pc <- schedulePc, Window <- DueWindow

(* What the proofs use of the constants. *)
LEMMA PeriodType ==
    ASSUME Schedule!ScheduleAssumption
    PROVE  /\ MainInterval \in Intervals
           /\ \A iv \in Intervals : /\ Period[iv] \in Nat \ {0}
                                    /\ Period[iv] % Period[MainInterval] = 0
           /\ Buffer \in Nat /\ DueWindow \in Nat /\ MaxLate \in Nat
           /\ MaxPoll \in Nat /\ MaxCall \in Nat
           /\ Buffer + MaxLate <= DueWindow /\ DueWindow < Period[MainInterval]
BY DEF Schedule!ScheduleAssumption

(* ... and what leaves none is a multiple. *)
LEMMA MultipleNumber ==
    ASSUME NEW P \in Nat \ {0}, NEW m \in Nat, m % P = 0
    PROVE  \E e \in Nat : m = e * P
<1> DEFINE k == m \div P
<1>1. k \in Nat /\ m = P * k + 0
    BY DivMod
<1> HIDE DEF k
<1>2. m = k * P
    BY <1>1
<1> QED BY <1>1, <1>2

(* No interval is shorter than the main one. *)
LEMMA MultipleAtLeast ==
    ASSUME NEW p \in Nat \ {0}, NEW P \in Nat \ {0}, p % P = 0 PROVE p >= P
<1> DEFINE k == p \div P
<1>1. k \in Nat /\ p = P * k + 0
    BY DivMod
<1> HIDE DEF k
<1>2. k # 0
    BY <1>1
<1>3. P * k >= P
    BY <1>1, <1>2
<1> QED BY <1>1, <1>3

Multiple(p, P) == p \in Nat \ {0} /\ P \in Nat \ {0} /\ p % P = 0

(* The close m is the only one of the interval of length P after t until n. *)
JustAfter(n, m, t, P) ==
    /\ {n, m, t} \subseteq Nat
    /\ m % P = 0 /\ t < m /\ m <= t + P
    /\ n - m \in 0 .. P - 1

ClosesBetween(c, p, t, n) == c \in Nat /\ t < c * p /\ c * p <= n

(* The loop sleeps to b seconds after the next main close. *)
LEMMA WakeTime ==
    ASSUME NEW P \in Nat \ {0}, NEW t \in Nat, NEW b \in 0 .. P - 1,
           NEW n, n = t + ((P - (t % P)) + b)
    PROVE  \E m \in Nat : n = m + b /\ JustAfter(n, m, t, P)
<1> DEFINE q == t \div P  r == t % P  m == (q + 1) * P
<1>1. q \in Nat /\ r \in 0 .. P - 1 /\ t = P * q + r
    BY DivMod
<1>2. n = t + ((P - r) + b)
    OBVIOUS
<1> HIDE DEF q, r
<1>3. q + 1 \in Nat /\ m = P * q + P
    BY <1>1
<1>4. m \in Nat /\ m % P = 0
    BY <1>1, <1>3, MultipleMod
<1> HIDE DEF m
<1>5. n = m + b /\ t < m /\ m <= t + P
    BY <1>1, <1>2, <1>3
<1>6. JustAfter(n, m, t, P)
    BY <1>4, <1>5 DEF JustAfter
<1> QED BY <1>4, <1>5, <1>6

(* A close of another interval in between happens at m. *)
LEMMA NewClose ==
    ASSUME NEW P, NEW p, NEW n, NEW m, NEW t, NEW c,
           Multiple(p, P), JustAfter(n, m, t, P), ClosesBetween(c, p, t, n)
    PROVE  n \div p = c /\ n % p = n - m
<1>0. /\ P \in Nat \ {0} /\ p \in Nat \ {0} /\ p % P = 0 /\ c \in Nat
      /\ {n, m, t} \subseteq Nat /\ m % P = 0 /\ m <= t + P /\ n - m \in 0 .. P - 1
      /\ t < c * p /\ c * p <= n
    BY DEF Multiple, JustAfter, ClosesBetween
<1>1. PICK d \in Nat : c * p = d * P
    BY <1>0, MultipleOfMultiple
<1>2. PICK e \in Nat : m = e * P
    BY <1>0, MultipleNumber
<1>3. d = e
  <2> DEFINE D == d * P  E == e * P
  <2>1. D \in Nat /\ E = m /\ t < D /\ D <= n
      BY <1>0, <1>1, <1>2
  <2> HIDE DEF D, E
  <2>2. D < E + P /\ E < D + P
      BY <1>0, <2>1
  <2> QED BY <1>0, <2>2, MultiplesApart DEF D, E
<1>4. c * p = m /\ p * c = m
    BY <1>0, <1>1, <1>2, <1>3
<1>5. p >= P
    BY <1>0, MultipleAtLeast
<1> DEFINE r == n - m
<1>6. r \in 0 .. p - 1 /\ n = m + r
    BY <1>0, <1>5
<1> HIDE DEF r
<1>7. n = p * c + r
    BY <1>4, <1>6
<1>8. n \div p = c /\ n % p = r
    BY <1>0, <1>6, <1>7, DivUnique
<1> QED BY <1>8 DEF r

(* A close less than a main candle old is the one at the last main close. *)
LEMMA DueClose ==
    ASSUME NEW P, NEW p, NEW n, NEW m, NEW t,
           Multiple(p, P), JustAfter(n, m, t, P), n % p < P
    PROVE  (n \div p) * p = m
<1> USE DEF Multiple, JustAfter
<1> DEFINE q == n \div p  r == n % p
<1>1. q \in Nat /\ r \in 0 .. p - 1 /\ n = p * q + r /\ r < P
    BY DivMod
<1> HIDE DEF q, r
<1>2. PICK d \in Nat : q * p = d * P
    BY <1>1, MultipleOfMultiple
<1>3. PICK e \in Nat : m = e * P
    BY MultipleNumber
<1>4. d * P \in Nat /\ d * P + r = e * P + (n - m)
    BY <1>1, <1>2, <1>3
<1>5. d = e
    BY <1>1, <1>3, <1>4, MultiplesApart
<1>6. q * p = m
    BY <1>2, <1>3, <1>5
<1> QED BY <1>6 DEF q

(* The closes of an interval until t, and what became of one since the start. *)
Closes(iv, t) == 1 .. t \div Period[iv]

Handled(iv, c) ==
    c * Period[iv] > started => c \in evaluated[iv] \/ c * Period[iv] \in overrun

AllHandled(t) == \A iv \in Intervals : \A c \in Closes(iv, t) : Handled(iv, c)

(* The closes left are those of the intervals that are due. *)
AllHandledButDue(t) ==
    \A iv \in Intervals : \A c \in Closes(iv, t) :
        Handled(iv, c) \/ (iv \in due /\ c = t \div Period[iv])

EvaluatedUpTo(t) == \A iv \in Intervals : evaluated[iv] \subseteq Closes(iv, t)

DueFresh(t) == \A iv \in due : t \div Period[iv] \in Closes(iv, t) \ evaluated[iv]

ScheduleTypes ==
    /\ {now, wakeAt, polledAt, started} \subseteq Nat
    /\ schedulePc \in Schedule!PCs
    /\ due \subseteq Intervals
    /\ schedulePc \in {"loop", "asleep", "done"} => due = {}
    /\ stopping \in BOOLEAN
    /\ evaluated \in [Intervals -> SUBSET Nat]
    /\ \A t \in overrun : t \in 1 .. now /\ t % Period[MainInterval] = 0

(* Between rounds no close is left; in a round those of the intervals that are due
   are, each of them the newest close at the time of the poll. *)
ScheduleInv ==
    /\ ScheduleTypes
    /\ schedulePc \in {"loop", "asleep"} => AllHandled(now)
    /\ schedulePc \in {"loop", "asleep", "done", "poll"} => EvaluatedUpTo(now)
    /\ schedulePc = "asleep" => wakeAt = now + Schedule!SecondsToNextClose
    /\ schedulePc = "poll" => AllHandledButDue(now) /\ DueFresh(now)
    /\ schedulePc = "callbacks" =>
        /\ polledAt <= now
        /\ AllHandledButDue(polledAt) /\ EvaluatedUpTo(polledAt) /\ DueFresh(polledAt)

(* ScheduleInv holds when the scheduler starts: nothing has closed since. *)
LEMMA ScheduleInitially ==
    ASSUME Schedule!ScheduleAssumption, Schedule!Init PROVE ScheduleInv
<1>1. ScheduleTypes
  <2>1. stopping \in BOOLEAN /\ overrun = {}
      BY DEF Schedule!Init
  <2>2. now \in Nat /\ evaluated \in [Intervals -> SUBSET Nat]
      BY PeriodType DEF Schedule!Init
  <2> QED BY <2>1, <2>2 DEF ScheduleTypes, Schedule!Init, Schedule!PCs
<1>2. AllHandled(now)
  <2>1. ASSUME NEW iv \in Intervals, NEW c \in Closes(iv, now) PROVE Handled(iv, c)
    <3>1. c \in Nat /\ now \in Nat /\ c * Period[iv] \in Nat
        BY <1>1, <2>1, PeriodType DEF Closes, ScheduleTypes
    <3>2. c * Period[iv] <= now
        BY <2>1, <3>1, DivLe, PeriodType DEF Closes
    <3>3. started = now
        BY DEF Schedule!Init
    <3> QED BY <3>1, <3>2, <3>3 DEF Handled
  <2> QED BY <2>1 DEF AllHandled
<1>3. EvaluatedUpTo(now)
    BY DEF EvaluatedUpTo, Schedule!Init
<1> QED BY <1>1, <1>2, <1>3 DEF ScheduleInv, Schedule!Init

(* Waking up: exactly the intervals that closed since are due. *)
LEMMA WakeStep ==
    ASSUME Schedule!ScheduleAssumption, ScheduleInv, Schedule!Wake PROVE ScheduleInv'
<1> DEFINE P == Period[MainInterval]
<1>1. /\ P \in Nat \ {0} /\ now \in Nat /\ due \subseteq Intervals
      /\ schedulePc = "asleep" /\ schedulePc' = "poll"
      /\ AllHandled(now) /\ EvaluatedUpTo(now)
      /\ UNCHANGED <<wakeAt, polledAt, stopping, started, evaluated, overrun>>
    BY PeriodType DEF ScheduleInv, ScheduleTypes, Schedule!Wake
<1>2. PICK late \in 0 .. MaxLate : now' = wakeAt + late
    BY DEF Schedule!Wake
<1> DEFINE b == Buffer + late
<1>3. b \in 0 .. P - 1 /\ b <= DueWindow /\ DueWindow < P
    BY <1>1, PeriodType
<1>4. now' = now + ((P - (now % P)) + b)
  <2>1. wakeAt = now + ((P - (now % P)) + Buffer)
      BY <1>1 DEF ScheduleInv, Schedule!SecondsToNextClose
  <2> HIDE DEF P
  <2>2. now % P \in 0 .. P - 1
      BY <1>1, DivMod
  <2>3. wakeAt + late = now + ((P - (now % P)) + (Buffer + late))
      BY <1>1, <2>1, <2>2, PeriodType
  <2> QED BY <1>2, <2>3
<1> HIDE DEF P
<1>5. PICK m \in Nat : now' = m + b /\ JustAfter(now', m, now, P)
    BY <1>1, <1>3, <1>4, WakeTime
<1>6. now' \in Nat /\ now <= now' /\ now < m /\ now' - m = b
    BY <1>1, <1>3, <1>5 DEF JustAfter
<1>7. due' = {iv \in Intervals : now' % Period[iv] <= DueWindow} \cup {MainInterval}
    BY DEF Schedule!Wake, Schedule!DueIntervals
<1> HIDE DEF b
<1>8. ASSUME NEW iv \in due'
      PROVE  iv \in Intervals /\ (now' \div Period[iv]) * Period[iv] = m
  <2>1. iv \in Intervals /\ (iv = MainInterval \/ now' % Period[iv] <= DueWindow)
      BY <1>7, <1>8, PeriodType
  <2>2. Period[iv] \in Nat \ {0} /\ Multiple(Period[iv], P)
      BY <1>1, <2>1, PeriodType DEF P, Multiple
  <2>3. now' % Period[iv] \in Nat /\ now' % Period[iv] < P
    <3>1. now' % Period[iv] \in 0 .. Period[iv] - 1
        BY <1>6, <2>2, DivMod
    <3> QED BY <1>1, <1>3, <2>1, <2>2, <3>1, PeriodType DEF P
  <2> QED BY <1>5, <2>1, <2>2, <2>3, DueClose
<1>9. ScheduleTypes'
    BY <1>1, <1>6, <1>8 DEF ScheduleInv, ScheduleTypes, Schedule!PCs
<1>10. AllHandledButDue(now)'
  <2>1. ASSUME NEW iv \in Intervals, NEW c \in Closes(iv, now')
        PROVE  Handled(iv, c) \/ (iv \in due' /\ c = now' \div Period[iv])
    <3>1. Period[iv] \in Nat \ {0} /\ Multiple(Period[iv], P)
        BY <1>1, PeriodType DEF P, Multiple
    <3>2. c \in Nat \ {0} /\ c <= now' \div Period[iv] /\ c * Period[iv] \in Nat
        BY <1>6, <3>1, DivMod DEF Closes
    <3>3. c * Period[iv] <= now'
        BY <1>6, <3>1, <3>2, DivLe
    <3>4. CASE c * Period[iv] <= now
      <4>1. c <= now \div Period[iv] /\ now \div Period[iv] \in Nat
          BY <1>1, <3>1, <3>2, <3>4, DivLe, DivMod
      <4>2. c \in Closes(iv, now)
          BY <3>2, <4>1 DEF Closes
      <4> QED BY <1>1, <4>2 DEF AllHandled
    <3>5. CASE now < c * Period[iv]
      <4>1. now' \div Period[iv] = c /\ now' % Period[iv] = b
        <5>1. ClosesBetween(c, Period[iv], now, now')
            BY <3>2, <3>3, <3>5 DEF ClosesBetween
        <5> QED BY <1>5, <1>6, <3>1, <5>1, NewClose
      <4> QED BY <1>3, <1>7, <4>1
    <3> QED BY <1>1, <3>2, <3>4, <3>5
  <2>2. \A iv \in Intervals, c \in Nat : Handled(iv, c)' <=> Handled(iv, c)
      BY <1>1 DEF Handled
  <2>3. ASSUME NEW iv \in Intervals, NEW c \in Closes(iv, now') PROVE c \in Nat
      BY DEF Closes
  <2> QED BY <2>1, <2>2, <2>3 DEF AllHandledButDue, Closes
<1>11. EvaluatedUpTo(now)'
  <2>1. ASSUME NEW iv \in Intervals PROVE Closes(iv, now) \subseteq Closes(iv, now')
    <3>1. now \div Period[iv] <= now' \div Period[iv]
          /\ now \div Period[iv] \in Nat /\ now' \div Period[iv] \in Nat
        BY <1>1, <1>6, PeriodType, DivMonotone, DivMod
    <3> QED BY <3>1 DEF Closes
  <2> QED BY <1>1, <2>1 DEF EvaluatedUpTo, Closes
<1>12. DueFresh(now)'
  <2>1. ASSUME NEW iv \in due'
        PROVE  now' \div Period[iv] \in Closes(iv, now') \ evaluated[iv]
    <3> DEFINE c == now' \div Period[iv]
    <3>1. Period[iv] \in Nat \ {0} /\ iv \in Intervals
        BY <1>8, PeriodType
    <3>2. c \in Nat /\ c * Period[iv] = m
        BY <1>6, <1>8, <3>1, DivMod
    <3>3. now \div Period[iv] \in Nat
        BY <1>1, <3>1, DivMod
    <3> HIDE DEF c
    <3>4. ~(c <= now \div Period[iv])
        BY <1>1, <1>6, <3>1, <3>2, DivLe
    <3>5. c \notin Closes(iv, now) /\ c \in 1 .. c
        BY <3>2, <3>3, <3>4 DEF Closes
    <3> QED BY <1>1, <3>1, <3>5 DEF EvaluatedUpTo, Closes, c
  <2> QED BY <1>1, <2>1 DEF DueFresh, Closes
<1> QED BY <1>1, <1>9, <1>10, <1>11, <1>12 DEF ScheduleInv

(* A callback handles the newest close of its interval as of the poll. *)
LEMMA CallbackStep ==
    ASSUME Schedule!ScheduleAssumption, ScheduleInv,
           NEW iv \in Intervals, Schedule!MakeCallback(iv)
    PROVE  ScheduleInv'
<1> DEFINE close == polledAt \div Period[iv]
<1>1. /\ ScheduleTypes /\ polledAt \in Nat /\ now \in Nat
      /\ schedulePc = "callbacks" /\ schedulePc' = "callbacks" /\ iv \in due
      /\ polledAt <= now
      /\ AllHandledButDue(polledAt) /\ EvaluatedUpTo(polledAt) /\ DueFresh(polledAt)
      /\ evaluated' = [evaluated EXCEPT ![iv] = @ \cup {close}]
      /\ due' = due \ {iv}
      /\ UNCHANGED <<wakeAt, polledAt, stopping, started, overrun>>
    BY DEF ScheduleInv, ScheduleTypes, Schedule!MakeCallback, Schedule!Close
<1>2. now' \in Nat /\ now <= now'
    BY <1>1, PeriodType DEF Schedule!MakeCallback
<1>3. close \in Nat /\ close \in Closes(iv, polledAt)
    BY <1>1, PeriodType, DivMod DEF DueFresh
<1> HIDE DEF close
<1>4. /\ evaluated' \in [Intervals -> SUBSET Nat]
      /\ evaluated'[iv] = evaluated[iv] \cup {close}
      /\ \A i \in Intervals \ {iv} : evaluated'[i] = evaluated[i]
    BY <1>1, <1>3 DEF ScheduleTypes
<1>5. ScheduleTypes'
    BY <1>1, <1>2, <1>4 DEF ScheduleTypes
<1>6. AllHandledButDue(polledAt)'
  <2>1. ASSUME NEW i \in Intervals, NEW c \in Closes(i, polledAt)
        PROVE  Handled(i, c)' \/ (i \in due' /\ c = polledAt \div Period[i])
    <3>1. Handled(i, c) \/ (i \in due /\ c = polledAt \div Period[i])
        BY <1>1 DEF AllHandledButDue
    <3>2. CASE i = iv
        BY <1>1, <1>4, <3>1, <3>2 DEF Handled, close
    <3>3. CASE i # iv
        BY <1>1, <1>4, <3>1, <3>3 DEF Handled
    <3> QED BY <3>2, <3>3
  <2> QED BY <1>1, <2>1 DEF AllHandledButDue, Closes
<1>7. EvaluatedUpTo(polledAt)'
    BY <1>1, <1>3, <1>4 DEF EvaluatedUpTo, Closes
<1>8. DueFresh(polledAt)'
  <2>1. ASSUME NEW i \in due' PROVE evaluated'[i] = evaluated[i] /\ i \in due
      BY <1>1, <1>4, <2>1 DEF ScheduleTypes
  <2> QED BY <1>1, <2>1 DEF DueFresh, Closes
<1> QED BY <1>1, <1>2, <1>5, <1>6, <1>7, <1>8 DEF ScheduleInv

(* What closed in a round is in overrun when the round ends. *)
LEMMA RoundEndsStep ==
    ASSUME Schedule!ScheduleAssumption, ScheduleInv, Schedule!RoundEnds
    PROVE  ScheduleInv'
<1> DEFINE P == Period[MainInterval]
           missed == {t \in polledAt + 1 .. now : t % P = 0}
<1>1. /\ ScheduleTypes /\ polledAt \in Nat /\ now \in Nat /\ polledAt <= now
      /\ schedulePc = "callbacks" /\ schedulePc' = "loop" /\ due = {}
      /\ AllHandledButDue(polledAt) /\ EvaluatedUpTo(polledAt)
      /\ overrun' = overrun \cup missed
      /\ UNCHANGED <<now, wakeAt, polledAt, due, stopping, started, evaluated>>
    BY DEF ScheduleInv, ScheduleTypes, Schedule!RoundEnds
<1>2. \A t \in missed : t \in 1 .. now /\ t % P = 0
    BY <1>1
<1>3. ScheduleTypes'
    BY <1>1, <1>2 DEF ScheduleTypes, Schedule!PCs
<1>4. AllHandled(now)'
  <2>1. ASSUME NEW i \in Intervals, NEW c \in Closes(i, now) PROVE Handled(i, c)'
    <3> DEFINE x == c * Period[i]
    <3>1. Period[i] \in Nat \ {0} /\ Period[i] % P = 0 /\ P \in Nat \ {0}
        BY PeriodType
    <3>2. c \in Nat \ {0} /\ c <= now \div Period[i]
        BY <1>1, <3>1, DivMod DEF Closes
    <3>3. x \in Nat /\ x <= now /\ x % P = 0
      <4>1. x \in Nat /\ x <= now
          BY <1>1, <3>1, <3>2, DivLe
      <4>2. PICK d \in Nat : x = d * P
          BY <3>1, <3>2, MultipleOfMultiple
      <4> QED BY <3>1, <4>1, <4>2, MultipleMod
    <3>4. CASE x <= polledAt
      <4>1. c <= polledAt \div Period[i] /\ polledAt \div Period[i] \in Nat
          BY <1>1, <3>1, <3>2, <3>4, DivLe, DivMod
      <4>2. c \in Closes(i, polledAt)
          BY <3>2, <4>1 DEF Closes
      <4>3. Handled(i, c)
          BY <1>1, <4>2 DEF AllHandledButDue
      <4> QED BY <1>1, <4>3 DEF Handled
    <3>5. CASE polledAt < x
      <4>1. x \in missed
          BY <1>1, <3>3, <3>5
      <4> QED BY <1>1, <4>1 DEF Handled
    <3> QED BY <1>1, <3>3, <3>4, <3>5
  <2> QED BY <1>1, <2>1 DEF AllHandled, Closes
<1>5. EvaluatedUpTo(now)'
  <2>1. ASSUME NEW i \in Intervals PROVE Closes(i, polledAt) \subseteq Closes(i, now)
    <3>1. polledAt \div Period[i] <= now \div Period[i]
          /\ now \div Period[i] \in Nat /\ polledAt \div Period[i] \in Nat
        BY <1>1, PeriodType, DivMonotone, DivMod
    <3> QED BY <3>1 DEF Closes
  <2> QED BY <1>1, <2>1 DEF EvaluatedUpTo, Closes
<1> QED BY <1>1, <1>3, <1>4, <1>5 DEF ScheduleInv

(* ScheduleInv is inductive. *)
LEMMA ScheduleStep ==
    ASSUME Schedule!ScheduleAssumption, ScheduleInv, [Schedule!Next]_Schedule!vars
    PROVE  ScheduleInv'
<1>1. CASE Schedule!Sleep
  <2>1. wakeAt' \in Nat
    <3>1. now \in Nat /\ now % Period[MainInterval] \in 0 .. Period[MainInterval] - 1
        BY PeriodType, DivMod DEF ScheduleInv, ScheduleTypes
    <3> QED BY <1>1, <3>1, PeriodType DEF Schedule!Sleep, Schedule!SecondsToNextClose
  <2> QED
      BY <1>1, <2>1 DEF Schedule!Sleep, ScheduleInv, ScheduleTypes, Schedule!PCs,
        AllHandled, EvaluatedUpTo, Closes, Handled, Schedule!SecondsToNextClose
<1>2. CASE Schedule!Wake
    BY <1>2, WakeStep
<1>3. CASE Schedule!Poll
  <2>1. now \in Nat /\ now' \in Nat /\ now <= now' /\ polledAt' = now
      BY <1>3, PeriodType DEF Schedule!Poll, ScheduleInv, ScheduleTypes
  <2>2. ScheduleTypes'
      BY <1>3, <2>1 DEF Schedule!Poll, ScheduleInv, ScheduleTypes, Schedule!PCs
  <2>3. AllHandledButDue(polledAt)' /\ EvaluatedUpTo(polledAt)' /\ DueFresh(polledAt)'
      BY <1>3 DEF Schedule!Poll, ScheduleInv, AllHandledButDue, EvaluatedUpTo, DueFresh,
        Closes, Handled
  <2> QED BY <1>3, <2>1, <2>2, <2>3 DEF Schedule!Poll, ScheduleInv
<1>4. CASE \E iv \in Intervals : Schedule!MakeCallback(iv)
    BY <1>4, CallbackStep
<1>5. CASE Schedule!RoundEnds
    BY <1>5, RoundEndsStep
<1>6. CASE Schedule!Stop
  <2>1. stopping' \in BOOLEAN
      BY <1>6 DEF Schedule!Stop
  <2> QED
      BY <1>6, <2>1 DEF Schedule!Stop, ScheduleInv, ScheduleTypes, AllHandled,
        AllHandledButDue, EvaluatedUpTo, DueFresh, Closes, Handled,
        Schedule!SecondsToNextClose
<1>7. CASE Schedule!LoopEnds
    BY <1>7 DEF Schedule!LoopEnds, ScheduleInv, ScheduleTypes, Schedule!PCs,
      EvaluatedUpTo, Closes
<1>8. CASE UNCHANGED Schedule!vars
    BY <1>8 DEF Schedule!vars, ScheduleInv, ScheduleTypes, AllHandled, AllHandledButDue,
      EvaluatedUpTo, DueFresh, Closes, Handled, Schedule!SecondsToNextClose
<1> QED
    BY <1>1, <1>2, <1>3, <1>4, <1>5, <1>6, <1>7, <1>8
    DEF Schedule!Next, Schedule!Scheduler

(* Callbacks are made for closes that have happened only, and outside a round no
   interval is due, for any periods, delays and order of the callbacks
   (data_stream.py:255-317). *)
THEOREM ScheduleTypeCorrect ==
    ASSUME Schedule!ScheduleAssumption PROVE Schedule!Spec => []Schedule!TypeOK
<1>1. ScheduleInv => Schedule!TypeOK
  <2>1. ASSUME ScheduleInv, NEW iv \in Intervals, NEW t \in Nat, t <= now,
               evaluated[iv] \subseteq Closes(iv, t)
        PROVE  evaluated[iv] \subseteq 1 .. now
    <3>1. t \div Period[iv] <= t /\ t \div Period[iv] \in Nat /\ now \in Nat
        BY <2>1, PeriodType, DivAtMost, DivMod DEF ScheduleInv, ScheduleTypes
    <3> QED BY <2>1, <3>1 DEF Closes
  <2>2. ASSUME ScheduleInv PROVE \A iv \in Intervals : evaluated[iv] \subseteq 1 .. now
    <3>1. CASE schedulePc = "callbacks"
        BY <2>1, <2>2, <3>1 DEF ScheduleInv, ScheduleTypes, EvaluatedUpTo
    <3>2. CASE schedulePc # "callbacks"
        BY <2>1, <2>2, <3>2 DEF ScheduleInv, ScheduleTypes, EvaluatedUpTo, Schedule!PCs
    <3> QED BY <3>1, <3>2
  <2> QED BY <2>2 DEF ScheduleInv, ScheduleTypes, Schedule!TypeOK
<1> QED BY <1>1, ScheduleInitially, ScheduleStep, PTL DEF Schedule!Spec

(* Whenever the loop looks at the clock again, each interval's closes since the
   start have had their callback, once, but for those at a main close that found
   the thread in a round: for all periods that are multiples of the main one, any
   delays of polls and callbacks, wake-ups no later than the window less the
   buffer, and a window shorter than a main candle
   (data_stream.py:190-194, 255-264, 282-317). *)
THEOREM ClosesTheorem ==
    ASSUME Schedule!ScheduleAssumption PROVE Schedule!Spec => []Schedule!EachCloseOnce
<1>1. ScheduleInv => Schedule!EachCloseOnce
  <2> SUFFICES ASSUME ScheduleInv PROVE Schedule!EachCloseOnce
      OBVIOUS
  <2>1. schedulePc = "loop" =>
          \A iv \in Intervals : \A c \in 1 .. now \div Period[iv] :
              c * Period[iv] > started =>
                  c \in evaluated[iv] \/ c * Period[iv] \in overrun
      BY DEF ScheduleInv, AllHandled, Handled, Closes
  <2>2. schedulePc = "callbacks" =>
          \A iv \in due : polledAt \div Period[iv] \notin evaluated[iv]
      BY DEF ScheduleInv, DueFresh
  <2> QED BY <2>1, <2>2 DEF Schedule!EachCloseOnce, Schedule!Close
<1> QED BY <1>1, ScheduleInitially, ScheduleStep, PTL DEF Schedule!Spec

(* A round that begins as late as it may and takes as long as it may ends before
   the next main close. *)
RoundLimit == Buffer + MaxLate + MaxPoll + Cardinality(Intervals) * MaxCall

RoundsFit == IsFiniteSet(Intervals) /\ RoundLimit < Period[MainInterval]

(* The main close m that a round is about, and what is left of its time. *)
MainClose(m) == m \in Nat /\ m % Period[MainInterval] = 0

CallsLeft(m) == m <= polledAt /\ now + Cardinality(due) * MaxCall <= m + RoundLimit

RoundInv ==
    /\ ScheduleInv
    /\ overrun = {}
    /\ schedulePc = "poll" =>
        \E m : MainClose(m) /\ m <= now /\ now <= m + (Buffer + MaxLate)
    /\ schedulePc = "callbacks" => \E m : MainClose(m) /\ CallsLeft(m)

(* The time callbacks may take. *)
LEMMA CallTimes ==
    ASSUME NEW c \in Nat, NEW k \in Nat, NEW d \in Nat
    PROVE  /\ c * d \in Nat /\ k * d \in Nat
           /\ c <= k => c * d <= k * d
           /\ k = c + 1 => k * d = c * d + d
OBVIOUS

(* A round begins with its time before it ... *)
LEMMA RoundBegins ==
    ASSUME Schedule!ScheduleAssumption, RoundsFit, RoundInv, Schedule!Wake
    PROVE  RoundInv'
<1> DEFINE P == Period[MainInterval]
<1>1. /\ P \in Nat \ {0} /\ now \in Nat /\ schedulePc = "asleep" /\ schedulePc' = "poll"
      /\ overrun = {} /\ overrun' = overrun /\ wakeAt = now + ((P - (now % P)) + Buffer)
    BY PeriodType DEF RoundInv, ScheduleInv, ScheduleTypes, Schedule!Wake,
      Schedule!SecondsToNextClose
<1>2. PICK late \in 0 .. MaxLate : now' = wakeAt + late
    BY DEF Schedule!Wake
<1>3. Buffer \in 0 .. P - 1 /\ Buffer \in Nat /\ MaxLate \in Nat
    BY <1>1, PeriodType
<1> HIDE DEF P
<1>4. PICK m \in Nat : wakeAt = m + Buffer /\ JustAfter(wakeAt, m, now, P)
    BY <1>1, <1>3, WakeTime
<1>5. MainClose(m)
    BY <1>4 DEF JustAfter, MainClose, P
<1>6. m <= now' /\ now' <= m + (Buffer + MaxLate)
    BY <1>2, <1>3, <1>4
<1>7. MainClose(m)'
    BY <1>5 DEF MainClose
<1>8. ScheduleInv'
    BY WakeStep DEF RoundInv
<1> QED BY <1>1, <1>6, <1>7, <1>8 DEF RoundInv

(* ... the poll leaves enough for the callbacks of all that are due ... *)
LEMMA RoundPolls ==
    ASSUME Schedule!ScheduleAssumption, RoundsFit, RoundInv, Schedule!Poll
    PROVE  RoundInv'
<1> DEFINE k == Cardinality(Intervals)  c == Cardinality(due)
<1>1. /\ now \in Nat /\ schedulePc = "poll" /\ schedulePc' = "callbacks" /\ polledAt' = now
      /\ due \subseteq Intervals /\ due' = due /\ overrun = {} /\ overrun' = overrun
    BY DEF RoundInv, ScheduleInv, ScheduleTypes, Schedule!Poll
<1>2. PICK d \in 0 .. MaxPoll : now' = now + d
    BY DEF Schedule!Poll
<1>3. PICK m : MainClose(m) /\ m <= now /\ now <= m + (Buffer + MaxLate)
    BY <1>1 DEF RoundInv
<1>4. k \in Nat /\ c \in Nat /\ c <= k
    BY <1>1, FS_Subset, FS_CardinalityType DEF RoundsFit
<1>5. RoundLimit = Buffer + MaxLate + MaxPoll + k * MaxCall
    BY DEF RoundLimit
<1> HIDE DEF k, c
<1>6. c * MaxCall \in Nat /\ k * MaxCall \in Nat /\ c * MaxCall <= k * MaxCall
    BY <1>4, CallTimes, PeriodType
<1>7. now' + c * MaxCall <= m + RoundLimit
  <2> DEFINE x == c * MaxCall  y == k * MaxCall
  <2>1. /\ x \in Nat /\ y \in Nat /\ x <= y /\ RoundLimit = Buffer + MaxLate + MaxPoll + y
        /\ Buffer \in Nat /\ MaxLate \in Nat /\ MaxPoll \in Nat /\ m \in Nat
      BY <1>3, <1>5, <1>6, PeriodType DEF MainClose
  <2> HIDE DEF x, y
  <2>2. now' + x <= m + RoundLimit
      BY <1>1, <1>2, <1>3, <2>1
  <2> QED BY <2>2 DEF x
<1>8. CallsLeft(m)' /\ MainClose(m)'
  <2>1. Cardinality(due') = c /\ RoundLimit' = RoundLimit
      BY <1>1 DEF c, RoundLimit
  <2> QED BY <1>1, <1>3, <1>7, <2>1 DEF CallsLeft, MainClose
<1>9. ScheduleInv'
    BY ScheduleStep DEF RoundInv, Schedule!Next, Schedule!Scheduler
<1> QED BY <1>1, <1>8, <1>9 DEF RoundInv

(* ... a callback uses its own share ... *)
LEMMA RoundCalls ==
    ASSUME Schedule!ScheduleAssumption, RoundsFit, RoundInv,
           NEW iv \in Intervals, Schedule!MakeCallback(iv)
    PROVE  RoundInv'
<1> DEFINE k == Cardinality(due)  c == Cardinality(due')
<1>1. /\ now \in Nat /\ schedulePc = "callbacks" /\ schedulePc' = "callbacks"
      /\ polledAt' = polledAt /\ due \subseteq Intervals /\ iv \in due
      /\ due' = due \ {iv} /\ overrun = {} /\ overrun' = overrun
    BY DEF RoundInv, ScheduleInv, ScheduleTypes, Schedule!MakeCallback
<1>2. PICK d \in 0 .. MaxCall : now' = now + d
    BY DEF Schedule!MakeCallback
<1>3. PICK m : MainClose(m) /\ CallsLeft(m)
    BY <1>1 DEF RoundInv
<1>4. k \in Nat /\ c \in Nat /\ k = c + 1
  <2>1. IsFiniteSet(due)
      BY <1>1, FS_Subset DEF RoundsFit
  <2>2. IsFiniteSet(due \ {iv}) /\ Cardinality(due \ {iv}) = Cardinality(due) - 1
      BY <1>1, <2>1, FS_RemoveElement
  <2> QED BY <1>1, <2>1, <2>2, FS_CardinalityType
<1>5. /\ m \in Nat /\ m <= polledAt /\ now + k * MaxCall <= m + RoundLimit
      /\ RoundLimit' = RoundLimit /\ MaxCall \in Nat /\ RoundLimit \in Nat
  <2>1. Cardinality(Intervals) \in Nat
      BY FS_CardinalityType DEF RoundsFit
  <2>2. RoundLimit \in Nat
      BY <2>1, CallTimes, PeriodType DEF RoundLimit
  <2> QED BY <1>3, <2>2, PeriodType DEF CallsLeft, MainClose, RoundLimit
<1> HIDE DEF k, c
<1>6. k * MaxCall = c * MaxCall + MaxCall /\ c * MaxCall \in Nat
    BY <1>4, <1>5, CallTimes
<1>7. now' + c * MaxCall <= m + RoundLimit
  <2> DEFINE x == c * MaxCall  y == k * MaxCall
  <2>1. x \in Nat /\ y = x + MaxCall /\ now + y <= m + RoundLimit
      BY <1>5, <1>6
  <2> HIDE DEF x, y
  <2>2. now' + x <= m + RoundLimit
      BY <1>1, <1>2, <1>5, <2>1
  <2> QED BY <2>2 DEF x
<1>8. CallsLeft(m)' /\ MainClose(m)'
    BY <1>1, <1>3, <1>5, <1>7 DEF CallsLeft, MainClose, c
<1>9. ScheduleInv'
    BY CallbackStep DEF RoundInv
<1> QED BY <1>1, <1>8, <1>9 DEF RoundInv

(* ... and the round ends before the next main close. *)
LEMMA RoundEndsInTime ==
    ASSUME Schedule!ScheduleAssumption, RoundsFit, RoundInv, Schedule!RoundEnds
    PROVE  RoundInv'
<1> DEFINE P == Period[MainInterval]
<1>1. /\ now \in Nat /\ polledAt \in Nat /\ schedulePc = "callbacks" /\ schedulePc' = "loop"
      /\ due = {} /\ overrun = {} /\ P \in Nat \ {0}
    BY PeriodType DEF RoundInv, ScheduleInv, ScheduleTypes, Schedule!RoundEnds
<1>2. PICK m : MainClose(m) /\ CallsLeft(m)
    BY <1>1 DEF RoundInv
<1>3. RoundLimit < P /\ RoundLimit \in Nat
  <2>1. Cardinality(Intervals) \in Nat
      BY FS_CardinalityType DEF RoundsFit
  <2>2. RoundLimit \in Nat
      BY <2>1, CallTimes, PeriodType DEF RoundLimit
  <2> QED BY <2>2 DEF RoundsFit
<1>4. m \in Nat /\ m <= polledAt /\ now <= m + RoundLimit
  <2>1. Cardinality(due) = 0
      BY <1>1, FS_EmptySet
  <2> QED BY <1>1, <1>2, <1>3, <2>1, PeriodType DEF MainClose, CallsLeft
<1>5. PICK e \in Nat : m = e * P
    BY <1>1, <1>2, MultipleNumber DEF MainClose
<1>6. ASSUME NEW t \in polledAt + 1 .. now, t % P = 0 PROVE FALSE
  <2>1. t \in Nat
      BY <1>1
  <2>2. PICK d \in Nat : t = d * P
      BY <1>1, <1>6, <2>1, MultipleNumber
  <2> HIDE DEF P
  <2>3. t < m + P /\ m < t + P /\ m < t
      BY <1>1, <1>3, <1>4, <2>1
  <2>4. d = e
      BY <1>1, <1>5, <2>2, <2>3, MultiplesApart
  <2> QED BY <1>5, <2>1, <2>2, <2>3, <2>4
<1>7. overrun' = {}
    BY <1>1, <1>6 DEF Schedule!RoundEnds
<1>8. ScheduleInv'
    BY RoundEndsStep DEF RoundInv
<1> QED BY <1>1, <1>7, <1>8 DEF RoundInv

(* RoundInv is inductive. *)
LEMMA RoundStep ==
    ASSUME Schedule!ScheduleAssumption, RoundsFit, RoundInv, [Schedule!Next]_Schedule!vars
    PROVE  RoundInv'
<1>1. ScheduleInv'
    BY ScheduleStep DEF RoundInv
<1>2. CASE Schedule!Wake
    BY <1>2, RoundBegins
<1>3. CASE Schedule!Poll
    BY <1>3, RoundPolls
<1>4. CASE \E iv \in Intervals : Schedule!MakeCallback(iv)
    BY <1>4, RoundCalls
<1>5. CASE Schedule!RoundEnds
    BY <1>5, RoundEndsInTime
<1>6. CASE Schedule!Sleep
    BY <1>1, <1>6 DEF Schedule!Sleep, RoundInv
<1>7. CASE Schedule!LoopEnds
    BY <1>1, <1>7 DEF Schedule!LoopEnds, RoundInv
<1>8. CASE Schedule!Stop \/ UNCHANGED Schedule!vars
    BY <1>1, <1>8 DEF Schedule!Stop, Schedule!vars, RoundInv, MainClose, CallsLeft, RoundLimit
<1> QED
    BY <1>2, <1>3, <1>4, <1>5, <1>6, <1>7, <1>8
    DEF Schedule!Next, Schedule!Scheduler

(* Every close of every interval since the start has had its callback whenever the
   loop looks at the clock again, if the longest round, a late wake-up, a slow poll
   and a callback of every interval, is shorter than a main candle
   (data_stream.py:190-194, 282-317). *)
THEOREM NothingLostTheorem ==
    ASSUME Schedule!ScheduleAssumption, RoundsFit PROVE Schedule!Spec => []Schedule!NothingLost
<1>1. Schedule!Init => RoundInv
    BY ScheduleInitially DEF RoundInv, Schedule!Init
<1>2. RoundInv => Schedule!NothingLost
    BY DEF RoundInv, ScheduleInv, AllHandled, Handled, Closes, Schedule!NothingLost
<1> QED BY <1>1, <1>2, RoundStep, PTL DEF Schedule!Spec

-----------------------------------------------------------------------------
(* SignalScan.                                                             *)

CONSTANTS Universe, Kinds, BlockSell, Scores, FrameSize, CacheMax, MaxRow, MaxScans
VARIABLES frames, scanPc, index, read, indicators, cache, valid, scans

Scan == INSTANCE SignalScan WITH pc <- scanPc, Window <- FrameSize

(* Consecutive rows up to the one before `row'. *)
RowsBefore(w, row) == \A i \in 1 .. Len(w) : w[i] = row - (Len(w) + 1) + i

Windows == {w \in Seq(Nat) : w # <<>> => RowsBefore(w, w[Len(w)] + 1)}

(* A window that is not empty has a last row. *)
LEMMA WindowLast ==
    ASSUME NEW w \in Windows, w # <<>> PROVE w[Len(w)] \in Nat /\ Len(w) \in Nat \ {0}
BY DEF Windows

(* A window that loses its first row and gets the next one is a window. *)
LEMMA NextWindow ==
    ASSUME NEW w \in Seq(Nat), NEW row \in Nat, RowsBefore(w, row)
    PROVE  Append(w, row) \in Windows
<1> DEFINE v == Append(w, row)  n == Len(w)
<1>1. n \in Nat /\ v \in Seq(Nat) /\ Len(v) = n + 1 /\ v[n + 1] = row
    OBVIOUS
<1>2. \A i \in 1 .. n : v[i] = w[i] /\ w[i] = row - (n + 1) + i
    BY DEF RowsBefore
<1> HIDE DEF v, n
<1>3. \A i \in 1 .. n + 1 : v[i] = row + 1 - (n + 1 + 1) + i
    BY <1>1, <1>2
<1>4. RowsBefore(v, v[Len(v)] + 1)
    BY <1>1, <1>3 DEF RowsBefore
<1> QED BY <1>1, <1>4 DEF Windows, v

(* Without its first row a window is one still. *)
LEMMA TailWindow ==
    ASSUME NEW w \in Seq(Nat), w # <<>>, NEW row \in Nat, RowsBefore(w, row)
    PROVE  Tail(w) \in Seq(Nat) /\ RowsBefore(Tail(w), row)
<1> DEFINE v == Tail(w)  n == Len(w)
<1>1. n \in Nat \ {0} /\ v \in Seq(Nat) /\ Len(v) = n - 1
    OBVIOUS
<1>2. \A i \in 1 .. n - 1 : v[i] = w[i + 1]
    OBVIOUS
<1>3. \A i \in 1 .. n : w[i] = row - (n + 1) + i
    BY DEF RowsBefore
<1> HIDE DEF v, n
<1>4. \A i \in 1 .. n - 1 : v[i] = row - (n - 1 + 1) + i
    BY <1>1, <1>2, <1>3
<1>5. RowsBefore(v, row)
    BY <1>1, <1>4 DEF RowsBefore
<1> QED BY <1>1, <1>5 DEF v

(* A window is known by its length and its last row. *)
LEMMA TokenLemma ==
    ASSUME NEW f \in Windows, NEW g \in Windows, Scan!Token(f) = Scan!Token(g)
    PROVE  f = g
<1>1. CASE f = <<>>
  <2>1. Scan!Token(f) = <<0>>
      BY <1>1 DEF Scan!Token
  <2>2. g # <<>> => Scan!Token(g) = <<Len(g), g[Len(g)]>>
      BY DEF Scan!Token
  <2> QED BY <1>1, <2>1, <2>2
<1>2. CASE g = <<>>
  <2>1. Scan!Token(g) = <<0>>
      BY <1>2 DEF Scan!Token
  <2>2. f # <<>> => Scan!Token(f) = <<Len(f), f[Len(f)]>>
      BY DEF Scan!Token
  <2> QED BY <1>2, <2>1, <2>2
<1>3. CASE f # <<>> /\ g # <<>>
  <2>1. Len(f) = Len(g) /\ f[Len(f)] = g[Len(g)]
      BY <1>3 DEF Scan!Token
  <2>2. /\ f \in Seq(Nat) /\ g \in Seq(Nat)
        /\ RowsBefore(f, f[Len(f)] + 1) /\ RowsBefore(g, g[Len(g)] + 1)
      BY <1>3 DEF Windows
  <2>3. \A i \in 1 .. Len(f) : f[i] = g[i]
      BY <2>1, <2>2 DEF RowsBefore
  <2> QED BY <2>1, <2>2, <2>3, SeqEqual
<1> QED BY <1>1, <1>2, <1>3

CachedFrames == [key : Scan!Symbols \X Kinds, frame : Windows]

(* A cache as _cached_with_indicators leaves it: one entry of each key. *)
OneEach(c) ==
    /\ c \in Seq(CachedFrames)
    /\ \A i, j \in 1 .. Len(c) : c[i].key = c[j].key => i = j

(* An assignment keeps one entry of each key ... *)
LEMMA PutLemma ==
    ASSUME NEW c, OneEach(c), NEW e \in CachedFrames PROVE OneEach(Scan!Put(c, e))
<1>0. c \in Seq(CachedFrames) /\ DOMAIN c = 1 .. Len(c) /\ Len(c) \in Nat
    BY DEF OneEach
<1>1. CASE \E i \in DOMAIN c : c[i].key = e.key
  <2> DEFINE d == [i \in 1 .. Len(c) |-> IF c[i].key = e.key THEN e ELSE c[i]]
  <2>1. Scan!Put(c, e) = d
      BY <1>0, <1>1 DEF Scan!Put
  <2>2. \A i \in 1 .. Len(c) : c[i] \in CachedFrames
      BY <1>0
  <2>3. d \in [1 .. Len(c) -> CachedFrames]
      BY <2>2
  <2>4. d \in Seq(CachedFrames) /\ Len(d) = Len(c)
      BY <1>0, <2>3
  <2>5. \A i \in 1 .. Len(c) : d[i].key = c[i].key
      OBVIOUS
  <2> HIDE DEF d
  <2> QED BY <2>1, <2>4, <2>5 DEF OneEach
<1>2. CASE ~\E i \in DOMAIN c : c[i].key = e.key
  <2> DEFINE d == Append(c, e)
  <2>1. Scan!Put(c, e) = d
      BY <1>2 DEF Scan!Put
  <2>2. /\ d \in Seq(CachedFrames) /\ Len(d) = Len(c) + 1
        /\ d[Len(c) + 1] = e /\ \A i \in 1 .. Len(c) : d[i] = c[i]
      BY <1>0
  <2> HIDE DEF d
  <2>3. \A i \in 1 .. Len(c) : d[i].key # e.key
      BY <1>0, <1>2, <2>2
  <2>4. ASSUME NEW i \in 1 .. Len(d), NEW j \in 1 .. Len(d), d[i].key = d[j].key
        PROVE  i = j
    <3>1. CASE i \in 1 .. Len(c) /\ j \in 1 .. Len(c)
        BY <2>2, <2>4, <3>1 DEF OneEach
    <3>2. CASE i = Len(c) + 1 \/ j = Len(c) + 1
        BY <1>0, <2>2, <2>3, <2>4, <3>2
    <3> QED BY <1>0, <2>2, <3>1, <3>2
  <2> QED BY <2>1, <2>2, <2>4 DEF OneEach
<1> QED BY <1>1, <1>2

(* ... and so does an eviction, which leaves CacheMax entries at most. *)
LEMMA TrimLemma ==
    ASSUME Scan!ScanAssumption, NEW c, OneEach(c)
    PROVE  OneEach(Scan!Trim(c)) /\ Len(Scan!Trim(c)) <= CacheMax
<1> DEFINE n == Len(c)
           k == IF n > CacheMax THEN n - CacheMax ELSE 0
           d == SubSeq(c, 1 + k, n)
<1>1. /\ c \in Seq(CachedFrames) /\ n \in Nat /\ CacheMax \in Nat /\ k \in 0 .. n
      /\ n - k <= CacheMax
    BY DEF OneEach, Scan!ScanAssumption
<1>2. Scan!Trim(c) = d
    BY DEF Scan!Trim
<1> HIDE DEF k
<1>3. d \in Seq(CachedFrames) /\ Len(d) = n - k
    BY <1>1
<1>4. \A i \in 1 .. n - k : d[i] = c[k + i]
    BY <1>1
<1> HIDE DEF d
<1>5. ASSUME NEW i \in 1 .. Len(d), NEW j \in 1 .. Len(d), d[i].key = d[j].key
      PROVE  i = j
  <2>1. k + i \in 1 .. n /\ k + j \in 1 .. n
      BY <1>1, <1>3
  <2>2. c[k + i].key = c[k + j].key
      BY <1>3, <1>4, <1>5
  <2>3. k + i = k + j
      BY <2>1, <2>2 DEF OneEach
  <2> QED BY <1>1, <2>3
<1> QED BY <1>1, <1>2, <1>3, <1>5 DEF OneEach

(* Whatever was found in the cache, the indicators are those of the frame read. *)
ScanInv ==
    /\ frames \in [Scan!Symbols \X Kinds -> Windows]
    /\ read \in [Kinds -> Windows] /\ indicators = read
    /\ OneEach(cache) /\ Len(cache) <= CacheMax
    /\ index \in Nat
    /\ scanPc \in {"main", "context", "evaluate"} => index \in 1 .. Len(Universe)
    /\ scanPc = "context" => "context" \in Kinds

(* The empty frame is a window. *)
LEMMA NoFramesType == Scan!NoFrames \in [Kinds -> Windows] /\ <<>> \in Windows
<1>1. <<>> \in Seq(Nat)
    OBVIOUS
<1> QED BY <1>1 DEF Scan!NoFrames, Windows

(* ScanInv holds before the first scan. *)
LEMMA ScanInitially == ASSUME Scan!ScanAssumption, Scan!Init PROVE ScanInv
<1>1. OneEach(cache) /\ Len(cache) <= CacheMax
  <2>1. cache = <<>> /\ cache \in Seq(CachedFrames) /\ Len(cache) = 0
      BY DEF Scan!Init
  <2> QED BY <2>1 DEF OneEach, Scan!ScanAssumption
<1> QED BY <1>1, NoFramesType DEF Scan!Init, ScanInv

(* A row arrives. *)
LEMMA NewRowStep ==
    ASSUME Scan!ScanAssumption, ScanInv, NEW s \in Scan!Symbols, NEW k \in Kinds,
           Scan!NewRow(s, k)
    PROVE  ScanInv'
<1> DEFINE old == frames[<<s, k>>]
           row == IF old = <<>> THEN 1 ELSE old[Len(old)] + 1
           kept == IF Len(old) = FrameSize THEN Tail(old) ELSE old
<1>1. /\ frames' = [frames EXCEPT ![<<s, k>>] = Append(kept, row)]
      /\ UNCHANGED <<scanPc, index, read, indicators, cache, valid, scans>>
    BY DEF Scan!NewRow
<1>2. old \in Windows
    BY DEF ScanInv
<1>3. old \in Seq(Nat) /\ row \in Nat /\ RowsBefore(old, row)
  <2>1. CASE old = <<>>
    <3>1. row = 1 /\ Len(old) = 0
        BY <2>1
    <3> QED BY <1>2, <3>1 DEF Windows, RowsBefore
  <2>2. CASE old # <<>>
    <3>1. row = old[Len(old)] + 1
        BY <2>2
    <3> QED BY <1>2, <2>2, <3>1, WindowLast DEF Windows
  <2> QED BY <2>1, <2>2
<1>4. Len(old) = FrameSize => old # <<>>
    BY DEF Scan!ScanAssumption
<1> HIDE DEF old, row
<1>5. kept \in Seq(Nat) /\ RowsBefore(kept, row)
    BY <1>3, <1>4, TailWindow
<1>6. Append(kept, row) \in Windows
    BY <1>3, <1>5, NextWindow
<1> QED BY <1>1, <1>6 DEF ScanInv

(* The frame of the symbol, from the cache or not. *)
LEMMA CacheStep ==
    ASSUME Scan!ScanAssumption, ScanInv, index \in 1 .. Len(Universe),
           NEW k \in Kinds, Scan!CachedWithIndicators(k)
    PROVE  /\ read' \in [Kinds -> Windows] /\ indicators' = read'
           /\ OneEach(cache') /\ Len(cache') <= CacheMax
<1> DEFINE key == <<Universe[index], k>>
           frame == frames[key]
           hits == {i \in DOMAIN cache : cache[i].key = key
                                       /\ Scan!Token(cache[i].frame) = Scan!Token(frame)}
           entry == [key |-> key, frame |-> frame]
<1>1. key \in Scan!Symbols \X Kinds
    BY DEF Scan!Symbols, Scan!ScanAssumption
<1>2. frame \in Windows /\ entry \in CachedFrames
    BY <1>1 DEF ScanInv, CachedFrames
<1>3. read' = [read EXCEPT ![k] = frame]
    BY DEF Scan!CachedWithIndicators
<1>4. read' \in [Kinds -> Windows] /\ [indicators EXCEPT ![k] = frame] = read'
    BY <1>2, <1>3 DEF ScanInv
<1>5. CASE frame = <<>> /\ indicators' = [indicators EXCEPT ![k] = frame] /\ UNCHANGED cache
    BY <1>4, <1>5 DEF ScanInv
<1>6. CASE /\ \E i \in hits : indicators' = [indicators EXCEPT ![k] = cache[i].frame]
           /\ UNCHANGED cache
  <2>1. PICK i \in hits : indicators' = [indicators EXCEPT ![k] = cache[i].frame]
      BY <1>6
  <2>2. cache[i] \in CachedFrames /\ Scan!Token(cache[i].frame) = Scan!Token(frame)
      BY DEF ScanInv, OneEach
  <2>3. cache[i].frame \in Windows
      BY <2>2 DEF CachedFrames
  <2>4. cache[i].frame = frame
      BY <1>2, <2>2, <2>3, TokenLemma
  <2> QED BY <1>4, <1>6, <2>1, <2>4 DEF ScanInv
<1>7. CASE /\ indicators' = [indicators EXCEPT ![k] = frame]
           /\ cache' = Scan!Trim(Scan!Put(cache, entry))
    BY <1>2, <1>4, <1>7, PutLemma, TrimLemma DEF ScanInv
<1> QED BY <1>5, <1>6, <1>7 DEF Scan!CachedWithIndicators

(* ScanInv is inductive. *)
LEMMA ScanStep ==
    ASSUME Scan!ScanAssumption, ScanInv, [Scan!Next]_Scan!vars PROVE ScanInv'
<1>0. Len(Universe) \in Nat /\ Len(Universe) >= 1
    BY DEF Scan!ScanAssumption
<1>1. ASSUME NEW s \in Scan!Symbols, NEW k \in Kinds, Scan!NewRow(s, k) PROVE ScanInv'
    BY <1>1, NewRowStep
<1>2. CASE Scan!Begin
    BY <1>0, <1>2, NoFramesType DEF Scan!Begin, ScanInv
<1>3. ASSUME scanPc \in {"main", "evaluate"}, Scan!Advance,
             UNCHANGED <<frames, read, indicators, cache>>
      PROVE  ScanInv'
    BY <1>0, <1>3 DEF Scan!Advance, ScanInv
<1>4. CASE Scan!SkipEmpty \/ Scan!NoSignal
    BY <1>3, <1>4 DEF Scan!SkipEmpty, Scan!NoSignal
<1>5. CASE \E side \in {"BUY", "SELL"}, score \in Scores : Scan!SignalFound(side, score)
    BY <1>3, <1>5 DEF Scan!SignalFound
<1>6. CASE Scan!ReadMain
  <2>1. /\ read' \in [Kinds -> Windows] /\ indicators' = read'
        /\ OneEach(cache') /\ Len(cache') <= CacheMax
      BY <1>6, CacheStep DEF Scan!ReadMain, ScanInv, Scan!ScanAssumption
  <2> QED BY <1>6, <2>1 DEF Scan!ReadMain, ScanInv
<1>7. CASE Scan!ReadContext
  <2>1. /\ read' \in [Kinds -> Windows] /\ indicators' = read'
        /\ OneEach(cache') /\ Len(cache') <= CacheMax
      BY <1>7, CacheStep DEF Scan!ReadContext, ScanInv
  <2> QED BY <1>7, <2>1 DEF Scan!ReadContext, ScanInv
<1>8. CASE Scan!Sort
    BY <1>8 DEF Scan!Sort, ScanInv
<1>9. CASE UNCHANGED Scan!vars
    BY <1>9 DEF Scan!vars, ScanInv
<1> QED
    BY <1>1, <1>2, <1>4, <1>5, <1>6, <1>7, <1>8, <1>9 DEF Scan!Next, Scan!Scan

(* A signal is evaluated on the indicators of the very frame that was read, for
   any universe, frames of any length and a cache of any size, whatever rows arrive
   and whichever entries are evicted meanwhile: the length and the last row tell a
   window from every other (services/signal_service.py:71-81 and 150-165). *)
THEOREM IndicatorsTheorem ==
    ASSUME Scan!ScanAssumption PROVE Scan!Spec => []Scan!OwnIndicators
<1>1. ScanInv => Scan!OwnIndicators
    BY DEF ScanInv, Scan!OwnIndicators
<1> QED BY <1>1, ScanInitially, ScanStep, PTL DEF Scan!Spec

(* The indicator cache never outgrows its limit, and holds one entry of each
   symbol and kind (services/signal_service.py:93-98). *)
THEOREM CacheTheorem ==
    ASSUME Scan!ScanAssumption
    PROVE  Scan!Spec => [](Len(cache) <= CacheMax /\ OneEach(cache))
<1>1. ScanInv => Len(cache) <= CacheMax /\ OneEach(cache)
    BY DEF ScanInv
<1> QED BY <1>1, ScanInitially, ScanStep, PTL DEF Scan!Spec

(* The sort of the candidates, and the types of SignalScan. *)

(* valid[i] comes before valid[j]: a higher score, or the same found earlier. *)
Before(v, i, j) == v[i].score > v[j].score \/ (v[i].score = v[j].score /\ i < j)
UpTo(v, j) ==
    {i \in 1 .. Len(v) : \/ v[i].score > v[j].score
                         \/ v[i].score = v[j].score /\ i <= j}
RankIn(v, j) == Cardinality(UpTo(v, j))

(* `to' holds the candidates of v, each once, in the order of Before. *)
Sorted(to, v) ==
    \E place \in [1 .. Len(v) -> 1 .. Len(v)] :
        /\ \A i \in 1 .. Len(v) : \E r \in 1 .. Len(v) : place[r] = i
        /\ to = [r \in 1 .. Len(v) |-> v[place[r]]]
        /\ \A r, q \in 1 .. Len(v) : r < q => Before(v, place[r], place[q])

(* Ranks are places, and the order of the places is that of Before. *)
LEMMA RankLemma ==
    ASSUME NEW v \in Seq(Scan!Candidates), Scores \subseteq Nat
    PROVE  /\ \A j \in 1 .. Len(v) : RankIn(v, j) \in 1 .. Len(v)
           /\ \A i, j \in 1 .. Len(v) : Before(v, i, j) => RankIn(v, i) < RankIn(v, j)
           /\ \A i, j \in 1 .. Len(v) : i # j => Before(v, i, j) \/ Before(v, j, i)
<1> DEFINE n == Len(v)
<1>1. n \in Nat /\ \A k \in 1 .. n : v[k].score \in Nat
  <2>1. n \in Nat /\ \A k \in 1 .. n : v[k] \in Scan!Candidates
      OBVIOUS
  <2>2. \A c \in Scan!Candidates : c.score \in Nat
      BY DEF Scan!Candidates
  <2> QED BY <2>1, <2>2
<1>2. IsFiniteSet(1 .. n) /\ Cardinality(1 .. n) = n
  <2>1. 1 \in Int /\ n \in Int
      BY <1>1
  <2>2. /\ IsFiniteSet(1 .. n)
        /\ Cardinality(1 .. n) = IF 1 > n THEN 0 ELSE n - 1 + 1
      BY <2>1, FS_Interval, Zenon
  <2> QED BY <1>1, <2>2
<1>3. ASSUME NEW j \in 1 .. n
      PROVE  /\ IsFiniteSet(UpTo(v, j)) /\ RankIn(v, j) \in 1 .. n
  <2>1. j \in UpTo(v, j) /\ UpTo(v, j) \subseteq 1 .. n
      BY <1>1 DEF UpTo
  <2>2. IsFiniteSet(UpTo(v, j)) /\ RankIn(v, j) <= n
      BY <1>2, <2>1, FS_Subset DEF RankIn
  <2>3. RankIn(v, j) \in Nat /\ RankIn(v, j) # 0
      BY <2>1, <2>2, FS_CardinalityType, FS_EmptySet DEF RankIn
  <2> QED BY <1>1, <2>2, <2>3
<1>4. ASSUME NEW i \in 1 .. n, NEW j \in 1 .. n, Before(v, i, j)
      PROVE  RankIn(v, i) < RankIn(v, j)
  <2>1. UpTo(v, i) \subseteq UpTo(v, j)
    <3> SUFFICES ASSUME NEW k \in UpTo(v, i) PROVE k \in UpTo(v, j)
        OBVIOUS
    <3> QED BY <1>1, <1>4 DEF UpTo, Before
  <2>2. j \in UpTo(v, j) /\ j \notin UpTo(v, i)
      BY <1>1, <1>4 DEF UpTo, Before
  <2>3. RankIn(v, i) <= RankIn(v, j) /\ RankIn(v, i) # RankIn(v, j)
      BY <1>3, <2>1, <2>2, FS_Subset DEF RankIn
  <2> QED BY <1>3, <2>3
<1>5. ASSUME NEW i \in 1 .. n, NEW j \in 1 .. n, i # j
      PROVE  Before(v, i, j) \/ Before(v, j, i)
  <2>1. v[i].score \in Nat /\ v[j].score \in Nat /\ i \in Nat /\ j \in Nat
      BY <1>1
  <2> QED BY <1>5, <2>1 DEF Before
<1> QED BY <1>3, <1>4, <1>5

(* What Sort leaves is sorted. *)
LEMMA SortStep ==
    ASSUME Scores \subseteq Nat, valid \in Seq(Scan!Candidates), Scan!Sort
    PROVE  Sorted(valid', valid) /\ valid' \in Seq(Scan!Candidates)
<1> DEFINE n == Len(valid)
           rank == [k \in 1 .. n |-> RankIn(valid, k)]
           place == [r \in 1 .. n |-> CHOOSE k \in 1 .. n : rank[k] = r]
<1>1. n \in Nat /\ DOMAIN valid = 1 .. n /\ \A k \in 1 .. n : valid[k] \in Scan!Candidates
    OBVIOUS
<1>2. valid' = [r \in 1 .. n |-> valid[place[r]]]
  <2>1. ASSUME NEW k \in 1 .. n PROVE Scan!Rank(k) = rank[k]
    <3>1. {j \in DOMAIN valid : \/ valid[j].score > valid[k].score
                                \/ valid[j].score = valid[k].score /\ j <= k} = UpTo(valid, k)
        BY <1>1 DEF UpTo
    <3>2. Scan!Cardinality(UpTo(valid, k)) = RankIn(valid, k)
        BY Zenon DEF Cardinality, Scan!Cardinality, RankIn
    <3> QED BY <3>1, <3>2 DEF Scan!Rank
  <2>2. valid' = [r \in 1 .. n |-> valid[CHOOSE k \in 1 .. n : Scan!Rank(k) = r]]
      BY <1>1 DEF Scan!Sort
  <2> HIDE DEF rank
  <2>3. ASSUME NEW r \in 1 .. n
        PROVE  (CHOOSE k \in 1 .. n : Scan!Rank(k) = r) = (CHOOSE k \in 1 .. n : rank[k] = r)
    <3>1. \A k \in 1 .. n : Scan!Rank(k) = r <=> rank[k] = r
        BY <2>1
    <3> QED BY <3>1, Zenon
  <2>4. \A r \in 1 .. n : valid[CHOOSE k \in 1 .. n : Scan!Rank(k) = r] = valid[place[r]]
    <3> SUFFICES ASSUME NEW r \in 1 .. n
                 PROVE  (CHOOSE k \in 1 .. n : Scan!Rank(k) = r) = place[r]
        OBVIOUS
    <3>1. place[r] = CHOOSE k \in 1 .. n : rank[k] = r
        OBVIOUS
    <3> HIDE DEF place
    <3> QED BY <2>3, <3>1
  <2> HIDE DEF place
  <2> QED BY <2>2, <2>4
<1>3. /\ rank \in [1 .. n -> 1 .. n]
      /\ \A i, j \in 1 .. n : Before(valid, i, j) => rank[i] < rank[j]
      /\ \A i, j \in 1 .. n : i # j => Before(valid, i, j) \/ Before(valid, j, i)
    BY RankLemma
<1> HIDE DEF rank
<1>4. \A i, j \in 1 .. n : rank[i] = rank[j] => i = j
    BY <1>1, <1>3
<1>5. \A r \in 1 .. n : \E k \in 1 .. n : rank[k] = r
  <2>1. rank \in Injection(1 .. n, 1 .. n)
      BY <1>3, <1>4 DEF Injection, IsInjective
  <2>2. IsFiniteSet(1 .. n)
    <3>1. 1 \in Int /\ n \in Int
        BY <1>1
    <3> QED BY <3>1, FS_Interval, Zenon
  <2>3. rank \in Surjection(1 .. n, 1 .. n)
      BY <2>1, <2>2, FS_Injection
  <2> QED BY <2>3 DEF Surjection
<1>6. \A r \in 1 .. n : place[r] \in 1 .. n /\ rank[place[r]] = r
    BY <1>5
<1>7. place \in [1 .. n -> 1 .. n]
    BY <1>6
<1> HIDE DEF place
<1>8. \A i \in 1 .. n : place[rank[i]] = i
    BY <1>3, <1>4, <1>6
<1>9. \A r, q \in 1 .. n : r < q => Before(valid, place[r], place[q])
  <2> SUFFICES ASSUME NEW r \in 1 .. n, NEW q \in 1 .. n, r < q
               PROVE  Before(valid, place[r], place[q])
      OBVIOUS
  <2>1. place[r] # place[q] /\ ~(rank[place[q]] < rank[place[r]])
      BY <1>1, <1>6
  <2> QED BY <1>3, <1>6, <2>1
<1>10. \A i \in 1 .. n : \E r \in 1 .. n : place[r] = i
    BY <1>3, <1>8
<1>11. valid' \in Seq(Scan!Candidates)
  <2>1. valid' \in [1 .. n -> Scan!Candidates]
      BY <1>1, <1>2, <1>6
  <2> QED BY <1>1, <2>1
<1>12. Sorted(valid', valid)
  <2> HIDE DEF n
  <2>1. n = Len(valid)
      BY DEF n
  <2> QED BY <1>2, <1>7, <1>9, <1>10, <2>1 DEF Sorted
<1> QED BY <1>11, <1>12

Rows == 1 .. MaxRow

(* The frames of the code are windows of FrameSize rows, each row one of a series. *)
ScanTypes ==
    /\ frames \in [Scan!Symbols \X Kinds -> Scan!Frames]
    /\ read \in [Kinds -> Scan!Frames]
    /\ \A i \in 1 .. Len(cache) : cache[i].frame \in Scan!Frames
    /\ scanPc \in {"idle", "main", "context", "evaluate", "sort"}
    /\ index \in 1 .. Len(Universe) + 1
    /\ valid \in Seq(Scan!Candidates)
    /\ scans \in 0 .. MaxScans

LEMMA FramesAre ==
    ASSUME Scan!ScanAssumption, NEW w
    PROVE  w \in Scan!Frames <=> w \in Seq(Rows) /\ Len(w) <= FrameSize
<1>1. FrameSize \in Nat
    BY DEF Scan!ScanAssumption
<1>2. ASSUME NEW n \in 0 .. FrameSize, w \in [1 .. n -> Rows]
      PROVE  w \in Seq(Rows) /\ Len(w) <= FrameSize
  <2>1. n \in Nat
      BY <1>1
  <2>2. w \in Seq(Rows)
      BY <1>2, <2>1
  <2>3. Len(w) = n
      BY <1>2, <2>1, <2>2, LenProperties
  <2> QED BY <1>1, <2>2, <2>3
<1>3. ASSUME w \in Seq(Rows), Len(w) <= FrameSize
      PROVE  Len(w) \in 0 .. FrameSize /\ w \in [1 .. Len(w) -> Rows]
    BY <1>1, <1>3, LenProperties
<1> QED BY <1>2, <1>3 DEF Scan!Frames, Rows

LEMMA NoRows == ASSUME Scan!ScanAssumption PROVE <<>> \in Scan!Frames
<1>1. <<>> \in Seq(Rows) /\ Len(<<>>) <= FrameSize
    BY EmptySeq DEF Scan!ScanAssumption
<1> QED BY <1>1, FramesAre, Zenon

LEMMA ScanTypesInitially == ASSUME Scan!ScanAssumption, Scan!Init PROVE ScanTypes
<1>1. <<>> \in Scan!Frames
    BY NoRows
<1>2. Len(Universe) \in Nat /\ MaxScans \in Nat
    BY DEF Scan!ScanAssumption
<1>3. cache = <<>> /\ Len(cache) = 0 /\ valid \in Seq(Scan!Candidates)
    BY DEF Scan!Init
<1> QED BY <1>1, <1>2, <1>3 DEF Scan!Init, ScanTypes, Scan!NoFrames

(* A row arrives in a window that has room, or that loses its first row. *)
LEMMA NewRowTypes ==
    ASSUME Scan!ScanAssumption, ScanTypes, NEW s \in Scan!Symbols, NEW k \in Kinds,
           Scan!NewRow(s, k)
    PROVE  ScanTypes'
<1> DEFINE old == frames[<<s, k>>]
           row == IF old = <<>> THEN 1 ELSE old[Len(old)] + 1
           kept == IF Len(old) = FrameSize THEN Tail(old) ELSE old
<1>1. /\ frames' = [frames EXCEPT ![<<s, k>>] = Append(kept, row)] /\ row <= MaxRow
      /\ UNCHANGED <<scanPc, index, read, indicators, cache, valid, scans>>
    BY DEF Scan!NewRow
<1>2. old \in Seq(Rows) /\ Len(old) <= FrameSize
    BY FramesAre DEF ScanTypes
<1>3. FrameSize \in Nat \ {0} /\ MaxRow \in Nat /\ Rows = 1 .. MaxRow
    BY DEF Scan!ScanAssumption, Rows
<1> HIDE DEF old
<1>4. row \in Rows
  <2>1. CASE old = <<>>
      BY <1>1, <1>3, <2>1
  <2>2. CASE old # <<>>
    <3>1. old[Len(old)] \in Rows
      <4>1. Len(old) \in DOMAIN old
          BY <1>2, <2>2, LenProperties, EmptySeq
      <4> QED BY <1>2, <4>1, ElementOfSeq
    <3> QED BY <1>1, <1>3, <2>2, <3>1
  <2> QED BY <2>1, <2>2
<1>5. kept \in Seq(Rows) /\ Len(kept) + 1 <= FrameSize
  <2>1. CASE Len(old) = FrameSize
    <3>1. old # <<>>
        BY <1>3, <2>1
    <3>2. Tail(old) \in Seq(Rows) /\ Len(Tail(old)) = Len(old) - 1
        BY <1>2, <3>1
    <3> QED BY <1>3, <2>1, <3>2
  <2>2. CASE Len(old) # FrameSize
      BY <1>2, <1>3, <2>2
  <2> QED BY <2>1, <2>2
<1> HIDE DEF row, kept
<1>6. Append(kept, row) \in Seq(Rows) /\ Len(Append(kept, row)) = Len(kept) + 1
    BY <1>4, <1>5
<1>7. Append(kept, row) \in Scan!Frames
    BY <1>5, <1>6, FramesAre
<1> QED BY <1>1, <1>7 DEF ScanTypes

(* The cache holds frames that were read. *)
LEMMA CacheTypes ==
    ASSUME Scan!ScanAssumption, ScanTypes, ScanInv, index \in 1 .. Len(Universe),
           NEW k \in Kinds, Scan!CachedWithIndicators(k)
    PROVE  /\ read' \in [Kinds -> Scan!Frames]
           /\ \A i \in 1 .. Len(cache') : cache'[i].frame \in Scan!Frames
<1> DEFINE key == <<Universe[index], k>>
           entry == [key |-> key, frame |-> frames[key]]
           put == Scan!Put(cache, entry)
<1>1. key \in Scan!Symbols \X Kinds
    BY DEF Scan!Symbols, Scan!ScanAssumption
<1>2. entry.frame \in Scan!Frames /\ frames[key] \in Windows
    BY <1>1 DEF ScanTypes, ScanInv
<1>3. read' = [read EXCEPT ![k] = entry.frame]
    BY DEF Scan!CachedWithIndicators
<1>4. cache' = cache \/ cache' = Scan!Trim(put)
    BY DEF Scan!CachedWithIndicators
<1>5. cache \in Seq(CachedFrames) /\ Len(cache) \in Nat /\ DOMAIN cache = 1 .. Len(cache)
    BY DEF ScanInv, OneEach
<1>6. OneEach(put) /\ put \in Seq(CachedFrames)
    BY <1>1, <1>2, PutLemma DEF ScanInv, CachedFrames, OneEach
<1>7. \A i \in 1 .. Len(put) : put[i].frame \in Scan!Frames
  <2> HIDE DEF entry
  <2>1. CASE \E i \in DOMAIN cache : cache[i].key = entry.key
    <3>1. put = [i \in 1 .. Len(cache) |-> IF cache[i].key = entry.key THEN entry ELSE cache[i]]
        BY <1>5, <2>1 DEF Scan!Put
    <3>2. Len(put) = Len(cache)
        BY <1>5, <1>6, <3>1
    <3> HIDE DEF put
    <3> QED BY <1>2, <3>1, <3>2 DEF ScanTypes
  <2>2. CASE ~\E i \in DOMAIN cache : cache[i].key = entry.key
    <3>1. put = Append(cache, entry)
        BY <2>2 DEF Scan!Put
    <3> HIDE DEF put
    <3>2. \A i \in 1 .. Len(put) : i \in 1 .. Len(cache) \/ put[i] = entry
        BY <1>5, <3>1
    <3>3. \A i \in 1 .. Len(cache) : put[i] = cache[i]
        BY <1>5, <3>1
    <3> QED BY <1>2, <3>2, <3>3 DEF ScanTypes
  <2> QED BY <2>1, <2>2
<1> HIDE DEF put, entry
<1>8. \A i \in 1 .. Len(Scan!Trim(put)) : Scan!Trim(put)[i].frame \in Scan!Frames
  <2> DEFINE n == Len(put)
             m == IF n > CacheMax THEN n - CacheMax ELSE 0
             d == SubSeq(put, 1 + m, n)
  <2>1. n \in Nat /\ CacheMax \in Nat /\ m \in 0 .. n
      BY <1>6 DEF Scan!ScanAssumption
  <2>2. Scan!Trim(put) = d
      BY DEF Scan!Trim
  <2> HIDE DEF m
  <2>3. Len(d) = n - m /\ \A i \in 1 .. n - m : d[i] = put[m + i] /\ m + i \in 1 .. n
      BY <1>6, <2>1
  <2> HIDE DEF d
  <2> QED BY <1>7, <2>2, <2>3
<1> QED BY <1>2, <1>3, <1>4, <1>8 DEF ScanTypes

(* Every step keeps the types. *)
LEMMA ScanTypesStep ==
    ASSUME Scan!ScanAssumption, ScanTypes, ScanInv, [Scan!Next]_Scan!vars PROVE ScanTypes'
<1>0. /\ Len(Universe) \in Nat /\ Len(Universe) >= 1 /\ MaxScans \in Nat
      /\ Scores \subseteq Nat /\ "main" \in Kinds
    BY DEF Scan!ScanAssumption
<1>1. ASSUME NEW s \in Scan!Symbols, NEW k \in Kinds, Scan!NewRow(s, k) PROVE ScanTypes'
    BY <1>1, NewRowTypes
<1>2. CASE Scan!Begin
  <2>1. Scan!NoFrames \in [Kinds -> Scan!Frames]
    BY NoRows DEF Scan!NoFrames
  <2> QED BY <1>0, <1>2, <2>1 DEF Scan!Begin, ScanTypes
<1>3. ASSUME index \in 1 .. Len(Universe), Scan!Advance, valid' \in Seq(Scan!Candidates),
             UNCHANGED <<frames, read, cache, scans>>
      PROVE  ScanTypes'
    BY <1>0, <1>3 DEF Scan!Advance, ScanTypes
<1>4. CASE Scan!SkipEmpty \/ Scan!NoSignal
    BY <1>3, <1>4 DEF Scan!SkipEmpty, Scan!NoSignal, ScanInv, ScanTypes
<1>5. ASSUME NEW side \in {"BUY", "SELL"}, NEW score \in Scores, Scan!SignalFound(side, score)
      PROVE  ScanTypes'
  <2> DEFINE c == [symbol |-> Universe[index], side |-> side, score |-> score]
  <2>1. index \in 1 .. Len(Universe)
      BY <1>5 DEF Scan!SignalFound, ScanInv
  <2>2. Universe[index] \in Scan!Symbols
      BY <2>1 DEF Scan!ScanAssumption
  <2>3. c \in Scan!Candidates
      BY <2>2 DEF Scan!Candidates
  <2>4. Scan!Accepted(c) \in Seq(Scan!Candidates)
      BY <2>3 DEF Scan!Accepted
  <2>5. valid' = valid \o Scan!Accepted(c)
      BY <1>5 DEF Scan!SignalFound
  <2> HIDE DEF c
  <2>6. valid' \in Seq(Scan!Candidates)
      BY <2>4, <2>5 DEF ScanTypes
  <2> QED BY <1>3, <1>5, <2>1, <2>6 DEF Scan!SignalFound
<1>6. CASE Scan!ReadMain
  <2>1. /\ read' \in [Kinds -> Scan!Frames]
        /\ \A i \in 1 .. Len(cache') : cache'[i].frame \in Scan!Frames
      BY <1>0, <1>6, CacheTypes DEF Scan!ReadMain, ScanInv
  <2> QED BY <1>6, <2>1 DEF Scan!ReadMain, ScanTypes
<1>7. CASE Scan!ReadContext
  <2>1. /\ read' \in [Kinds -> Scan!Frames]
        /\ \A i \in 1 .. Len(cache') : cache'[i].frame \in Scan!Frames
      BY <1>7, CacheTypes DEF Scan!ReadContext, ScanInv
  <2> QED BY <1>7, <2>1 DEF Scan!ReadContext, ScanTypes
<1>8. CASE Scan!Sort
  <2>1. valid' \in Seq(Scan!Candidates)
      BY <1>0, <1>8, SortStep DEF ScanTypes
  <2> QED BY <1>0, <1>8, <2>1 DEF Scan!Sort, ScanTypes
<1>9. CASE UNCHANGED Scan!vars
    BY <1>9 DEF Scan!vars, ScanTypes
<1> QED
    BY <1>1, <1>2, <1>4, <1>5, <1>6, <1>7, <1>8, <1>9 DEF Scan!Next, Scan!Scan

(* Types, for any universe: a frame has at most as many rows as the stream keeps,
   the cache at most CacheMax entries, one of each symbol and kind
   (services/signal_service.py:71-108), and a scan stays within its universe. *)
THEOREM ScanTypeCorrect ==
    ASSUME Scan!ScanAssumption PROVE Scan!Spec => []Scan!TypeOK
<1>1. ScanInv /\ ScanTypes => Scan!TypeOK
  <2> SUFFICES ASSUME ScanInv, ScanTypes PROVE Scan!TypeOK
      OBVIOUS
  <2>1. /\ cache \in Seq(CachedFrames) /\ DOMAIN cache = 1 .. Len(cache)
        /\ \A i, j \in 1 .. Len(cache) : cache[i].key = cache[j].key => i = j
      BY DEF ScanInv, OneEach
  <2>2. ASSUME NEW i \in DOMAIN cache PROVE cache[i] \in Scan!Entries
    <3>1. cache[i] \in CachedFrames /\ cache[i].frame \in Scan!Frames
        BY <2>1 DEF ScanTypes
    <3> QED BY <3>1 DEF CachedFrames, Scan!Entries
  <2>3. \A i \in DOMAIN valid : valid[i] \in Scan!Candidates
      BY DEF ScanTypes
  <2> QED BY <2>1, <2>2, <2>3 DEF ScanInv, ScanTypes, Scan!TypeOK
<1> QED
    BY <1>1, ScanInitially, ScanStep, ScanTypesInitially, ScanTypesStep, PTL DEF Scan!Spec

(* The candidates of a scan are handed over by falling score, those of one score
   in the order of the universe, and none is lost or doubled: the sort is stable
   and total (services/signal_service.py, the sort of valid_signals). *)
THEOREM CandidatesSorted ==
    ASSUME Scan!ScanAssumption
    PROVE  Scan!Spec => [][Scan!Sort => Sorted(valid', valid)]_Scan!vars
<1>1. ScanTypes /\ Scan!Sort => Sorted(valid', valid)
    BY SortStep DEF ScanTypes, Scan!ScanAssumption
<1> QED
    BY <1>1, ScanInitially, ScanStep, ScanTypesInitially, ScanTypesStep, PTL DEF Scan!Spec

-----------------------------------------------------------------------------
(* BacktestDownload.                                                       *)

CONSTANTS Series, History, Limit, PageMax, MinCandles, Retries, Workers, Budget, Ticks, Faults
VARIABLES dlPc, rows, end, tries, file, fresh, granted, requested, datasets, errors, phase

Download == INSTANCE BacktestDownload WITH pc <- dlPc

(* The first two and the last of a range. *)
LEMMA LargerOf ==
    ASSUME NEW a \in Int, NEW b \in Int
    PROVE  Download!Max({a, b}) = IF a >= b THEN a ELSE b
<1> DEFINE m == IF a >= b THEN a ELSE b
<1>1. m \in {a, b} /\ \A y \in {a, b} : m >= y
    OBVIOUS
<1>2. \A x \in {a, b} : (\A y \in {a, b} : x >= y) => x = m
    OBVIOUS
<1> HIDE DEF m
<1>3. Download!Max({a, b}) = m
    BY <1>1, <1>2 DEF Download!Max
<1> QED BY <1>3 DEF m

LEMMA SmallerOf ==
    ASSUME NEW a \in Int, NEW b \in Int
    PROVE  Download!Min({a, b}) = IF a <= b THEN a ELSE b
<1> DEFINE m == IF a <= b THEN a ELSE b
<1>1. m \in {a, b} /\ \A y \in {a, b} : m <= y
    OBVIOUS
<1>2. \A x \in {a, b} : (\A y \in {a, b} : x <= y) => x = m
    OBVIOUS
<1> HIDE DEF m
<1>3. Download!Min({a, b}) = m
    BY <1>1, <1>2 DEF Download!Min
<1> QED BY <1>3 DEF m

LEMMA FirstOf ==
    ASSUME NEW a \in Int, NEW b \in Int, a <= b
    PROVE  Download!Min(a .. b) = a
<1>1. a \in a .. b /\ \A y \in a .. b : a <= y
    OBVIOUS
<1>2. \A x \in a .. b : (\A y \in a .. b : x <= y) => x = a
    BY <1>1
<1> QED BY <1>1, <1>2 DEF Download!Min

LEMMA CandleCount ==
    ASSUME NEW a \in Int, NEW b \in Int
    PROVE  Download!Cardinality(a .. b) = IF a > b THEN 0 ELSE b - a + 1
<1>1. Download!Cardinality(a .. b) = Cardinality(a .. b)
    BY Zenon DEF Cardinality, Download!Cardinality
<1> QED BY <1>1, FS_Interval

LEMMA RowCount ==
    ASSUME NEW a \in Nat, NEW b \in Nat, a <= b
    PROVE  Download!Cardinality(a + 1 .. b) = b - a
<1>1. a + 1 \in Int /\ b \in Int
    OBVIOUS
<1>2. Download!Cardinality(a + 1 .. b) = IF a + 1 > b THEN 0 ELSE b - (a + 1) + 1
    BY <1>1, CandleCount, Zenon
<1> QED BY <1>2

(* A task has the candles after the newest one of its next page, and pages as
   long as they are fewer than asked for. *)
WholeInv ==
    /\ dlPc \in [Series -> Download!PCs]
    /\ rows \in [Series -> SUBSET Nat] /\ file \in [Series -> SUBSET Nat]
    /\ end \in [Series -> Nat]
    /\ \A s \in Series :
        /\ end[s] <= History[s]
        /\ dlPc[s] \in {"queued", "page", "request", "assemble", "fetched"} =>
              rows[s] = end[s] + 1 .. History[s]
        /\ dlPc[s] \in {"queued", "page", "request"} => History[s] - end[s] < Limit
        /\ dlPc[s] \in {"assemble", "fetched"} =>
              \/ History[s] - end[s] = Limit
              \/ History[s] - end[s] < Limit /\ (end[s] = 0 \/ "ban" \in Faults)

(* WholeInv is what a queued task starts with. *)
LEMMA DownloadInitially == ASSUME Download!DownloadAssumption, Download!Init PROVE WholeInv
<1>1. end = History /\ History \in [Series -> Nat] /\ Limit \in Nat \ {0}
    BY DEF Download!Init, Download!DownloadAssumption
<1>2. \A n \in Nat : {} = n + 1 .. n
    OBVIOUS
<1>3. rows = [s \in Series |-> {}] /\ dlPc = [s \in Series |-> "queued"]
    BY DEF Download!Init
<1>4. file \in [Series -> SUBSET Nat]
  <2>1. \A s \in Series : file[s] \subseteq Nat /\ History[s] \in Nat
      BY <1>1 DEF Download!Init
  <2> QED BY <2>1 DEF Download!Init
<1> QED BY <1>1, <1>2, <1>3, <1>4 DEF WholeInv, Download!PCs

(* An answered page continues the rows downwards: it ends the paging at the
   oldest candle or at the limit. *)
LEMMA AnswerStep ==
    ASSUME Download!DownloadAssumption, WholeInv, NEW s \in Series, Download!Answer(s)
    PROVE  WholeInv'
<1> DEFINE e == end[s]
           h == History[s]
           size == Download!PageSize(s)
           low == Download!Max({1, e - size + 1})
<1>1. /\ e \in Nat /\ h \in Nat /\ e <= h /\ h - e < Limit
      /\ Limit \in Nat \ {0} /\ PageMax \in Nat \ {0}
      /\ dlPc[s] = "request" /\ rows[s] = e + 1 .. h
    BY DEF Download!DownloadAssumption, WholeInv, Download!Answer
<1>2. size \in 1 .. Limit - (h - e)
  <2>1. Download!Cardinality(rows[s]) = h - e
    <3> HIDE DEF e, h
    <3>1. Download!Cardinality(e + 1 .. h) = h - e
        BY <1>1, RowCount
    <3> QED BY <1>1, <3>1
  <2>2. size = Download!Min({Limit - (h - e), PageMax})
      BY <2>1, Zenon DEF Download!PageSize
  <2> HIDE DEF size, e, h
  <2>3. Limit - (h - e) \in Int /\ PageMax \in Int
      BY <1>1
  <2>4. size = IF Limit - (h - e) <= PageMax THEN Limit - (h - e) ELSE PageMax
      BY <2>2, <2>3, SmallerOf, Zenon
  <2> QED BY <1>1, <2>4
<1>3. low = (IF 1 >= e - size + 1 THEN 1 ELSE e - size + 1) /\ Download!Page(s) = low .. e
  <2>1. e - size + 1 \in Int /\ 1 \in Int
      BY <1>1, <1>2
  <2> QED BY <2>1, LargerOf, Zenon DEF Download!Page
<1>4. /\ rows' = [rows EXCEPT ![s] = @ \cup (low .. e)]
      /\ end' = [end EXCEPT ![s] = IF low .. e = {} THEN @ ELSE Download!NextEnd(low .. e)]
      /\ dlPc' = [dlPc EXCEPT ![s] = IF \/ Download!Cardinality(low .. e) < size
                                        \/ Download!Cardinality(rows'[s]) = Limit
                                     THEN "assemble" ELSE "page"]
      /\ UNCHANGED file
    BY <1>3 DEF Download!Answer, Download!Goto, Download!files
<1> HIDE DEF size, low
<1>5. end'[s] = (IF e = 0 THEN 0 ELSE low - 1) /\ rows'[s] = end'[s] + 1 .. h
  <2>1. CASE e = 0
    <3>1. low .. e = {} /\ (e + 1 .. h) \cup {} = e + 1 .. h
        BY <1>1, <1>2, <1>3, <2>1
    <3> QED BY <1>1, <1>4, <2>1, <3>1 DEF WholeInv
  <2>2. CASE e # 0
    <3>1. low \in 1 .. e
        BY <1>1, <1>2, <1>3, <2>2
    <3>2. low .. e # {} /\ Download!NextEnd(low .. e) = low - 1
        BY <1>1, <3>1, FirstOf DEF Download!NextEnd
    <3>3. (e + 1 .. h) \cup (low .. e) = low .. h
        BY <1>1, <3>1
    <3> QED BY <1>1, <1>4, <2>2, <3>1, <3>2, <3>3 DEF WholeInv
  <2> QED BY <2>1, <2>2
<1>6. end'[s] \in 0 .. e /\ h - end'[s] <= Limit
    BY <1>1, <1>2, <1>3, <1>5
<1>7. Download!Cardinality(rows'[s]) = h - end'[s]
  <2>1. end'[s] \in Nat /\ end'[s] <= h
      BY <1>1, <1>6
  <2> QED BY <1>1, <1>5, <2>1, RowCount, Zenon
<1>8. Download!Cardinality(low .. e) < size => end'[s] = 0
  <2>1. Download!Cardinality(low .. e) = IF low > e THEN 0 ELSE e - low + 1
    <3>1. low \in Int /\ e \in Int
        BY <1>1, <1>2, <1>3
    <3> QED BY <3>1, CandleCount, Zenon
  <2> QED BY <1>1, <1>2, <1>3, <1>5, <2>1
<1>9. /\ dlPc'[s] \in {"assemble", "page"}
      /\ dlPc'[s] = "assemble" => end'[s] = 0 \/ h - end'[s] = Limit
      /\ dlPc'[s] = "page" => h - end'[s] # Limit
    BY <1>4, <1>7, <1>8 DEF WholeInv
<1>10. rows'[s] \subseteq Nat
    BY <1>1, <1>5, <1>6
<1>11. /\ dlPc' \in [Series -> Download!PCs] /\ rows' \in [Series -> SUBSET Nat]
       /\ end' \in [Series -> Nat] /\ file' \in [Series -> SUBSET Nat]
    BY <1>1, <1>4, <1>6, <1>9, <1>10 DEF WholeInv, Download!PCs
<1>12. \A u \in Series \ {s} : dlPc'[u] = dlPc[u] /\ rows'[u] = rows[u] /\ end'[u] = end[u]
    BY <1>4 DEF WholeInv
<1>13. /\ end'[s] <= h /\ rows'[s] = end'[s] + 1 .. h
       /\ dlPc'[s] = "page" => h - end'[s] < Limit
       /\ dlPc'[s] = "assemble" =>
            h - end'[s] = Limit \/ (h - end'[s] < Limit /\ end'[s] = 0)
    BY <1>1, <1>5, <1>6, <1>9
<1> QED BY <1>9, <1>11, <1>12, <1>13 DEF WholeInv

(* WholeInv is inductive. *)
LEMMA DownloadStep ==
    ASSUME Download!DownloadAssumption, WholeInv, [Download!Next]_Download!vars
    PROVE  WholeInv'
<1> USE DEF WholeInv, Download!task, Download!files, Download!Goto, Download!PCs
<1>1. ASSUME UNCHANGED <<dlPc, rows, end, file>> PROVE WholeInv'
    BY <1>1
<1>2. ASSUME NEW s \in Series, NEW l \in {"page", "request", "raised", "assemble"},
             dlPc[s] \in {"queued", "page", "request"},
             l = "assemble" => "ban" \in Faults,
             Download!Goto(s, l), UNCHANGED <<rows, end, file>>
      PROVE  WholeInv'
    BY <1>2
<1>3. ASSUME NEW s \in Series, Download!Used(s, file[s], "cached"), UNCHANGED <<end, file>>
      PROVE  WholeInv'
    BY <1>3 DEF Download!Used
<1>4. ASSUME NEW s \in Series, Download!Start(s) PROVE WholeInv'
    BY <1>2, <1>3, <1>4 DEF Download!Start
<1>5. ASSUME NEW s \in Series, Download!Acquire(s) PROVE WholeInv'
    BY <1>2, <1>5 DEF Download!Acquire
<1>6. ASSUME NEW s \in Series, Download!Fails(s) \/ Download!Banned(s) PROVE WholeInv'
    BY <1>2, <1>6 DEF Download!Fails, Download!Banned
<1>7. ASSUME NEW s \in Series, Download!Assemble(s) PROVE WholeInv'
  <2>1. CASE rows[s] = {}
      BY <1>3, <1>7, <2>1 DEF Download!Assemble
  <2>2. CASE rows[s] # {}
      BY <1>7, <2>2 DEF Download!Assemble, Download!Used
  <2> QED BY <2>1, <2>2
<1>8. ASSUME NEW s \in Series, Download!Recover(s) PROVE WholeInv'
    BY <1>3, <1>8 DEF Download!Recover
<1>9. ASSUME NEW s \in Series, Download!Collect(s) PROVE WholeInv'
    BY <1>1, <1>9 DEF Download!Collect
<1>10. CASE Download!PhaseEnds \/ Download!Tick \/ UNCHANGED Download!vars
    BY <1>1, <1>10 DEF Download!PhaseEnds, Download!Tick, Download!vars
<1> QED BY <1>4, <1>5, <1>6, <1>7, <1>8, <1>9, <1>10, AnswerStep DEF Download!Next, Download!Step

(* A downloaded series has no hole and ends with the newest candle, for any page
   size, limit, history, number of workers and attempts, and however requests
   fail; unless bans ended the paging it is as long as was asked for, or as the
   exchange has (backtest/backtest.py:379-425). *)
THEOREM WholeTheorem ==
    ASSUME Download!DownloadAssumption PROVE Download!Spec => []Download!SeriesWhole
<1>1. WholeInv => Download!SeriesWhole
  <2> SUFFICES ASSUME WholeInv, NEW s \in Series, dlPc[s] = "fetched"
               PROVE  /\ rows[s] = Download!Newest(s, Download!Cardinality(rows[s]))
                      /\ "ban" \notin Faults => rows[s] = Download!Newest(s, Limit)
      BY DEF Download!SeriesWhole
  <2>1. /\ rows[s] = end[s] + 1 .. History[s] /\ end[s] \in Nat /\ end[s] <= History[s]
        /\ History[s] \in Nat /\ Limit \in Nat
      BY DEF WholeInv, Download!DownloadAssumption
  <2>2. Download!Cardinality(rows[s]) = History[s] - end[s]
      BY <2>1, RowCount, Zenon
  <2>3. \A n \in Nat : Download!Newest(s, n) =
            (IF 1 >= History[s] - n + 1 THEN 1 ELSE History[s] - n + 1) .. History[s]
    <3>1. \A n \in Nat : History[s] - n + 1 \in Int
        BY <2>1
    <3> QED BY <3>1, LargerOf, 1 \in Int, Zenon DEF Download!Newest
  <2>4. rows[s] = Download!Newest(s, Download!Cardinality(rows[s]))
    <3> DEFINE n == Download!Cardinality(rows[s])
    <3>1. n \in Nat /\ (IF 1 >= History[s] - n + 1 THEN 1 ELSE History[s] - n + 1) = end[s] + 1
        BY <2>1, <2>2
    <3> QED BY <2>1, <2>3, <3>1, Zenon
  <2>5. ASSUME "ban" \notin Faults PROVE rows[s] = Download!Newest(s, Limit)
    <3>1. \/ History[s] - end[s] = Limit
          \/ (History[s] - end[s] < Limit /\ end[s] = 0)
        BY <2>5 DEF WholeInv
    <3>2. (IF 1 >= History[s] - Limit + 1 THEN 1 ELSE History[s] - Limit + 1) = end[s] + 1
        BY <2>1, <3>1
    <3> QED BY <2>1, <2>3, <3>2, Zenon
  <2> QED BY <2>4, <2>5
<1> QED BY <1>1, DownloadInitially, DownloadStep, PTL DEF Download!Spec

-----------------------------------------------------------------------------
(* BacktestSimulation.                                                     *)

CONSTANTS Symbols, SeriesOf, Length, MinWarm, MaxWarm, Hold, Skip, ContextPeriod, Gains, MayFail
VARIABLES simPc, interval, candle, touched, context, position, trades, simPhase,
          merged, collected, report

Simulation == INSTANCE BacktestSimulation
    WITH pc <- simPc, series <- interval, i <- candle, phase <- simPhase

Touches == SUBSET {"tp", "stop"}
Trades == [symbol : Symbols, series : Nat, entry : Nat, exit : Nat,
           result : Simulation!Results, pnl : Int, touched : Seq(Touches),
           context : SUBSET Nat]

ContextUpTo(n) == {m * ContextPeriod : m \in 1 .. n}
LastOf(entry) == IF entry + Hold <= Length - 1 THEN entry + Hold ELSE Length - 1

(* What TradesTrue says of a trade. *)
TradeTrue(t) ==
    /\ t.context = {c \in 1 .. t.entry : c % ContextPeriod = 0}
    /\ t.exit \in t.entry + 1 .. LastOf(t.entry)
    /\ Len(t.touched) = t.exit - t.entry
    /\ \A c \in 1 .. Len(t.touched) - 1 : t.touched[c] = {}
    /\ (t.result = "WIN") = (t.touched[Len(t.touched)] = {"tp"})
    /\ t.result = "TIMEOUT" => t.exit = LastOf(t.entry) /\ t.touched[Len(t.touched)] = {}

SimulationTypes ==
    /\ simPc \in [Symbols -> {"walk", "scan", "returned", "raised"}]
    /\ interval \in [Symbols -> Nat] /\ candle \in [Symbols -> Nat]
    /\ touched \in [Symbols -> Seq(Touches)]
    /\ context \in [Symbols -> SUBSET Nat] /\ position \in [Symbols -> Int]
    /\ trades \in [Symbols -> Seq(Trades)]

(* The context at hand is that of prev_ctx_pos, which is the one of the candle
   while its trade is scanned; the candles scanned so far touched nothing and
   are not the last. *)
WalkInv(s) ==
    /\ position[s] = -1 \/ (position[s] \in Nat /\ context[s] = ContextUpTo(position[s]))
    /\ simPc[s] = "walk" => touched[s] = <<>>
    /\ simPc[s] = "scan" =>
        /\ context[s] = ContextUpTo(Simulation!ContextPosition(candle[s]))
        /\ candle[s] + Len(touched[s]) < LastOf(candle[s])
        /\ \A c \in 1 .. Len(touched[s]) : touched[s][c] = {}
    /\ \A k \in 1 .. Len(trades[s]) : TradeTrue(trades[s][k])

SimulationInv == SimulationTypes /\ \A s \in Symbols : WalkInv(s)

LEMMA SimulationConstants ==
    ASSUME Simulation!SimulationAssumption
    PROVE  /\ {Length, MinWarm, MaxWarm} \subseteq Nat
           /\ SeriesOf \in Nat \ {0} /\ Hold \in Nat \ {0} /\ Skip \in Nat \ {0}
           /\ ContextPeriod \in Nat \ {0}
           /\ Gains \in [Simulation!Results -> SUBSET Int]
BY DEF Simulation!SimulationAssumption

(* The context candles that have closed by a candle are the multiples of their
   period up to it. *)
LEMMA ContextLemma ==
    ASSUME ContextPeriod \in Nat \ {0}, NEW n \in Nat
    PROVE  /\ Simulation!ContextPosition(n) \in Nat
           /\ ContextUpTo(Simulation!ContextPosition(n)) =
                {c \in 1 .. n : c % ContextPeriod = 0}
<1> DEFINE q == n \div ContextPeriod
<1>1. q \in Nat /\ Simulation!ContextPosition(n) = q
    BY DivMod DEF Simulation!ContextPosition
<1>2. ASSUME NEW m \in 1 .. q
      PROVE  m * ContextPeriod \in 1 .. n /\ (m * ContextPeriod) % ContextPeriod = 0
  <2>1. m \in Nat /\ m >= 1 /\ m <= q
      BY <1>1, <1>2
  <2>2. m * ContextPeriod <= n
      BY <2>1, DivLe
  <2>3. m * ContextPeriod \in Nat /\ m * ContextPeriod >= 1
      BY <2>1
  <2> QED BY <2>1, <2>2, <2>3, MultipleMod
<1>3. ASSUME NEW c \in 1 .. n, c % ContextPeriod = 0
      PROVE  \E m \in 1 .. q : c = m * ContextPeriod
  <2> DEFINE m == c \div ContextPeriod
  <2>1. m \in Nat /\ c = ContextPeriod * m
      BY <1>3, DivMod
  <2> HIDE DEF m
  <2>2. c = m * ContextPeriod /\ m # 0
      BY <2>1
  <2>3. m <= q
      BY <2>1, <2>2, DivLe
  <2> QED BY <1>1, <2>1, <2>2, <2>3
<1> HIDE DEF q
<1> QED BY <1>1, <1>2, <1>3 DEF ContextUpTo

(* The last candle a trade may be held to. *)
LEMMA LastCandleOf ==
    ASSUME Simulation!SimulationAssumption, NEW n \in Nat
    PROVE  Simulation!Min({n + Hold, Length - 1}) = LastOf(n) /\ LastOf(n) \in Int
<1>1. n + Hold \in Int /\ Length - 1 \in Int
    BY SimulationConstants
<1>2. Simulation!Min({n + Hold, Length - 1}) = Download!Min({n + Hold, Length - 1})
    BY Zenon DEF Simulation!Min, Download!Min
<1> QED BY <1>1, <1>2, SmallerOf, Zenon DEF LastOf

LEMMA FirstCandleType ==
    ASSUME Simulation!SimulationAssumption PROVE Simulation!FirstCandle \in Nat
<1> DEFINE half == Simulation!Max({MinWarm, Length \div 2})
<1>1. MinWarm \in Nat /\ MaxWarm \in Nat /\ Length \div 2 \in Nat
    BY SimulationConstants
<1>2. half = Download!Max({MinWarm, Length \div 2})
    BY Zenon DEF Simulation!Max, Download!Max
<1>3. half = IF MinWarm >= Length \div 2 THEN MinWarm ELSE Length \div 2
    BY <1>1, <1>2, LargerOf
<1>4. half \in Nat
    BY <1>1, <1>3
<1> HIDE DEF half
<1>5. Simulation!Min({MaxWarm, half}) = Download!Min({MaxWarm, half})
    BY Zenon DEF Simulation!Min, Download!Min
<1>6. Download!Min({MaxWarm, half}) = IF MaxWarm <= half THEN MaxWarm ELSE half
    BY <1>1, <1>4, SmallerOf
<1> QED BY <1>1, <1>4, <1>5, <1>6 DEF Simulation!FirstCandle, half

LEMMA SimulationInitially ==
    ASSUME Simulation!SimulationAssumption, Simulation!Init PROVE SimulationInv
BY FirstCandleType, SimulationConstants
   DEF Simulation!Init, SimulationInv, SimulationTypes, WalkInv

(* The trade that ends is a true one. *)
LEMMA TradeEndsStep ==
    ASSUME Simulation!SimulationAssumption, SimulationInv, NEW s \in Symbols,
           NEW touches \in Touches, NEW pnl \in Int, Simulation!TradeEnds(s, touches, pnl)
    PROVE  SimulationInv'
<1> DEFINE seen == touched[s]
           n == candle[s]
           trade == [symbol |-> s, series |-> interval[s], entry |-> n,
                     exit |-> n + Len(seen) + 1,
                     result |-> Simulation!Outcome(touches), pnl |-> pnl,
                     touched |-> Append(seen, touches), context |-> context[s]]
<1>1. /\ n \in Nat /\ seen \in Seq(Touches) /\ Len(seen) \in Nat
      /\ simPc[s] = "scan" /\ context[s] \subseteq Nat /\ interval[s] \in Nat
      /\ context[s] = ContextUpTo(Simulation!ContextPosition(n))
      /\ n + Len(seen) < LastOf(n)
      /\ \A c \in 1 .. Len(seen) : seen[c] = {}
    BY DEF Simulation!TradeEnds, SimulationInv, SimulationTypes, WalkInv
<1>2. /\ trades' = [trades EXCEPT ![s] = Append(@, trade)]
      /\ touched' = [touched EXCEPT ![s] = <<>>]
      /\ simPc' = [simPc EXCEPT ![s] = "walk"]
      /\ candle' = [candle EXCEPT ![s] = @ + Skip]
      /\ UNCHANGED <<interval, context, position>>
      /\ touches # {} \/ n + Len(seen) + 1 = LastOf(n)
    BY <1>1, LastCandleOf DEF Simulation!TradeEnds, Simulation!LastCandle
<1>3. /\ Append(seen, touches) \in Seq(Touches)
      /\ Len(Append(seen, touches)) = Len(seen) + 1
      /\ Append(seen, touches)[Len(seen) + 1] = touches
      /\ \A c \in 1 .. Len(seen) : Append(seen, touches)[c] = seen[c]
    BY <1>1
<1>4. /\ Simulation!Outcome(touches) \in Simulation!Results
      /\ (Simulation!Outcome(touches) = "WIN") = (touches = {"tp"})
      /\ Simulation!Outcome(touches) = "TIMEOUT" => touches = {}
  <2>1. CASE "stop" \in touches
      BY <2>1 DEF Simulation!Outcome, Simulation!Results
  <2>2. CASE "stop" \notin touches /\ "tp" \in touches
    <3>1. touches = {"tp"}
        BY <2>2 DEF Touches
    <3> QED BY <2>2, <3>1 DEF Simulation!Outcome, Simulation!Results
  <2>3. CASE "stop" \notin touches /\ "tp" \notin touches
    <3>1. touches = {}
        BY <2>3 DEF Touches
    <3> QED BY <2>3, <3>1 DEF Simulation!Outcome, Simulation!Results
  <2> QED BY <2>1, <2>2, <2>3
<1>5. trade \in Trades
    BY <1>1, <1>3, <1>4 DEF Trades
<1>6. TradeTrue(trade)
  <2>1. trade.context = {c \in 1 .. n : c % ContextPeriod = 0}
      BY <1>1, ContextLemma, SimulationConstants
  <2>2. n + Len(seen) + 1 \in n + 1 .. LastOf(n)
    <3>1. LastOf(n) \in Int
        BY <1>1, LastCandleOf, Zenon
    <3> HIDE DEF n, seen
    <3> QED BY <1>1, <3>1
  <2>3. Len(seen) + 1 - 1 = Len(seen)
      BY <1>1
  <2>4. /\ trade.entry = n /\ trade.exit = n + Len(seen) + 1
        /\ trade.result = Simulation!Outcome(touches) /\ trade.touched = Append(seen, touches)
      OBVIOUS
  <2> HIDE DEF trade, n, seen
  <2>5. Len(trade.touched) = Len(seen) + 1 /\ trade.touched[Len(trade.touched)] = touches
      BY <1>3, <2>4
  <2>6. \A c \in 1 .. Len(trade.touched) - 1 : trade.touched[c] = {}
      BY <1>1, <1>3, <2>3, <2>4, <2>5
  <2>7. trade.result = "TIMEOUT" => trade.exit = LastOf(trade.entry)
      BY <1>2, <1>4, <2>4
  <2>8. (trade.result = "WIN") = (trade.touched[Len(trade.touched)] = {"tp"})
      BY <1>4, <2>4, <2>5
  <2>9. trade.result = "TIMEOUT" => trade.touched[Len(trade.touched)] = {}
      BY <1>4, <2>4, <2>5
  <2>10. /\ trade.context = {c \in 1 .. trade.entry : c % ContextPeriod = 0}
         /\ trade.exit \in trade.entry + 1 .. LastOf(trade.entry)
         /\ Len(trade.touched) = trade.exit - trade.entry
    <3>1. trade.context = {c \in 1 .. trade.entry : c % ContextPeriod = 0}
        BY <2>1, <2>4, Zenon
    <3>2. trade.exit \in trade.entry + 1 .. LastOf(trade.entry)
        BY <2>2, <2>4, Zenon
    <3>3. Len(trade.touched) = trade.exit - trade.entry
        BY <1>1, <2>4, <2>5
    <3> QED BY <3>1, <3>2, <3>3
  <2> QED BY <2>6, <2>7, <2>8, <2>9, <2>10, Zenon DEF TradeTrue
<1> HIDE DEF trade
<1>7. SimulationTypes'
  <2>1. candle[s] + Skip \in Nat
      BY <1>1, SimulationConstants
  <2>2. <<>> \in Seq(Touches)
      OBVIOUS
  <2>3. trades[s] \in Seq(Trades) /\ Append(trades[s], trade) \in Seq(Trades)
      BY <1>5 DEF SimulationInv, SimulationTypes
  <2> QED BY <1>2, <2>1, <2>2, <2>3 DEF SimulationInv, SimulationTypes
<1>8. ASSUME NEW u \in Symbols PROVE WalkInv(u)'
  <2>1. trades[u] \in Seq(Trades) /\ WalkInv(u)
      BY DEF SimulationInv, SimulationTypes
  <2>2. CASE u # s
      BY <1>2, <2>1, <2>2 DEF SimulationInv, SimulationTypes, WalkInv
  <2>3. CASE u = s
    <3>1. trades'[s] = Append(trades[s], trade)
        BY <1>2 DEF SimulationInv, SimulationTypes
    <3>2. \A k \in 1 .. Len(trades'[s]) : TradeTrue(trades'[s][k])
        BY <1>5, <1>6, <2>1, <2>3, <3>1 DEF WalkInv
    <3>3. touched'[s] = <<>> /\ simPc'[s] = "walk" /\ UNCHANGED <<position[s], context[s]>>
        BY <1>2 DEF SimulationInv, SimulationTypes
    <3> QED BY <2>1, <2>3, <3>2, <3>3 DEF WalkInv
  <2> QED BY <2>2, <2>3
<1> QED BY <1>7, <1>8 DEF SimulationInv

(* SimulationInv is inductive. *)
LEMMA SimulationStep ==
    ASSUME Simulation!SimulationAssumption, SimulationInv,
           [Simulation!Next]_Simulation!vars
    PROVE  SimulationInv'
<1> USE SimulationConstants DEF SimulationInv, SimulationTypes
<1>1. CASE UNCHANGED <<simPc, interval, candle, touched, context, position, trades>>
    BY <1>1 DEF WalkInv
<1>2. ASSUME NEW s \in Symbols, Simulation!Pass(s) \/ Simulation!Signal(s)
      PROVE  SimulationInv'
  <2> DEFINE closed == Simulation!ContextPosition(candle[s])
  <2>0. candle[s] \in Nat /\ ContextPeriod \in Nat \ {0}
      OBVIOUS
  <2>k. closed \in Nat /\ ContextUpTo(closed) \subseteq Nat
    <3>1. /\ closed \in Nat
          /\ ContextUpTo(closed) = {c \in 1 .. candle[s] : c % ContextPeriod = 0}
        BY <2>0, ContextLemma, Zenon
    <3> HIDE DEF closed
    <3> QED BY <2>0, <3>1
  <2>1. /\ position' = [position EXCEPT ![s] = closed]
        /\ context' = IF closed = position[s] THEN context
                      ELSE [context EXCEPT ![s] = ContextUpTo(closed)]
        /\ simPc[s] = "walk" /\ candle[s] < Length - 1
        /\ UNCHANGED <<interval, touched, trades>>
      BY <1>2
         DEF Simulation!Pass, Simulation!Signal, Simulation!SeeContext, Simulation!Walking,
             ContextUpTo
  <2> HIDE DEF closed
  <2>3. context'[s] = ContextUpTo(closed) /\ context' \in [Symbols -> SUBSET Nat]
        /\ position' \in [Symbols -> Int] /\ position'[s] = closed
      BY <2>k, <2>1 DEF WalkInv
  <2>4. CASE Simulation!Pass(s)
    <3>1. /\ candle' = [candle EXCEPT ![s] = @ + 1] /\ UNCHANGED simPc
          /\ candle' \in [Symbols -> Nat]
        BY <2>4 DEF Simulation!Pass
    <3>2. ASSUME NEW u \in Symbols PROVE WalkInv(u)'
        BY <2>k, <2>1, <2>3, <3>1 DEF WalkInv
    <3> QED BY <2>1, <2>3, <3>1, <3>2
  <2>5. CASE Simulation!Signal(s)
    <3>1. /\ simPc' = [simPc EXCEPT ![s] = "scan"] /\ UNCHANGED candle
        BY <2>5 DEF Simulation!Signal
    <3>2. candle[s] + Len(<<>>) < LastOf(candle[s])
        BY <2>1 DEF LastOf
    <3>3. ASSUME NEW u \in Symbols, u # s PROVE WalkInv(u)'
        BY <2>1, <3>1, <3>3 DEF WalkInv
    <3>4. WalkInv(s)'
        BY <2>k, <2>1, <2>3, <3>1, <3>2 DEF WalkInv, closed
    <3>5. SimulationTypes'
        BY <2>1, <2>3, <3>1
    <3> QED BY <3>3, <3>4, <3>5
  <2> QED BY <1>2, <2>4, <2>5
<1>3. ASSUME NEW s \in Symbols, Simulation!Untouched(s) PROVE SimulationInv'
  <2>1. /\ simPc[s] = "scan" /\ touched' = [touched EXCEPT ![s] = Append(@, {})]
        /\ candle[s] + Len(touched[s]) + 1 < LastOf(candle[s])
        /\ UNCHANGED <<simPc, interval, candle, context, position, trades>>
      BY <1>3, LastCandleOf DEF Simulation!Untouched, Simulation!LastCandle
  <2>2. /\ Append(touched[s], {}) \in Seq(Touches)
        /\ Len(Append(touched[s], {})) = Len(touched[s]) + 1
        /\ \A c \in 1 .. Len(touched[s]) + 1 :
              Append(touched[s], {})[c] = IF c = Len(touched[s]) + 1 THEN {} ELSE touched[s][c]
    <3>1. {} \in Touches /\ touched[s] \in Seq(Touches)
        BY DEF Touches
    <3> QED BY <3>1
  <2>3. \A c \in 1 .. Len(touched'[s]) : touched'[s][c] = {}
      BY <2>1, <2>2 DEF WalkInv
  <2>4. candle[s] + Len(touched'[s]) < LastOf(candle[s])
      BY <2>1, <2>2
  <2> QED BY <2>1, <2>2, <2>3, <2>4 DEF WalkInv
<1>4. ASSUME NEW s \in Symbols, Simulation!SeriesEnds(s) PROVE SimulationInv'
  <2>1. /\ simPc[s] = "walk" /\ UNCHANGED <<touched, trades>>
        /\ \/ /\ interval' = [interval EXCEPT ![s] = @ + 1]
              /\ candle' = [candle EXCEPT ![s] = Simulation!FirstCandle]
              /\ context' = [context EXCEPT ![s] = {}]
              /\ position' = [position EXCEPT ![s] = -1]
              /\ UNCHANGED simPc
           \/ /\ simPc' = [simPc EXCEPT ![s] = "returned"]
              /\ UNCHANGED <<interval, candle, context, position>>
      BY <1>4, Zenon DEF Simulation!SeriesEnds
  <2>2. SimulationTypes'
    <3>1. Simulation!FirstCandle \in Nat /\ interval[s] + 1 \in Nat /\ -1 \in Int
        BY FirstCandleType
    <3>2. CASE UNCHANGED <<interval, candle, context, position>>
        BY <2>1, <3>2
    <3>3. CASE interval' = [interval EXCEPT ![s] = @ + 1]
        BY <2>1, <3>1, <3>3
    <3> QED BY <2>1, <3>2, <3>3
  <2>3. ASSUME NEW u \in Symbols PROVE WalkInv(u)'
      BY <2>1 DEF WalkInv
  <2> QED BY <2>2, <2>3
<1>5. ASSUME NEW s \in Symbols, Simulation!Raise(s) PROVE SimulationInv'
    BY <1>5 DEF Simulation!Raise, WalkInv
<1>6. ASSUME NEW s \in Symbols, NEW touches \in Touches,
             NEW pnl \in UNION {Gains[r] : r \in Simulation!Results},
             Simulation!TradeEnds(s, touches, pnl)
      PROVE  SimulationInv'
  <2>1. pnl \in Int
      BY <1>6
  <2> QED BY <1>6, <2>1, TradeEndsStep
<1>7. CASE Simulation!Next
  <2>1. ASSUME NEW s \in Symbols, Simulation!Step(s) PROVE SimulationInv'
      BY <1>2, <1>3, <1>4, <1>5, <1>6, <2>1 DEF Simulation!Step, Touches
  <2>2. ASSUME NEW s \in Symbols, Simulation!Collect(s) PROVE SimulationInv'
      BY <1>1, <2>2 DEF Simulation!Collect
  <2>3. CASE Simulation!PhaseEnds \/ Simulation!Report
      BY <1>1, <2>3 DEF Simulation!PhaseEnds, Simulation!Report
  <2> QED BY <1>7, <2>1, <2>2, <2>3 DEF Simulation!Next
<1> QED BY <1>1, <1>7 DEF Simulation!vars

(* Each simulated trade is one a trader could have made: its context candles had
   closed, its result is that of the first candle that touched a price, and it
   times out at the last candle it may be held, for any lengths, periods and
   outcomes and whatever tasks fail (backtest/backtest.py:540-546, 664-707). *)
THEOREM TradesTheorem ==
    ASSUME Simulation!SimulationAssumption PROVE Simulation!Spec => []Simulation!TradesTrue
<1>1. SimulationInv => Simulation!TradesTrue
  <2> SUFFICES ASSUME SimulationInv, NEW s \in Symbols, NEW k \in DOMAIN trades[s],
                      NEW t, t = trades[s][k]
               PROVE  LET last == Simulation!Min({t.entry + Hold, Length - 1})
                      IN  /\ t.context = {c \in 1 .. t.entry : c % ContextPeriod = 0}
                          /\ t.exit \in t.entry + 1 .. last
                          /\ Len(t.touched) = t.exit - t.entry
                          /\ \A c \in 1 .. Len(t.touched) - 1 : t.touched[c] = {}
                          /\ (t.result = "WIN") = (t.touched[Len(t.touched)] = {"tp"})
                          /\ t.result = "TIMEOUT" =>
                               t.exit = last /\ t.touched[Len(t.touched)] = {}
      BY DEF Simulation!TradesTrue
  <2>1. trades[s] \in Seq(Trades) /\ k \in 1 .. Len(trades[s])
      BY DEF SimulationInv, SimulationTypes
  <2>2. TradeTrue(t) /\ t.entry \in Nat
    <3>1. t \in Trades
        BY <2>1
    <3> QED BY <2>1, <3>1 DEF SimulationInv, WalkInv, Trades
  <2>3. Simulation!Min({t.entry + Hold, Length - 1}) = LastOf(t.entry)
      BY <2>2, LastCandleOf
  <2> QED BY <2>2, <2>3 DEF TradeTrue
<1> QED BY <1>1, SimulationInitially, SimulationStep, PTL DEF Simulation!Spec

-----------------------------------------------------------------------------
(* The report.  What a recursive function computes is proved by the least   *)
(* number at which it would compute something else.                         *)

LEMMA LeastNumber ==
    ASSUME NEW T \in SUBSET Nat, T # {}
    PROVE  \E n \in T : \A m \in T : n <= m
<1> DEFINE R == OpToRel(<, Nat)
<1>1. \E x \in T : \A y \in T : ~(<<y, x>> \in R)
    BY NatLessThanWellFounded, WFMin
<1>2. \A x, y \in Nat : <<y, x>> \in R <=> y < x
    BY DEF OpToRel
<1> HIDE DEF R
<1>3. PICK x \in T : \A y \in T : ~(<<y, x>> \in R)
    BY <1>1
<1>4. x \in Nat /\ T \subseteq Nat
    OBVIOUS
<1>5. \A y \in T : ~(y < x)
    BY <1>2, <1>3, <1>4
<1> QED BY <1>4, <1>5

(* f is the equity curve of the first n trades, g the report after each. *)
CurveTo(f, ts, n) == f = [k \in 0 .. n |-> IF k = 0 THEN 0 ELSE f[k - 1] + ts[k].pnl]
AfterTo(g, ts, n) ==
    g = [k \in 0 .. n |-> IF k = 0 THEN Simulation!NoReport
                          ELSE Simulation!Count(g[k - 1], ts[k])]

(* Both exist, since each value rests on the one before it. *)
LEMMA CurveExists ==
    ASSUME NEW ts, NEW n \in Nat PROVE \E f : CurveTo(f, ts, n)
<1> DEFINE T == {m \in Nat : ~ \E f : CurveTo(f, ts, m)}
<1>1. SUFFICES ASSUME T # {} PROVE FALSE
    OBVIOUS
<1>2. PICK m \in T : \A k \in T : m <= k
  <2>1. T \in SUBSET Nat
      OBVIOUS
  <2> HIDE DEF T
  <2> QED BY <1>1, <2>1, LeastNumber
<1>3. m # 0
  <2>1. CurveTo([k \in 0 .. 0 |-> 0], ts, 0)
      BY DEF CurveTo
  <2> QED BY <2>1
<1>4. m - 1 \in Nat /\ m - 1 \notin T
    BY <1>2, <1>3
<1>5. PICK f : CurveTo(f, ts, m - 1)
    BY <1>4
<1> DEFINE g == [k \in 0 .. m |-> IF k = m THEN f[m - 1] + ts[m].pnl ELSE f[k]]
<1>6. CurveTo(g, ts, m)
  <2>1. \A k \in 0 .. m - 1 : f[k] = IF k = 0 THEN 0 ELSE f[k - 1] + ts[k].pnl
      BY <1>5 DEF CurveTo
  <2>2. \A k \in 0 .. m : g[k] = IF k = 0 THEN 0 ELSE g[k - 1] + ts[k].pnl
      BY <1>2, <1>3, <2>1
  <2>3. g = [k \in 0 .. m |-> g[k]]
      OBVIOUS
  <2> HIDE DEF g
  <2> QED BY <2>2, <2>3 DEF CurveTo
<1> QED BY <1>2, <1>6

LEMMA AfterExists ==
    ASSUME NEW ts, NEW n \in Nat PROVE \E g : AfterTo(g, ts, n)
<1> DEFINE T == {m \in Nat : ~ \E g : AfterTo(g, ts, m)}
<1>1. SUFFICES ASSUME T # {} PROVE FALSE
    OBVIOUS
<1>2. PICK m \in T : \A k \in T : m <= k
  <2>1. T \in SUBSET Nat
      OBVIOUS
  <2> HIDE DEF T
  <2> QED BY <1>1, <2>1, LeastNumber
<1>3. m # 0
  <2>1. AfterTo([k \in 0 .. 0 |-> Simulation!NoReport], ts, 0)
      BY DEF AfterTo
  <2> QED BY <2>1
<1>4. m - 1 \in Nat /\ m - 1 \notin T
    BY <1>2, <1>3
<1>5. PICK f : AfterTo(f, ts, m - 1)
    BY <1>4
<1> DEFINE g == [k \in 0 .. m |-> IF k = m THEN Simulation!Count(f[m - 1], ts[m]) ELSE f[k]]
<1>6. AfterTo(g, ts, m)
  <2>1. \A k \in 0 .. m - 1 :
           f[k] = IF k = 0 THEN Simulation!NoReport ELSE Simulation!Count(f[k - 1], ts[k])
      BY <1>5 DEF AfterTo
  <2>2. \A k \in 0 .. m :
           g[k] = IF k = 0 THEN Simulation!NoReport ELSE Simulation!Count(g[k - 1], ts[k])
      BY <1>2, <1>3, <2>1
  <2>3. g = [k \in 0 .. m |-> g[k]]
      OBVIOUS
  <2> HIDE DEF g
  <2> QED BY <2>2, <2>3 DEF AfterTo
<1> QED BY <1>2, <1>6

(* What Equity and Running compute. *)
LEMMA EquityLemma ==
    ASSUME NEW ts \in Seq(Trades), NEW e, e = Simulation!Equity(ts)
    PROVE  /\ e[0] = 0
           /\ \A k \in 1 .. Len(ts) : e[k] = e[k - 1] + ts[k].pnl
           /\ \A k \in 0 .. Len(ts) : e[k] \in Int
<1> DEFINE P(f) == f = [k \in 0 .. Len(ts) |-> IF k = 0 THEN 0 ELSE f[k - 1] + ts[k].pnl]
           curve == CHOOSE f : P(f)
<1>1. \A f : P(f) <=> CurveTo(f, ts, Len(ts))
    BY DEF CurveTo
<1>2. \E f : P(f)
  <2>1. \E f : CurveTo(f, ts, Len(ts))
      BY CurveExists
  <2> HIDE DEF P
  <2> QED BY <1>1, <2>1
<1>3. P(curve)
    BY <1>2
<1>4. e = curve
    BY DEF Simulation!Equity
<1>5. \A k \in 0 .. Len(ts) : e[k] = IF k = 0 THEN 0 ELSE e[k - 1] + ts[k].pnl
    BY <1>3, <1>4
<1>6. e[0] = 0 /\ \A k \in 1 .. Len(ts) : e[k] = e[k - 1] + ts[k].pnl
    BY <1>5
<1> HIDE DEF P, curve
<1> DEFINE T == {k \in 0 .. Len(ts) : e[k] \notin Int}
<1>7. ASSUME T # {} PROVE FALSE
  <2>1. PICK k \in T : \A m \in T : k <= m
    <3>1. T \in SUBSET Nat
        OBVIOUS
    <3> HIDE DEF T
    <3> QED BY <1>7, <3>1, LeastNumber
  <2>2. k # 0
      BY <1>6, <2>1
  <2>3. k \in 1 .. Len(ts) /\ e[k - 1] \in Int
      BY <2>1, <2>2
  <2>4. ts[k].pnl \in Int
    <3>1. ts[k] \in Trades
        BY <2>3
    <3> QED BY <3>1 DEF Trades
  <2> QED BY <1>6, <2>1, <2>3, <2>4
<1> QED BY <1>6, <1>7

LEMMA RunningLemma ==
    ASSUME NEW ts \in Seq(Trades)
    PROVE  \E g : /\ g[0] = Simulation!NoReport
                  /\ \A k \in 1 .. Len(ts) : g[k] = Simulation!Count(g[k - 1], ts[k])
                  /\ Simulation!Running(ts) = g[Len(ts)]
<1> DEFINE P(g) == g = [k \in 0 .. Len(ts) |->
                          IF k = 0 THEN Simulation!NoReport
                          ELSE Simulation!Count(g[k - 1], ts[k])]
           after == CHOOSE g : P(g)
<1>1. \A g : P(g) <=> AfterTo(g, ts, Len(ts))
    BY DEF AfterTo
<1>2. \E g : P(g)
  <2>1. \E g : AfterTo(g, ts, Len(ts))
      BY AfterExists
  <2> HIDE DEF P
  <2> QED BY <1>1, <2>1
<1>3. P(after)
    BY <1>2
<1>4. Simulation!Running(ts) = after[Len(ts)]
    BY DEF Simulation!Running
<1>5. \A k \in 0 .. Len(ts) :
         after[k] = IF k = 0 THEN Simulation!NoReport ELSE Simulation!Count(after[k - 1], ts[k])
    BY <1>3
<1> HIDE DEF after
<1> QED BY <1>4, <1>5
-----------------------------------------------------------------------------
(* The equity curve. *)

LEMMA MaxOf ==
    ASSUME NEW S \in SUBSET Int, NEW m \in S, \A y \in S : m >= y
    PROVE  Simulation!Max(S) = m
<1>1. \A x \in S : (\A y \in S : x >= y) => x = m
    OBVIOUS
<1> QED BY <1>1 DEF Simulation!Max

LEMMA MinOf ==
    ASSUME NEW S \in SUBSET Int, NEW m \in S, \A y \in S : m <= y
    PROVE  Simulation!Min(S) = m
<1>1. \A x \in S : (\A y \in S : x <= y) => x = m
    OBVIOUS
<1> QED BY <1>1 DEF Simulation!Min

(* The highest point of the first n trades. *)
PeakOf(e, n, p) == p \in Int /\ (\A m \in 0 .. n : e[m] <= p) /\ (\E m \in 0 .. n : e[m] = p)

(* The trade of the largest drawdown, the first of them. *)
DeepestAt(e, n, k, low) ==
    /\ Simulation!Drawdown(e, k) = low
    /\ \A j \in 0 .. k - 1 : Simulation!Drawdown(e, j) > low

(* The report after n trades: the flag tells of the peak before the largest
   drawdown, although the loop has forgotten which trade that was. *)
CurveAt(r, e, n) ==
    /\ r.cum = e[n] /\ PeakOf(e, n, r.peak)
    /\ r.maxDd \in Int /\ r.maxDd <= 0 /\ r.inDrawdown \in BOOLEAN
    /\ \A k \in 0 .. n : /\ Simulation!Drawdown(e, k) \in Int
                          /\ r.maxDd <= Simulation!Drawdown(e, k)
    /\ r.maxDd = 0 => ~ r.inDrawdown
    /\ r.maxDd < 0 =>
        \E k \in 1 .. n :
            /\ DeepestAt(e, n, k, r.maxDd) /\ r.ddPeak = e[k] - r.maxDd
            /\ r.inDrawdown <=> \A j \in k .. n : e[j] < r.ddPeak

LEMMA DrawdownOf ==
    ASSUME NEW e, NEW n \in Nat, \A k \in 0 .. n : e[k] \in Int, NEW p, PeakOf(e, n, p)
    PROVE  Simulation!Drawdown(e, n) = e[n] - p
<1> DEFINE S == {e[m] : m \in 0 .. n}
<1>1. S \in SUBSET Int /\ p \in S /\ \A y \in S : p >= y
    BY DEF PeakOf
<1> HIDE DEF S
<1>2. Simulation!Max(S) = p
    BY <1>1, MaxOf
<1> QED BY <1>2 DEF Simulation!Drawdown, S

LEMMA CurveBegins ==
    ASSUME NEW e, e[0] = 0 PROVE CurveAt(Simulation!NoReport, e, 0)
<1>1. 0 .. 0 = {0}
    OBVIOUS
<1>2. PeakOf(e, 0, 0)
    BY <1>1 DEF PeakOf
<1>3. Simulation!Drawdown(e, 0) = 0
    BY <1>1, <1>2, DrawdownOf
<1> QED BY <1>1, <1>2, <1>3 DEF CurveAt, Simulation!NoReport

LEMMA CurveGoesOn ==
    ASSUME NEW e, NEW n \in Nat, \A k \in 0 .. n + 1 : e[k] \in Int,
           NEW r, CurveAt(r, e, n), NEW t, t.pnl \in Int, e[n + 1] = e[n] + t.pnl
    PROVE  CurveAt(Simulation!Count(r, t), e, n + 1)
<1> DEFINE q == Simulation!Count(r, t)
           cum == e[n + 1]
           peak == IF r.peak >= cum THEN r.peak ELSE cum
<1>1. /\ e[n] \in Int /\ cum \in Int /\ r.cum + t.pnl = cum
      /\ \A k \in 0 .. n + 1 : k \in 0 .. n \/ k = n + 1
      /\ PeakOf(e, n, r.peak) /\ r.peak \in Int /\ r.maxDd \in Int /\ r.maxDd <= 0
      /\ n + 1 \in Nat
    BY DEF CurveAt, PeakOf
<1>2. Simulation!Max({r.peak, cum}) = peak /\ peak \in Int
  <2>1. /\ peak \in {r.peak, cum} /\ \A y \in {r.peak, cum} : peak >= y
        /\ {r.peak, cum} \in SUBSET Int
      BY <1>1
  <2> HIDE DEF peak, cum
  <2> QED BY <2>1, MaxOf
<1>3. /\ q.cum = cum /\ q.peak = peak
      /\ q.maxDd = IF cum - peak < r.maxDd THEN cum - peak ELSE r.maxDd
      /\ q.ddPeak = IF cum - peak < r.maxDd THEN peak ELSE r.ddPeak
      /\ q.inDrawdown = ((cum - peak < r.maxDd \/ r.inDrawdown) /\ cum < q.ddPeak)
    BY <1>1, <1>2 DEF Simulation!Count
<1> SUFFICES CurveAt(q, e, n + 1)
    OBVIOUS
<1> HIDE DEF q
<1>4. PeakOf(e, n + 1, peak)
  <2>1. \A m \in 0 .. n : e[m] <= peak
      BY <1>1 DEF PeakOf
  <2>2. \E m \in 0 .. n + 1 : e[m] = peak
      BY <1>1 DEF PeakOf
  <2> HIDE DEF peak
  <2> QED BY <1>1, <1>2, <1>3, <2>1, <2>2 DEF PeakOf, peak
<1>5. Simulation!Drawdown(e, n + 1) = cum - peak
    BY <1>1, <1>4, DrawdownOf
<1>6. cum - peak <= 0 /\ cum - peak \in Int
    BY <1>1
<1> HIDE DEF peak, cum
<1>7. /\ q.inDrawdown \in BOOLEAN
      /\ q.inDrawdown <=> (cum - peak < r.maxDd \/ r.inDrawdown) /\ cum < q.ddPeak
  <2>1. r.inDrawdown \in BOOLEAN
      BY DEF CurveAt
  <2> QED BY <1>3, <2>1
<1>8. \A k \in 0 .. n : r.maxDd <= Simulation!Drawdown(e, k)
    BY DEF CurveAt
<1>9. \A k \in 0 .. n : Simulation!Drawdown(e, k) \in Int
    BY DEF CurveAt
<1>k. q.cum = e[n + 1] /\ PeakOf(e, n + 1, q.peak)
    BY <1>3, <1>4, Zenon DEF cum
<1>10. CASE cum - peak < r.maxDd
  <2>1. q.maxDd = cum - peak /\ q.ddPeak = peak /\ q.maxDd < 0 /\ q.maxDd \in Int
      BY <1>1, <1>2, <1>3, <1>10
  <2>2. q.inDrawdown
      BY <1>1, <1>2, <1>7, <1>10, <2>1
  <2>3. \A k \in 0 .. n : q.maxDd < Simulation!Drawdown(e, k)
      BY <1>1, <1>8, <1>9, <1>10, <2>1
  <2>4. DeepestAt(e, n + 1, n + 1, q.maxDd)
      BY <1>1, <1>5, <2>1, <2>3 DEF DeepestAt
  <2>5. q.ddPeak = e[n + 1] - q.maxDd
      BY <1>1, <1>2, <2>1 DEF cum
  <2>6. \A j \in n + 1 .. n + 1 : e[j] < q.ddPeak
      BY <1>1, <1>2, <2>1, <2>5
  <2>7. \A k \in 0 .. n + 1 : /\ Simulation!Drawdown(e, k) \in Int
                              /\ q.maxDd <= Simulation!Drawdown(e, k)
      BY <1>1, <1>5, <1>6, <1>9, <2>1, <2>3
  <2>8. q.maxDd <= 0 /\ ~(q.maxDd = 0) /\ n + 1 \in 1 .. n + 1
      BY <2>1
  <2> QED BY <1>k, <1>7, <2>1, <2>2, <2>4, <2>5, <2>6, <2>7, <2>8, Zenon DEF CurveAt
<1>11. CASE ~(cum - peak < r.maxDd)
  <2>1. q.maxDd = r.maxDd /\ q.ddPeak = r.ddPeak
      BY <1>3, <1>11
  <2>2. \A k \in 0 .. n + 1 : /\ Simulation!Drawdown(e, k) \in Int
                              /\ q.maxDd <= Simulation!Drawdown(e, k)
      BY <1>1, <1>2, <1>5, <1>6, <1>8, <1>9, <1>11, <2>1
  <2>3. CASE r.maxDd = 0
    <3>1. ~ r.inDrawdown
        BY <2>3 DEF CurveAt
    <3>2. ~ q.inDrawdown
        BY <1>7, <1>11, <3>1
    <3>3. q.maxDd \in Int /\ q.maxDd <= 0 /\ ~(q.maxDd < 0)
        BY <2>1, <2>3
    <3> QED BY <1>k, <1>7, <2>2, <3>2, <3>3, Zenon DEF CurveAt
  <2>4. CASE r.maxDd < 0
    <3>1. PICK k \in 1 .. n :
             /\ DeepestAt(e, n, k, r.maxDd) /\ r.ddPeak = e[k] - r.maxDd
             /\ r.inDrawdown <=> \A j \in k .. n : e[j] < r.ddPeak
        BY <2>4 DEF CurveAt
    <3>2. DeepestAt(e, n + 1, k, q.maxDd)
        BY <2>1, <3>1 DEF DeepestAt
    <3>3. q.inDrawdown <=> \A j \in k .. n + 1 : e[j] < q.ddPeak
      <4>1. \A j \in k .. n + 1 : j \in k .. n \/ j = n + 1
          OBVIOUS
      <4>2. n + 1 \in k .. n + 1 /\ k .. n \subseteq k .. n + 1
          OBVIOUS
      <4> QED BY <1>7, <1>11, <2>1, <3>1, <4>1, <4>2 DEF cum
    <3>4. k \in 1 .. n + 1 /\ q.ddPeak = e[k] - q.maxDd
        BY <2>1, <3>1
    <3>5. q.maxDd \in Int /\ q.maxDd <= 0 /\ ~(q.maxDd = 0)
        BY <1>1, <2>1, <2>4
    <3> QED BY <1>k, <1>7, <2>2, <3>2, <3>3, <3>4, <3>5, Zenon DEF CurveAt
  <2> QED BY <1>1, <2>3, <2>4
<1> QED BY <1>10, <1>11

LEMMA CurveLemma ==
    ASSUME NEW ts \in Seq(Trades), NEW e, e = Simulation!Equity(ts), NEW g,
           g[0] = Simulation!NoReport,
           \A k \in 1 .. Len(ts) : g[k] = Simulation!Count(g[k - 1], ts[k])
    PROVE  \A n \in 0 .. Len(ts) : CurveAt(g[n], e, n)
<1> DEFINE T == {n \in 0 .. Len(ts) : ~ CurveAt(g[n], e, n)}
<1>1. SUFFICES ASSUME T # {} PROVE FALSE
    OBVIOUS
<1>2. PICK n \in T : \A k \in T : n <= k
  <2>1. T \in SUBSET Nat
      OBVIOUS
  <2> HIDE DEF T
  <2> QED BY <1>1, <2>1, LeastNumber
<1>3. /\ e[0] = 0 /\ \A k \in 1 .. Len(ts) : e[k] = e[k - 1] + ts[k].pnl
      /\ \A k \in 0 .. Len(ts) : e[k] \in Int
    BY EquityLemma
<1>4. n # 0
    BY <1>2, <1>3, CurveBegins
<1>5. n - 1 \in Nat /\ CurveAt(g[n - 1], e, n - 1) /\ n \in 1 .. Len(ts) /\ n - 1 + 1 = n
    BY <1>2, <1>4
<1>6. ts[n].pnl \in Int
  <2>1. ts[n] \in Trades
      BY <1>5
  <2> QED BY <2>1 DEF Trades
<1>7. \A k \in 0 .. n - 1 + 1 : e[k] \in Int
    BY <1>3, <1>5
<1>8. CurveAt(Simulation!Count(g[n - 1], ts[n]), e, n - 1 + 1)
  <2>1. e[n - 1 + 1] = e[n - 1] + ts[n].pnl
      BY <1>3, <1>5
  <2> HIDE DEF T
  <2> QED BY <1>5, <1>6, <1>7, <2>1, CurveGoesOn
<1> QED BY <1>2, <1>5, <1>8

(* Drawdown and recovery of the report are those of the curve. *)
LEMMA CurveReported ==
    ASSUME NEW e, NEW n \in Nat, \A k \in 0 .. n : e[k] \in Int, NEW r, CurveAt(r, e, n)
    PROVE  LET deepest == Simulation!Min({Simulation!Drawdown(e, k) : k \in 0 .. n})
               first == Simulation!Min({k \in 0 .. n : Simulation!Drawdown(e, k) = deepest})
           IN  /\ r.cum = e[n] /\ r.maxDd = deepest
               /\ r.inDrawdown =
                    (deepest < 0 /\ \A k \in first .. n : e[k] < e[first] - deepest)
<1> DEFINE S == {Simulation!Drawdown(e, k) : k \in 0 .. n}
           deepest == Simulation!Min(S)
           F == {k \in 0 .. n : Simulation!Drawdown(e, k) = deepest}
           first == Simulation!Min(F)
<1> SUFFICES /\ r.cum = e[n] /\ r.maxDd = deepest
             /\ r.inDrawdown = (deepest < 0 /\ \A k \in first .. n : e[k] < e[first] - deepest)
    OBVIOUS
<1>1. /\ r.cum = e[n] /\ r.maxDd \in Int /\ r.maxDd <= 0 /\ r.inDrawdown \in BOOLEAN
      /\ \A k \in 0 .. n : /\ Simulation!Drawdown(e, k) \in Int
                          /\ r.maxDd <= Simulation!Drawdown(e, k)
    BY DEF CurveAt
<1>2. Simulation!Drawdown(e, 0) = 0
  <2>1. PeakOf(e, 0, e[0])
      BY DEF PeakOf
  <2> QED BY <2>1, DrawdownOf
<1>3. r.maxDd \in S
  <2>1. CASE r.maxDd = 0
      BY <1>2, <2>1
  <2>2. CASE r.maxDd < 0
      BY <2>2 DEF CurveAt, DeepestAt
  <2> QED BY <1>1, <2>1, <2>2
<1>4. S \in SUBSET Int /\ \A y \in S : r.maxDd <= y
    BY <1>1
<1>5. r.maxDd = deepest
  <2> HIDE DEF S
  <2> QED BY <1>3, <1>4, MinOf
<1>6. CASE r.maxDd = 0
  <2>1. ~ r.inDrawdown
      BY <1>6 DEF CurveAt
  <2> HIDE DEF deepest, first
  <2>2. ~(deepest < 0)
      BY <1>5, <1>6
  <2>3. r.inDrawdown = (deepest < 0 /\ \A k \in first .. n : e[k] < e[first] - deepest)
      BY <1>1, <2>1, <2>2, Zenon
  <2> QED BY <1>1, <1>5, <2>3
<1>7. CASE r.maxDd < 0
  <2>1. PICK k \in 1 .. n :
           /\ DeepestAt(e, n, k, r.maxDd) /\ r.ddPeak = e[k] - r.maxDd
           /\ r.inDrawdown <=> \A j \in k .. n : e[j] < r.ddPeak
      BY <1>7 DEF CurveAt
  <2> HIDE DEF deepest
  <2>2. k \in F /\ F \in SUBSET Int
      BY <1>5, <2>1 DEF DeepestAt
  <2>3. \A j \in F : k <= j
    <3> SUFFICES ASSUME NEW j \in F, j < k PROVE FALSE
        BY <2>2
    <3>1. j \in 0 .. k - 1
        BY <2>1
    <3>2. Simulation!Drawdown(e, j) > r.maxDd
        BY <2>1, <3>1 DEF DeepestAt
    <3> QED BY <1>1, <1>5, <3>2
  <2> HIDE DEF F
  <2>4. first = k
      BY <2>2, <2>3, MinOf
  <2> HIDE DEF first
  <2>5. r.ddPeak = e[first] - deepest /\ deepest < 0
      BY <1>5, <1>7, <2>1, <2>4
  <2>6. r.inDrawdown <=> \A j \in first .. n : e[j] < e[first] - deepest
      BY <2>1, <2>4, <2>5
  <2>7. r.inDrawdown = (deepest < 0 /\ \A j \in first .. n : e[j] < e[first] - deepest)
      BY <1>1, <2>5, <2>6, Zenon
  <2> QED BY <1>1, <1>5, <2>7
<1> HIDE DEF S, deepest, F, first
<1> QED BY <1>1, <1>6, <1>7

-----------------------------------------------------------------------------
(* The streaks. *)

Winning(ts, n, result, other) ==
    {k \in 1 .. n : ts[k].result = result /\ \A m \in k .. n : ts[m].result # other}

LEMMA StreakType ==
    ASSUME NEW ts, NEW n \in Nat, NEW result, NEW other
    PROVE  /\ IsFiniteSet(Winning(ts, n, result, other))
           /\ Simulation!Streak(ts, n, result, other) = Cardinality(Winning(ts, n, result, other))
           /\ Simulation!Streak(ts, n, result, other) \in Nat
<1> DEFINE W == Winning(ts, n, result, other)
<1>1. IsFiniteSet(W)
  <2>1. IsFiniteSet(1 .. n) /\ W \subseteq 1 .. n
    <3>1. 1 \in Int /\ n \in Int
        OBVIOUS
    <3> QED BY <3>1, FS_Interval DEF Winning
  <2> HIDE DEF W
  <2> QED BY <2>1, FS_Subset
<1>2. Simulation!Cardinality(W) = Cardinality(W)
    BY Zenon DEF Cardinality, Simulation!Cardinality
<1>3. Simulation!Streak(ts, n, result, other) = Simulation!Cardinality(W)
    BY DEF Simulation!Streak, Winning
<1> QED BY <1>1, <1>2, <1>3, FS_CardinalityType

LEMMA NoStreak ==
    ASSUME NEW ts, NEW result, NEW other
    PROVE  Simulation!Streak(ts, 0, result, other) = 0
<1>1. Winning(ts, 0, result, other) = {}
    BY DEF Winning
<1> QED BY <1>1, StreakType, FS_EmptySet

(* A trade with the result counts, one with the other ends the streak, and a
   timeout leaves it as it is. *)
LEMMA StreakNext ==
    ASSUME NEW ts, NEW n \in Nat, NEW result, NEW other, result # other
    PROVE  Simulation!Streak(ts, n + 1, result, other) =
             IF ts[n + 1].result = result THEN Simulation!Streak(ts, n, result, other) + 1
             ELSE IF ts[n + 1].result = other THEN 0
             ELSE Simulation!Streak(ts, n, result, other)
<1> DEFINE W == Winning(ts, n, result, other)
           V == Winning(ts, n + 1, result, other)
<1>0. n + 1 \in Nat /\ \A k \in 1 .. n + 1 : k \in 1 .. n \/ k = n + 1
    OBVIOUS
<1>1. /\ IsFiniteSet(W) /\ n + 1 \notin W
      /\ Simulation!Streak(ts, n, result, other) = Cardinality(W)
      /\ Simulation!Streak(ts, n + 1, result, other) = Cardinality(V)
  <2>1. n + 1 \notin W
      BY DEF Winning
  <2> QED BY <1>0, <2>1, StreakType
<1>2. ASSUME ts[n + 1].result # other, NEW k \in 1 .. n PROVE k \in V <=> k \in W
  <2>1. \A m \in k .. n + 1 : m \in k .. n \/ m = n + 1
      OBVIOUS
  <2>2. k \in 1 .. n + 1 /\ k .. n \subseteq k .. n + 1
      OBVIOUS
  <2> QED BY <1>2, <2>1, <2>2 DEF Winning
<1>3. W \subseteq 1 .. n /\ V \subseteq 1 .. n + 1
    BY DEF Winning
<1>4. CASE ts[n + 1].result = result
  <2>1. n + 1 \in V
      BY <1>4 DEF Winning
  <2> HIDE DEF W, V
  <2>2. V = W \cup {n + 1}
      BY <1>0, <1>2, <1>3, <1>4, <2>1
  <2> QED BY <1>1, <1>4, <2>2, FS_AddElement
<1>5. CASE ts[n + 1].result = other
  <2>1. V = {}
      BY <1>5 DEF Winning
  <2> QED BY <1>1, <1>5, <2>1, FS_EmptySet
<1>6. CASE ts[n + 1].result # result /\ ts[n + 1].result # other
  <2>1. n + 1 \notin V
      BY <1>6 DEF Winning
  <2> HIDE DEF W, V
  <2>2. V = W
      BY <1>0, <1>2, <1>3, <1>6, <2>1
  <2> QED BY <1>1, <1>6, <2>2
<1> QED BY <1>4, <1>5, <1>6

(* The report after n trades counts the current streaks and keeps the longest. *)
LongestTo(ts, n, result, other, most) ==
    /\ most \in Nat
    /\ \A k \in 0 .. n : Simulation!Streak(ts, k, result, other) <= most
    /\ \E k \in 0 .. n : Simulation!Streak(ts, k, result, other) = most
StreaksAt(r, ts, n) ==
    /\ r.wins = Simulation!Streak(ts, n, "WIN", "LOSS")
    /\ r.losses = Simulation!Streak(ts, n, "LOSS", "WIN")
    /\ LongestTo(ts, n, "WIN", "LOSS", r.maxWins)
    /\ LongestTo(ts, n, "LOSS", "WIN", r.maxLosses)

LEMMA StreaksBegin ==
    ASSUME NEW ts PROVE StreaksAt(Simulation!NoReport, ts, 0)
<1>1. 0 .. 0 = {0}
    OBVIOUS
<1>2. \A result, other : LongestTo(ts, 0, result, other, 0)
    BY <1>1, NoStreak DEF LongestTo
<1> QED BY <1>2, NoStreak DEF StreaksAt, Simulation!NoReport

LEMMA LongestGoesOn ==
    ASSUME NEW ts, NEW n \in Nat, NEW result, NEW other, NEW most,
           LongestTo(ts, n, result, other, most), NEW newest,
           newest = Simulation!Streak(ts, n + 1, result, other)
    PROVE  LongestTo(ts, n + 1, result, other, Simulation!Max({most, newest}))
<1> DEFINE max == IF most >= newest THEN most ELSE newest
           f == [k \in Nat |-> Simulation!Streak(ts, k, result, other)]
<1>1. /\ most \in Nat /\ newest \in Nat /\ newest = f[n + 1]
      /\ \A k \in 0 .. n : f[k] <= most
      /\ \E k \in 0 .. n : f[k] = most
    BY StreakType DEF LongestTo
<1>2. Simulation!Max({most, newest}) = max
  <2>1. /\ max \in {most, newest} /\ \A y \in {most, newest} : max >= y
        /\ {most, newest} \in SUBSET Int
      BY <1>1
  <2> HIDE DEF max
  <2> QED BY <2>1, MaxOf
<1>3. \A k \in 0 .. n + 1 : k \in Nat /\ (k \in 0 .. n \/ k = n + 1)
    OBVIOUS
<1> HIDE DEF f
<1>4. /\ max \in Nat /\ \A k \in 0 .. n + 1 : f[k] <= max
      /\ \E k \in 0 .. n + 1 : f[k] = max
  <2>1. \A k \in 0 .. n + 1 : f[k] <= max
    <3>1. \A k \in 0 .. n : f[k] \in Nat
        BY StreakType DEF f
    <3> QED BY <1>1, <1>3, <3>1
  <2>2. CASE most >= newest
    <3>1. PICK k \in 0 .. n : f[k] = most
        BY <1>1
    <3> QED BY <1>1, <2>1, <2>2, <3>1
  <2>3. CASE ~(most >= newest)
    <3>1. n + 1 \in 0 .. n + 1
        OBVIOUS
    <3> QED BY <1>1, <2>1, <2>3, <3>1
  <2> QED BY <2>2, <2>3
<1> HIDE DEF max
<1> QED BY <1>2, <1>3, <1>4 DEF LongestTo, f

LEMMA StreaksGoOn ==
    ASSUME NEW ts, NEW n \in Nat, NEW r, StreaksAt(r, ts, n)
    PROVE  StreaksAt(Simulation!Count(r, ts[n + 1]), ts, n + 1)
<1> DEFINE q == Simulation!Count(r, ts[n + 1])
           won == Simulation!Streak(ts, n + 1, "WIN", "LOSS")
           lost == Simulation!Streak(ts, n + 1, "LOSS", "WIN")
<1>1. won = (CASE ts[n + 1].result = "WIN" -> r.wins + 1
               [] ts[n + 1].result = "LOSS" -> 0
               [] OTHER -> r.wins)
    BY StreakNext DEF StreaksAt
<1>2. lost = (CASE ts[n + 1].result = "LOSS" -> r.losses + 1
                [] ts[n + 1].result = "WIN" -> 0
                [] OTHER -> r.losses)
    BY StreakNext DEF StreaksAt
<1>3. /\ q.wins = won /\ q.losses = lost
      /\ q.maxWins = Simulation!Max({r.maxWins, won})
      /\ q.maxLosses = Simulation!Max({r.maxLosses, lost})
  <2> HIDE DEF won, lost
  <2> QED BY <1>1, <1>2 DEF Simulation!Count
<1>4. LongestTo(ts, n + 1, "WIN", "LOSS", q.maxWins)
    BY <1>3, LongestGoesOn DEF StreaksAt
<1>5. LongestTo(ts, n + 1, "LOSS", "WIN", q.maxLosses)
    BY <1>3, LongestGoesOn DEF StreaksAt
<1> HIDE DEF q
<1>6. StreaksAt(q, ts, n + 1)
    BY <1>3, <1>4, <1>5 DEF StreaksAt
<1> QED BY <1>6 DEF q

LEMMA StreaksLemma ==
    ASSUME NEW ts \in Seq(Trades), NEW g, g[0] = Simulation!NoReport,
           \A k \in 1 .. Len(ts) : g[k] = Simulation!Count(g[k - 1], ts[k])
    PROVE  \A n \in 0 .. Len(ts) : StreaksAt(g[n], ts, n)
<1> DEFINE T == {n \in 0 .. Len(ts) : ~ StreaksAt(g[n], ts, n)}
<1>1. SUFFICES ASSUME T # {} PROVE FALSE
    OBVIOUS
<1>2. PICK n \in T : \A k \in T : n <= k
  <2>1. T \in SUBSET Nat
      OBVIOUS
  <2> HIDE DEF T
  <2> QED BY <1>1, <2>1, LeastNumber
<1>3. n # 0
    BY <1>2, StreaksBegin
<1>4. n - 1 \in Nat /\ StreaksAt(g[n - 1], ts, n - 1) /\ n \in 1 .. Len(ts) /\ n - 1 + 1 = n
    BY <1>2, <1>3
<1>5. StreaksAt(Simulation!Count(g[n - 1], ts[n - 1 + 1]), ts, n - 1 + 1)
  <2> HIDE DEF T
  <2> QED BY <1>4, StreaksGoOn
<1> QED BY <1>2, <1>4, <1>5

LEMMA StreaksReported ==
    ASSUME NEW ts, NEW n \in Nat, NEW result, NEW other, NEW most,
           LongestTo(ts, n, result, other, most)
    PROVE  most = Simulation!Max({Simulation!Streak(ts, k, result, other) : k \in 0 .. n})
<1> DEFINE S == {Simulation!Streak(ts, k, result, other) : k \in 0 .. n}
<1>1. \A k \in 0 .. n : Simulation!Streak(ts, k, result, other) \in Nat
  <2> SUFFICES ASSUME NEW k \in 0 .. n PROVE Simulation!Streak(ts, k, result, other) \in Nat
      OBVIOUS
  <2> QED BY StreakType
<1>2. S \in SUBSET Int /\ most \in S /\ \A y \in S : most >= y
    BY <1>1 DEF LongestTo
<1> HIDE DEF S
<1>3. Simulation!Max(S) = most
    BY <1>2, MaxOf
<1> QED BY <1>3 DEF S

-----------------------------------------------------------------------------
(* The sort. *)

(* Trade m of ts comes before trade k. *)
Ahead(ts, m, k) == ts[m].entry < ts[k].entry \/ (ts[m].entry = ts[k].entry /\ m < k)
AheadOf(ts, k) == {m \in 1 .. Len(ts) : Ahead(ts, m, k)}

(* No two trades have as many before them, so that each place of the sorted
   sequence takes exactly one. *)
LEMMA PlaceLemma ==
    ASSUME NEW ts \in Seq(Trades)
    PROVE  /\ \A k \in 1 .. Len(ts) : Cardinality(AheadOf(ts, k)) \in 0 .. Len(ts) - 1
           /\ \A m, k \in 1 .. Len(ts) :
                Ahead(ts, m, k) => Cardinality(AheadOf(ts, m)) < Cardinality(AheadOf(ts, k))
           /\ \A m, k \in 1 .. Len(ts) : m # k => Ahead(ts, m, k) \/ Ahead(ts, k, m)
<1> DEFINE n == Len(ts)
<1>1. n \in Nat /\ \A k \in 1 .. n : ts[k].entry \in Nat
  <2>1. \A k \in 1 .. n : ts[k] \in Trades
      OBVIOUS
  <2> QED BY <2>1 DEF Trades
<1>2. IsFiniteSet(1 .. n) /\ Cardinality(1 .. n) = n
  <2>1. /\ IsFiniteSet(1 .. n)
        /\ Cardinality(1 .. n) = IF 1 > n THEN 0 ELSE n - 1 + 1
    <3>1. 1 \in Int /\ n \in Int
        BY <1>1
    <3> QED BY <3>1, FS_Interval, Zenon
  <2> QED BY <1>1, <2>1
<1>3. ASSUME NEW k \in 1 .. n
      PROVE  /\ IsFiniteSet(AheadOf(ts, k)) /\ Cardinality(AheadOf(ts, k)) \in 0 .. n - 1
             /\ Cardinality(AheadOf(ts, k)) \in Nat
  <2>1. k \notin AheadOf(ts, k) /\ AheadOf(ts, k) \subseteq 1 .. n
      BY <1>1 DEF AheadOf, Ahead
  <2>2. /\ IsFiniteSet(AheadOf(ts, k)) /\ Cardinality(AheadOf(ts, k)) <= n
        /\ Cardinality(AheadOf(ts, k)) # n
      BY <1>2, <2>1, FS_Subset
  <2>3. Cardinality(AheadOf(ts, k)) \in Nat
      BY <2>2, FS_CardinalityType
  <2> QED BY <1>1, <2>2, <2>3
<1>4. ASSUME NEW m \in 1 .. n, NEW k \in 1 .. n, Ahead(ts, m, k)
      PROVE  Cardinality(AheadOf(ts, m)) < Cardinality(AheadOf(ts, k))
  <2>1. AheadOf(ts, m) \subseteq AheadOf(ts, k)
    <3> SUFFICES ASSUME NEW j \in 1 .. n, Ahead(ts, j, m) PROVE Ahead(ts, j, k)
        BY DEF AheadOf
    <3> QED BY <1>1, <1>4 DEF Ahead
  <2>2. m \in AheadOf(ts, k) /\ m \notin AheadOf(ts, m)
      BY <1>1, <1>4 DEF AheadOf, Ahead
  <2>3. /\ Cardinality(AheadOf(ts, m)) <= Cardinality(AheadOf(ts, k))
        /\ Cardinality(AheadOf(ts, m)) # Cardinality(AheadOf(ts, k))
      BY <1>3, <2>1, <2>2, FS_Subset
  <2> QED BY <1>3, <2>3
<1>5. \A m, k \in 1 .. n : m # k => Ahead(ts, m, k) \/ Ahead(ts, k, m)
    BY <1>1 DEF Ahead
<1> QED BY <1>3, <1>4, <1>5

AllOf(ts) == {ts[k] : k \in 1 .. Len(ts)}
InPlaces(sorted, ts) ==
    \A k, m \in 1 .. Len(sorted) : k < m =>
        \E i, j \in 1 .. Len(ts) :
            sorted[k] = ts[i] /\ sorted[m] = ts[j] /\ Ahead(ts, i, j)

(* Sorting moves the trades to other places, and those entered on one candle
   stay in their order. *)
LEMMA SortLemma ==
    ASSUME NEW ts \in Seq(Trades), NEW sorted, sorted = Simulation!SortedByEntry(ts)
    PROVE  /\ sorted \in Seq(Trades) /\ Len(sorted) = Len(ts)
           /\ AllOf(sorted) = AllOf(ts) /\ InPlaces(sorted, ts)
<1> DEFINE n == Len(ts)
           rank == [k \in 1 .. n |-> Cardinality(AheadOf(ts, k))]
           place == [r \in 1 .. n |-> CHOOSE k \in 1 .. n : rank[k] = r - 1]
<1>1. n \in Nat /\ DOMAIN ts = 1 .. n /\ \A k \in 1 .. n : ts[k] \in Trades
    OBVIOUS
<1>2. sorted = [r \in 1 .. n |-> ts[place[r]]]
  <2>1. ASSUME NEW k \in 1 .. n
        PROVE  Simulation!Cardinality({m \in DOMAIN ts : \/ ts[m].entry < ts[k].entry
                                                         \/ ts[m].entry = ts[k].entry /\ m < k})
                 = rank[k]
    <3>1. {m \in DOMAIN ts : \/ ts[m].entry < ts[k].entry
                             \/ ts[m].entry = ts[k].entry /\ m < k} = AheadOf(ts, k)
        BY <1>1 DEF AheadOf, Ahead
    <3>2. Simulation!Cardinality(AheadOf(ts, k)) = Cardinality(AheadOf(ts, k))
        BY Zenon DEF Cardinality, Simulation!Cardinality
    <3> QED BY <3>1, <3>2
  <2>2. sorted = [r \in DOMAIN ts |->
                    ts[CHOOSE k \in DOMAIN ts :
                         Simulation!Cardinality({m \in DOMAIN ts :
                            \/ ts[m].entry < ts[k].entry
                            \/ ts[m].entry = ts[k].entry /\ m < k}) = r - 1]]
      BY DEF Simulation!SortedByEntry
  <2>3. ASSUME NEW r \in 1 .. n
        PROVE  (CHOOSE k \in DOMAIN ts :
                  Simulation!Cardinality({m \in DOMAIN ts :
                     \/ ts[m].entry < ts[k].entry
                     \/ ts[m].entry = ts[k].entry /\ m < k}) = r - 1) = place[r]
      BY <1>1, <2>1
  <2> HIDE DEF rank, place
  <2> QED BY <1>1, <2>2, <2>3
<1>3. /\ \A k \in 1 .. n : rank[k] \in 0 .. n - 1
      /\ \A m, k \in 1 .. n : Ahead(ts, m, k) => rank[m] < rank[k]
      /\ \A m, k \in 1 .. n : m # k => Ahead(ts, m, k) \/ Ahead(ts, k, m)
    BY PlaceLemma
<1>4. rank \in [1 .. n -> 0 .. n - 1]
    BY <1>3
<1> HIDE DEF rank
<1>5. \A m, k \in 1 .. n : rank[m] = rank[k] => m = k
    BY <1>3
<1>6. \A r \in 0 .. n - 1 : \E k \in 1 .. n : rank[k] = r
  <2>1. rank \in Injection(1 .. n, 0 .. n - 1)
      BY <1>4, <1>5 DEF Injection, IsInjective
  <2>2. /\ IsFiniteSet(1 .. n) /\ Cardinality(1 .. n) = n
        /\ IsFiniteSet(0 .. n - 1) /\ Cardinality(0 .. n - 1) = n
    <3>1. 1 \in Int /\ n \in Int /\ 0 \in Int /\ n - 1 \in Int
        BY <1>1
    <3>2. /\ IsFiniteSet(1 .. n) /\ Cardinality(1 .. n) = IF 1 > n THEN 0 ELSE n - 1 + 1
          /\ IsFiniteSet(0 .. n - 1)
          /\ Cardinality(0 .. n - 1) = IF 0 > n - 1 THEN 0 ELSE (n - 1) - 0 + 1
        BY <3>1, FS_Interval, Zenon
    <3> QED BY <1>1, <3>2
  <2>3. rank \in Surjection(1 .. n, 0 .. n - 1)
      BY <2>1, <2>2, FS_Injection
  <2> QED BY <2>3 DEF Surjection
<1>7. \A r \in 1 .. n : place[r] \in 1 .. n /\ rank[place[r]] = r - 1
  <2> SUFFICES ASSUME NEW r \in 1 .. n PROVE place[r] \in 1 .. n /\ rank[place[r]] = r - 1
      OBVIOUS
  <2>1. r - 1 \in 0 .. n - 1
      BY <1>1
  <2>2. \E k \in 1 .. n : rank[k] = r - 1
      BY <1>6, <2>1
  <2> QED BY <2>2
<1> HIDE DEF place
<1>8. sorted \in Seq(Trades) /\ Len(sorted) = n
  <2>1. sorted \in [1 .. n -> Trades]
      BY <1>1, <1>2, <1>7
  <2> QED BY <1>1, <2>1
<1>9. {sorted[k] : k \in 1 .. n} = {ts[k] : k \in 1 .. n}
  <2>1. ASSUME NEW k \in 1 .. n PROVE \E r \in 1 .. n : sorted[r] = ts[k]
    <3> DEFINE r == rank[k] + 1
    <3>1. r \in 1 .. n /\ r - 1 = rank[k]
        BY <1>1, <1>4
    <3> HIDE DEF r
    <3>2. place[r] \in 1 .. n /\ rank[place[r]] = rank[k]
        BY <1>7, <3>1
    <3>3. place[r] = k
        BY <1>5, <3>2
    <3> QED BY <1>2, <3>1, <3>3
  <2>2. ASSUME NEW r \in 1 .. n PROVE \E k \in 1 .. n : sorted[r] = ts[k]
      BY <1>2, <1>7
  <2>3. {sorted[k] : k \in 1 .. n} \subseteq {ts[k] : k \in 1 .. n}
      BY <2>2
  <2>4. {ts[k] : k \in 1 .. n} \subseteq {sorted[k] : k \in 1 .. n}
    <3> SUFFICES ASSUME NEW k \in 1 .. n PROVE ts[k] \in {sorted[r] : r \in 1 .. n}
        OBVIOUS
    <3> QED BY <2>1
  <2> QED BY <2>3, <2>4, Zenon
<1>10. ASSUME NEW k \in 1 .. n, NEW m \in 1 .. n, k < m
       PROVE  Ahead(ts, place[k], place[m])
  <2>1. rank[place[k]] < rank[place[m]]
      BY <1>1, <1>7, <1>10
  <2>2. rank[place[k]] \in Int /\ rank[place[m]] \in Int
      BY <1>7
  <2>3. place[k] # place[m] /\ ~(rank[place[m]] < rank[place[k]])
      BY <2>1, <2>2
  <2> QED BY <1>3, <1>7, <2>3
<1>11. ASSUME NEW k \in 1 .. Len(sorted), NEW m \in 1 .. Len(sorted), k < m
       PROVE  \E i, j \in 1 .. n :
                sorted[k] = ts[i] /\ sorted[m] = ts[j] /\ Ahead(ts, i, j)
  <2>1. k \in 1 .. n /\ m \in 1 .. n
      BY <1>8
  <2>2. sorted[k] = ts[place[k]] /\ sorted[m] = ts[place[m]]
      BY <1>2, <2>1
  <2>3. place[k] \in 1 .. n /\ place[m] \in 1 .. n
      BY <1>7, <2>1
  <2>4. Ahead(ts, place[k], place[m])
      BY <1>10, <1>11, <2>1
  <2> QED BY <2>2, <2>3, <2>4
<1>12. AllOf(sorted) = AllOf(ts)
    BY <1>8, <1>9, Zenon DEF AllOf
<1>13. InPlaces(sorted, ts)
    BY <1>11 DEF InPlaces
<1> QED BY <1>8, <1>12, <1>13, Zenon

-----------------------------------------------------------------------------
(* Tasks, merge and report. *)

(* The trades of a task are in the order of its walk: series by series, candle
   by candle. *)
Passed(t, n, c) == t.series < n \/ (t.series = n /\ t.entry < c)
Older(t, u) == Passed(t, u.series, u.entry)

TaskInv(s) ==
    /\ interval[s] \in 1 .. SeriesOf /\ position[s] \in -1 .. Length
    /\ \A c \in 1 .. Len(touched[s]) : touched[s][c] = {}
    /\ \A k \in 1 .. Len(trades[s]) : trades[s][k].symbol = s
    /\ \A j, k \in 1 .. Len(trades[s]) : j < k => Older(trades[s][j], trades[s][k])
    /\ simPc[s] \in {"walk", "scan"} =>
        \A k \in 1 .. Len(trades[s]) : Passed(trades[s][k], interval[s], candle[s])

TradesOf(s) == {trades[s][k] : k \in 1 .. Len(trades[s])}
Whole == {u \in collected : simPc[u] = "returned"}

(* Merged are the trades of the collected tasks, those of each in their order;
   once sorted, the report is true of them. *)
MergeInv ==
    /\ simPhase \in {"simulate", "report", "done"}
    /\ collected \subseteq Symbols /\ DOMAIN report = DOMAIN Simulation!NoReport
    /\ merged \in Seq(Trades)
    /\ \A s \in collected : simPc[s] \in {"returned", "raised"}
    /\ {merged[k] : k \in 1 .. Len(merged)} = UNION {TradesOf(s) : s \in Whole}
    /\ simPhase # "done" =>
        \A k, m \in 1 .. Len(merged) :
            k < m /\ merged[k].symbol = merged[m].symbol => Older(merged[k], merged[m])

ReportInv ==
    /\ SimulationInv /\ \A s \in Symbols : TaskInv(s)
    /\ MergeInv /\ Simulation!ReportTrue

LEMMA ReportInitially ==
    ASSUME Simulation!SimulationAssumption, Simulation!Init PROVE ReportInv
<1>1. SimulationInv
    BY SimulationInitially
<1>2. ASSUME NEW s \in Symbols PROVE TaskInv(s)
  <2>1. 1 \in 1 .. SeriesOf /\ -1 \in -1 .. Length
      BY SimulationConstants
  <2> QED BY <2>1 DEF Simulation!Init, TaskInv
<1>3. MergeInv /\ Simulation!ReportTrue
    BY DEF Simulation!Init, MergeInv, Whole, Simulation!ReportTrue
<1> QED BY <1>1, <1>2, <1>3 DEF ReportInv

(* No more context candles have closed than candles. *)
LEMMA ContextBound ==
    ASSUME ContextPeriod \in Nat \ {0}, NEW n \in Nat
    PROVE  /\ Simulation!ContextPosition(n) \in Nat
           /\ Simulation!ContextPosition(n) <= n
<1> DEFINE q == n \div ContextPeriod  m == n % ContextPeriod
<1>1. q \in Nat /\ m \in 0 .. ContextPeriod - 1 /\ n = ContextPeriod * q + m
    BY DivMod
<1> HIDE DEF q, m
<1>2. q <= ContextPeriod * q
    BY <1>1
<1>3. q <= n
    BY <1>1, <1>2
<1> QED BY <1>1, <1>3 DEF Simulation!ContextPosition, q

(* A step of a task leaves the merged trades alone, and a task that has been
   collected takes none. *)
LEMMA TaskStep ==
    ASSUME Simulation!SimulationAssumption, ReportInv, NEW s \in Symbols, Simulation!Step(s)
    PROVE  \A u \in Symbols : TaskInv(u)'
<1>0. /\ \A u \in Symbols : /\ TaskInv(u) /\ trades[u] \in Seq(Trades)
                             /\ candle[u] \in Nat /\ interval[u] \in Nat
                             /\ touched[u] \in Seq(Touches)
      /\ simPc \in [Symbols -> {"walk", "scan", "returned", "raised"}]
      /\ interval \in [Symbols -> Nat] /\ candle \in [Symbols -> Nat]
      /\ touched \in [Symbols -> Seq(Touches)] /\ position \in [Symbols -> Int]
      /\ trades \in [Symbols -> Seq(Trades)]
    BY DEF ReportInv, SimulationInv, SimulationTypes
<1>k. ContextPeriod \in Nat \ {0} /\ Skip \in Nat \ {0} /\ Length \in Nat /\ SeriesOf \in Nat
    BY SimulationConstants
<1>1. ASSUME NEW u \in Symbols, NEW k \in 1 .. Len(trades[u])
      PROVE  trades[u][k].series \in Nat /\ trades[u][k].entry \in Nat
  <2>1. trades[u][k] \in Trades
      BY <1>0
  <2> QED BY <2>1 DEF Trades
<1>2. CASE Simulation!Pass(s) \/ Simulation!Signal(s)
  <2> DEFINE closed == Simulation!ContextPosition(candle[s])
  <2>1. /\ position' = [position EXCEPT ![s] = closed]
        /\ simPc[s] = "walk" /\ candle[s] < Length - 1
        /\ UNCHANGED <<interval, touched, trades>>
        /\ \/ candle' = [candle EXCEPT ![s] = @ + 1] /\ UNCHANGED simPc
           \/ simPc' = [simPc EXCEPT ![s] = "scan"] /\ UNCHANGED candle
      BY <1>2
         DEF Simulation!Pass, Simulation!Signal, Simulation!SeeContext, Simulation!Walking
  <2>2. closed \in -1 .. Length
    <3>1. candle[s] \in Nat
        BY <1>0
    <3> HIDE DEF closed
    <3>2. closed \in Nat /\ closed <= candle[s]
        BY <1>k, <3>1, ContextBound DEF closed
    <3> QED BY <1>k, <2>1, <3>1, <3>2
  <2> HIDE DEF closed
  <2>3. ASSUME NEW u \in Symbols, u # s PROVE TaskInv(u)'
      BY <1>0, <2>1, <2>3 DEF TaskInv
  <2>4. TaskInv(s)'
    <3>1. TaskInv(s) /\ candle[s] \in Nat
        BY <1>0
    <3>2. position'[s] = closed /\ simPc'[s] \in {"walk", "scan"}
        BY <1>0, <2>1
    <3>3. ASSUME NEW k \in 1 .. Len(trades[s])
          PROVE  Passed(trades[s][k], interval[s], candle'[s])
      <4>1. Passed(trades[s][k], interval[s], candle[s])
          BY <2>1, <3>1 DEF TaskInv
      <4>2. candle'[s] = candle[s] \/ candle'[s] = candle[s] + 1
          BY <1>0, <2>1
      <4>3. trades[s][k].entry \in Nat
          BY <1>1
      <4> QED BY <3>1, <4>1, <4>2, <4>3 DEF Passed
    <3> QED BY <2>1, <2>2, <3>1, <3>2, <3>3 DEF TaskInv
  <2> QED BY <2>3, <2>4
<1>3. CASE Simulation!Untouched(s)
  <2>1. /\ touched' = [touched EXCEPT ![s] = Append(@, {})]
        /\ UNCHANGED <<simPc, interval, candle, position, trades>>
      BY <1>3 DEF Simulation!Untouched
  <2>2. \A c \in 1 .. Len(Append(touched[s], {})) :
           Append(touched[s], {})[c] = {}
    <3>1. touched[s] \in Seq(Touches) /\ {} \in Touches /\ TaskInv(s)
        BY <1>0 DEF Touches
    <3> QED BY <3>1 DEF TaskInv
  <2> QED BY <1>0, <2>1, <2>2 DEF TaskInv
<1>4. CASE Simulation!SeriesEnds(s)
  <2>1. /\ simPc[s] = "walk" /\ UNCHANGED <<touched, trades>>
        /\ \/ /\ interval[s] < SeriesOf
              /\ interval' = [interval EXCEPT ![s] = @ + 1]
              /\ candle' = [candle EXCEPT ![s] = Simulation!FirstCandle]
              /\ position' = [position EXCEPT ![s] = -1]
              /\ UNCHANGED simPc
           \/ /\ simPc' = [simPc EXCEPT ![s] = "returned"]
              /\ UNCHANGED <<interval, candle, position>>
      BY <1>4, Zenon DEF Simulation!SeriesEnds
  <2>2. CASE simPc' = [simPc EXCEPT ![s] = "returned"] /\ UNCHANGED <<interval, candle, position>>
      BY <1>0, <2>1, <2>2 DEF TaskInv
  <2>3. CASE UNCHANGED simPc /\ interval' = [interval EXCEPT ![s] = @ + 1] /\ interval[s] < SeriesOf
             /\ position' = [position EXCEPT ![s] = -1]
             /\ candle' = [candle EXCEPT ![s] = Simulation!FirstCandle]
    <3>1. ASSUME NEW u \in Symbols, u # s PROVE TaskInv(u)'
        BY <1>0, <2>1, <2>3, <3>1 DEF TaskInv
    <3>2. TaskInv(s)'
      <4>1. TaskInv(s) /\ interval[s] \in Nat
          BY <1>0
      <4>2. /\ interval'[s] = interval[s] + 1 /\ interval'[s] \in 1 .. SeriesOf
            /\ position'[s] = -1 /\ -1 \in -1 .. Length
          BY <1>0, <1>k, <2>3
      <4>3. ASSUME NEW k \in 1 .. Len(trades[s])
            PROVE  Passed(trades[s][k], interval'[s], candle'[s])
        <5>1. Passed(trades[s][k], interval[s], candle[s])
            BY <2>1, <4>1 DEF TaskInv
        <5> QED BY <1>1, <4>1, <4>2, <5>1 DEF Passed
      <4> QED BY <2>1, <4>1, <4>2, <4>3 DEF TaskInv
    <3> QED BY <3>1, <3>2
  <2> QED BY <2>1, <2>2, <2>3
<1>5. CASE Simulation!Raise(s)
    BY <1>0, <1>5 DEF Simulation!Raise, TaskInv
<1>6. ASSUME NEW touches \in Touches, NEW pnl \in UNION {Gains[r] : r \in Simulation!Results},
             Simulation!TradeEnds(s, touches, pnl)
      PROVE  \A u \in Symbols : TaskInv(u)'
  <2>1. PICK trade :
           /\ trade.symbol = s /\ trade.series = interval[s] /\ trade.entry = candle[s]
           /\ trades' = [trades EXCEPT ![s] = Append(@, trade)]
      BY <1>6 DEF Simulation!TradeEnds
  <2>2. /\ simPc[s] = "scan" /\ UNCHANGED <<interval, position>>
        /\ touched' = [touched EXCEPT ![s] = <<>>]
        /\ simPc' = [simPc EXCEPT ![s] = "walk"]
        /\ candle' = [candle EXCEPT ![s] = @ + Skip]
      BY <1>6 DEF Simulation!TradeEnds
  <2>3. ASSUME NEW u \in Symbols, u # s PROVE TaskInv(u)'
    <3>1. /\ trades'[u] = trades[u] /\ touched'[u] = touched[u] /\ simPc'[u] = simPc[u]
          /\ candle'[u] = candle[u] /\ interval'[u] = interval[u] /\ position'[u] = position[u]
        BY <1>0, <2>1, <2>2, <2>3
    <3> QED BY <1>0, <3>1 DEF TaskInv
  <2>4. TaskInv(s)'
    <3> DEFINE n == Len(trades[s])  ts == Append(trades[s], trade)
    <3>1. /\ n \in Nat /\ Len(ts) = n + 1 /\ ts[n + 1] = trade
          /\ \A k \in 1 .. n : ts[k] = trades[s][k]
          /\ trades'[s] = ts
        BY <1>0, <2>1
    <3>2. \A k \in 1 .. n + 1 : k \in 1 .. n \/ k = n + 1
        BY <3>1
    <3>3. /\ TaskInv(s) /\ candle[s] \in Nat
          /\ \A k \in 1 .. n : trades[s][k].symbol = s
          /\ \A k \in 1 .. n : Passed(trades[s][k], interval[s], candle[s])
          /\ \A j, k \in 1 .. n : j < k => Older(trades[s][j], trades[s][k])
        BY <1>0, <2>2 DEF TaskInv
    <3>4. /\ candle'[s] = candle[s] + Skip /\ candle[s] < candle[s] + Skip
          /\ interval'[s] = interval[s] /\ touched'[s] = <<>> /\ position'[s] = position[s]
        BY <1>0, <1>k, <2>2
    <3>5. ASSUME NEW k \in 1 .. n PROVE Passed(trades[s][k], interval[s], candle[s] + Skip)
      <4>1. Passed(trades[s][k], interval[s], candle[s]) /\ trades[s][k].entry \in Nat
          BY <1>1, <3>3
      <4> QED BY <1>k, <3>3, <4>1 DEF Passed
    <3> HIDE DEF ts, n
    <3>6. \A j, k \in 1 .. n + 1 : j < k => Older(ts[j], ts[k])
      <4> SUFFICES ASSUME NEW j \in 1 .. n + 1, NEW k \in 1 .. n + 1, j < k
                   PROVE  Older(ts[j], ts[k])
          OBVIOUS
      <4>1. j \in 1 .. n
          BY <3>1
      <4>2. CASE k = n + 1
          BY <2>1, <3>1, <3>3, <4>1, <4>2 DEF Older
      <4>3. CASE k \in 1 .. n
          BY <3>1, <3>3, <4>1, <4>3
      <4> QED BY <3>2, <4>2, <4>3
    <3>7. ASSUME NEW k \in 1 .. n + 1
          PROVE  ts[k].symbol = s /\ Passed(ts[k], interval[s], candle[s] + Skip)
      <4>1. CASE k = n + 1
          BY <2>1, <3>1, <3>4, <4>1 DEF Passed
      <4>2. CASE k \in 1 .. n
          BY <3>1, <3>3, <3>5, <4>2
      <4> QED BY <3>2, <4>1, <4>2
    <3> QED BY <3>1, <3>3, <3>4, <3>6, <3>7 DEF TaskInv
  <2> QED BY <2>3, <2>4
<1> QED BY <1>2, <1>3, <1>4, <1>5, <1>6 DEF Simulation!Step, Touches

(* ... and what is merged are the trades of tasks that have ended. *)
LEMMA TaskKeepsMerged ==
    ASSUME ReportInv, NEW s \in Symbols, Simulation!Step(s)
    PROVE  MergeInv' /\ Simulation!ReportTrue'
<1>1. /\ simPhase = "simulate" /\ UNCHANGED <<simPhase, merged, collected, report>>
      /\ simPc[s] \in {"walk", "scan"}
      /\ \A u \in Symbols : u # s => simPc'[u] = simPc[u] /\ trades'[u] = trades[u]
  <2>1. /\ simPhase = "simulate" /\ UNCHANGED <<simPhase, merged, collected, report>>
        /\ simPc[s] \in {"walk", "scan"}
      BY DEF Simulation!Step, Simulation!Pass, Simulation!Signal, Simulation!Untouched,
             Simulation!SeriesEnds, Simulation!Raise, Simulation!TradeEnds, Simulation!Walking,
             Simulation!main
  <2>2. \/ UNCHANGED simPc
        \/ \E x : simPc' = [simPc EXCEPT ![s] = x]
      BY DEF Simulation!Step, Simulation!Pass, Simulation!Signal, Simulation!Untouched,
             Simulation!SeriesEnds, Simulation!Raise, Simulation!TradeEnds, Simulation!Walking
  <2>3. \/ UNCHANGED trades
        \/ \E x : trades' = [trades EXCEPT ![s] = x]
      BY DEF Simulation!Step, Simulation!Pass, Simulation!Signal, Simulation!Untouched,
             Simulation!SeriesEnds, Simulation!Raise, Simulation!TradeEnds, Simulation!Walking
  <2>4. simPc \in [Symbols -> {"walk", "scan", "returned", "raised"}]
        /\ trades \in [Symbols -> Seq(Trades)]
      BY DEF ReportInv, SimulationInv, SimulationTypes
  <2> QED BY <2>1, <2>2, <2>3, <2>4
<1>2. MergeInv /\ s \notin collected /\ collected \subseteq Symbols
    BY <1>1 DEF ReportInv, MergeInv
<1>3. Whole' = Whole /\ \A u \in Whole : TradesOf(u)' = TradesOf(u)
    BY <1>1, <1>2 DEF Whole, TradesOf
<1>4. UNION {TradesOf(u) : u \in Whole}' = UNION {TradesOf(u) : u \in Whole}
  <2> SUFFICES \A u : u \in Whole' /\ TradesOf(u)' = TradesOf(u) <=> u \in Whole
      BY <1>3
  <2> QED BY <1>3
<1>5. \A u \in collected : simPc'[u] \in {"returned", "raised"}
    BY <1>1, <1>2 DEF MergeInv
<1>6. MergeInv'
    BY <1>1, <1>2, <1>4, <1>5 DEF MergeInv
<1>7. Simulation!ReportTrue'
    BY <1>1 DEF Simulation!ReportTrue
<1> QED BY <1>6, <1>7

(* A finished task adds its trades after those at hand, none of which is of its
   symbol. *)
LEMMA CollectStep ==
    ASSUME ReportInv, NEW s \in Symbols, Simulation!Collect(s)
    PROVE  MergeInv' /\ Simulation!ReportTrue'
<1>1. /\ simPhase = "simulate" /\ s \notin collected /\ simPc[s] \in {"returned", "raised"}
      /\ collected' = collected \cup {s}
      /\ merged' = IF simPc[s] = "returned" THEN merged \o trades[s] ELSE merged
      /\ UNCHANGED <<simPc, trades, simPhase, report>>
    BY DEF Simulation!Collect
<1>2. /\ MergeInv /\ TaskInv(s) /\ trades[s] \in Seq(Trades)
    BY DEF ReportInv, SimulationInv, SimulationTypes
<1>3. Simulation!ReportTrue'
    BY <1>1 DEF Simulation!ReportTrue
<1>4. CASE simPc[s] = "raised"
  <2>1. Whole' = Whole /\ \A u : TradesOf(u)' = TradesOf(u)
      BY <1>1, <1>4 DEF Whole, TradesOf
  <2>2. UNION {TradesOf(u) : u \in Whole}' = UNION {TradesOf(u) : u \in Whole}
      BY <2>1
  <2>3. merged' = merged
      BY <1>1, <1>4
  <2> QED BY <1>1, <1>2, <1>3, <2>2, <2>3 DEF MergeInv
<1>5. CASE simPc[s] = "returned"
  <2> DEFINE n == Len(merged)  more == Len(trades[s])  all == merged \o trades[s]
  <2>1. /\ n \in Nat /\ more \in Nat /\ all \in Seq(Trades) /\ Len(all) = n + more
        /\ \A k \in 1 .. n : all[k] = merged[k]
        /\ \A k \in 1 .. more : all[n + k] = trades[s][k]
        /\ merged' = all
      BY <1>1, <1>2, <1>5 DEF MergeInv
  <2>2. \A k \in 1 .. n + more : k \in 1 .. n \/ (k - n \in 1 .. more /\ k = n + (k - n))
      BY <2>1
  <2>3. \A k \in 1 .. n : merged[k].symbol \in collected
    <3> SUFFICES ASSUME NEW k \in 1 .. n PROVE merged[k].symbol \in collected
        OBVIOUS
    <3>1. PICK u \in Whole : merged[k] \in TradesOf(u)
        BY <1>2 DEF MergeInv
    <3>2. u \in collected /\ u \in Symbols
        BY <1>2, <3>1 DEF Whole, MergeInv
    <3>3. merged[k].symbol = u
        BY <3>1, <3>2 DEF ReportInv, TaskInv, TradesOf
    <3> QED BY <3>2, <3>3
  <2>4. \A k \in 1 .. more : trades[s][k].symbol = s
      BY <1>2 DEF TaskInv
  <2> HIDE DEF all, n, more
  <2>5. ASSUME NEW k \in 1 .. n + more, NEW m \in 1 .. n + more, k < m,
               all[k].symbol = all[m].symbol
        PROVE  Older(all[k], all[m])
    <3>1. CASE m \in 1 .. n
      <4>1. k \in 1 .. n
          BY <2>1, <2>5, <3>1
      <4> QED BY <1>1, <1>2, <2>1, <2>5, <3>1, <4>1 DEF MergeInv, n
    <3>2. CASE m - n \in 1 .. more /\ k \in 1 .. n
      <4>1. all[m] = trades[s][m - n]
          BY <2>1, <2>2, <3>2
      <4> QED BY <1>1, <2>1, <2>3, <2>4, <2>5, <3>2, <4>1
    <3>3. CASE m - n \in 1 .. more /\ k - n \in 1 .. more
      <4>1. /\ all[m] = trades[s][m - n] /\ all[k] = trades[s][k - n] /\ k - n < m - n
          BY <2>1, <2>2, <2>5, <3>3
      <4> QED BY <1>2, <3>3, <4>1 DEF TaskInv, more
    <3> QED BY <2>2, <3>1, <3>2, <3>3
  <2>6. {all[k] : k \in 1 .. n + more} =
          {merged[k] : k \in 1 .. n} \cup {trades[s][k] : k \in 1 .. more}
    <3>1. ASSUME NEW k \in 1 .. n + more
          PROVE  all[k] \in {merged[j] : j \in 1 .. n} \cup {trades[s][j] : j \in 1 .. more}
      <4>1. CASE k \in 1 .. n
          BY <2>1, <4>1
      <4>2. CASE k - n \in 1 .. more /\ k = n + (k - n)
        <5>1. all[k] = trades[s][k - n]
            BY <2>1, <4>2
        <5> QED BY <4>2, <5>1
      <4> QED BY <2>2, <4>1, <4>2
    <3>2. ASSUME NEW k \in 1 .. n PROVE merged[k] \in {all[j] : j \in 1 .. n + more}
        BY <2>1
    <3>3. ASSUME NEW k \in 1 .. more PROVE trades[s][k] \in {all[j] : j \in 1 .. n + more}
      <4>1. n + k \in 1 .. n + more
          BY <2>1
      <4> QED BY <2>1, <4>1
    <3>4. {all[k] : k \in 1 .. n + more} \subseteq
            {merged[k] : k \in 1 .. n} \cup {trades[s][k] : k \in 1 .. more}
        BY <3>1
    <3>5. /\ {merged[k] : k \in 1 .. n} \subseteq {all[k] : k \in 1 .. n + more}
          /\ {trades[s][k] : k \in 1 .. more} \subseteq {all[k] : k \in 1 .. n + more}
        BY <3>2, <3>3
    <3> QED BY <3>4, <3>5
  <2>7. Whole' = Whole \cup {s} /\ \A u : TradesOf(u)' = TradesOf(u)
      BY <1>1, <1>5 DEF Whole, TradesOf
  <2>8. UNION {TradesOf(u) : u \in Whole}' = (UNION {TradesOf(u) : u \in Whole}) \cup TradesOf(s)
    <3>1. {TradesOf(u) : u \in Whole}' = {TradesOf(u) : u \in Whole \cup {s}}
        BY <2>7
    <3>2. UNION {TradesOf(u) : u \in Whole \cup {s}} =
            (UNION {TradesOf(u) : u \in Whole}) \cup TradesOf(s)
      <4> DEFINE old == {TradesOf(u) : u \in Whole}
      <4>1. {TradesOf(u) : u \in Whole \cup {s}} = old \cup {TradesOf(s)}
          OBVIOUS
      <4> HIDE DEF old
      <4>2. UNION (old \cup {TradesOf(s)}) = (UNION old) \cup TradesOf(s)
          OBVIOUS
      <4> QED BY <4>1, <4>2 DEF old
    <3> QED BY <3>1, <3>2
  <2>9. {merged'[k] : k \in 1 .. Len(merged')} = UNION {TradesOf(u) : u \in Whole}'
    <3>1. {merged'[k] : k \in 1 .. Len(merged')} = {all[k] : k \in 1 .. n + more}
        BY <2>1
    <3>2. {merged[k] : k \in 1 .. n} = UNION {TradesOf(u) : u \in Whole}
        BY <1>2 DEF MergeInv, n
    <3>3. {trades[s][k] : k \in 1 .. more} = TradesOf(s)
        BY DEF TradesOf, more
    <3> QED BY <2>6, <2>8, <3>1, <3>2, <3>3, Zenon
  <2>10. \A u \in collected' : simPc'[u] \in {"returned", "raised"}
      BY <1>1, <1>2 DEF MergeInv
  <2>11. \A k, m \in 1 .. Len(merged') :
            k < m /\ merged'[k].symbol = merged'[m].symbol => Older(merged'[k], merged'[m])
      BY <2>1, <2>5
  <2>12. /\ collected' \subseteq Symbols /\ merged' \in Seq(Trades)
         /\ simPhase' = simPhase /\ report' = report
      BY <1>1, <1>2, <2>1 DEF MergeInv
  <2> QED BY <1>2, <1>3, <2>9, <2>10, <2>11, <2>12 DEF MergeInv, Older, Passed
<1> QED BY <1>1, <1>4, <1>5

(* What is printed is true of the sorted trades. *)
LEMMA ReportStep ==
    ASSUME ReportInv, Simulation!Report PROVE MergeInv' /\ Simulation!ReportTrue'
<1> DEFINE ts == Simulation!SortedByEntry(merged)
<1>1. /\ simPhase = "report" /\ simPhase' = "done"
      /\ merged' = ts /\ report' = Simulation!Running(merged')
      /\ UNCHANGED <<simPc, trades, collected>>
    BY DEF Simulation!Report
<1>2. MergeInv /\ merged \in Seq(Trades)
    BY DEF ReportInv, MergeInv
<1>3. /\ merged' \in Seq(Trades) /\ Len(merged') = Len(merged)
      /\ {merged'[k] : k \in 1 .. Len(merged')} = {merged[k] : k \in 1 .. Len(merged)}
      /\ \A k, m \in 1 .. Len(merged') : k < m =>
           \E i, j \in 1 .. Len(merged) :
               merged'[k] = merged[i] /\ merged'[m] = merged[j] /\ Ahead(merged, i, j)
  <2>1. merged' = Simulation!SortedByEntry(merged)
      BY <1>1
  <2> HIDE DEF ts
  <2>2. /\ merged' \in Seq(Trades) /\ Len(merged') = Len(merged)
        /\ AllOf(merged') = AllOf(merged) /\ InPlaces(merged', merged)
      BY <1>2, <2>1, SortLemma, Zenon
  <2>3. {merged'[k] : k \in 1 .. Len(merged')} = {merged[k] : k \in 1 .. Len(merged)}
      BY <2>2 DEF AllOf
  <2>4. ASSUME NEW k \in 1 .. Len(merged'), NEW m \in 1 .. Len(merged'), k < m
        PROVE  \E i, j \in 1 .. Len(merged) :
                   merged'[k] = merged[i] /\ merged'[m] = merged[j] /\ Ahead(merged, i, j)
      BY <2>2, <2>4 DEF InPlaces
  <2> QED BY <2>2, <2>3, <2>4
<1>4. Whole' = Whole /\ \A u : TradesOf(u)' = TradesOf(u)
    BY <1>1 DEF Whole, TradesOf
<1>5. {merged'[k] : k \in 1 .. Len(merged')} = UNION {TradesOf(u) : u \in Whole}'
  <2>1. UNION {TradesOf(u) : u \in Whole}' = UNION {TradesOf(u) : u \in Whole}
      BY <1>4
  <2>2. {merged[k] : k \in 1 .. Len(merged)} = UNION {TradesOf(u) : u \in Whole}
      BY <1>2 DEF MergeInv
  <2> QED BY <1>3, <2>1, <2>2, Zenon
<1>6. PICK g : /\ g[0] = Simulation!NoReport
               /\ \A k \in 1 .. Len(merged') : g[k] = Simulation!Count(g[k - 1], merged'[k])
               /\ report' = g[Len(merged')]
    BY <1>1, <1>3, RunningLemma
<1>7. Simulation!WholeTasks'
  <2>1. DOMAIN merged' = 1 .. Len(merged')
      BY <1>3
  <2>2. {merged'[k] : k \in DOMAIN merged'} =
          UNION {{trades'[s][k] : k \in DOMAIN trades'[s]} :
                   s \in {u \in collected' : simPc'[u] = "returned"}}
    <3>1. \A s \in collected : DOMAIN trades[s] = 1 .. Len(trades[s])
        BY DEF ReportInv, SimulationInv, SimulationTypes, MergeInv
    <3>2. UNION {{trades'[s][k] : k \in DOMAIN trades'[s]} :
                   s \in {u \in collected' : simPc'[u] = "returned"}} =
            UNION {{trades[s][k] : k \in DOMAIN trades[s]} : s \in Whole}
        BY <1>1 DEF Whole
    <3>3. {{trades[s][k] : k \in DOMAIN trades[s]} : s \in Whole} = {TradesOf(s) : s \in Whole}
      <4>1. \A s \in Whole : {trades[s][k] : k \in DOMAIN trades[s]} = TradesOf(s)
          BY <3>1 DEF Whole, TradesOf
      <4> QED BY <4>1
    <3>4. {merged[k] : k \in 1 .. Len(merged)} = UNION {TradesOf(u) : u \in Whole}
        BY <1>2 DEF MergeInv
    <3>5. {merged'[k] : k \in DOMAIN merged'} = UNION {TradesOf(u) : u \in Whole}
        BY <1>3, <2>1, <3>4
    <3> QED BY <3>2, <3>3, <3>5, Zenon
  <2>3. ASSUME NEW k \in 1 .. Len(merged'), NEW m \in 1 .. Len(merged'), k < m
        PROVE  Simulation!Later(merged'[k], merged'[m])
    <3>1. PICK i \in 1 .. Len(merged), j \in 1 .. Len(merged) :
             merged'[k] = merged[i] /\ merged'[m] = merged[j] /\ Ahead(merged, i, j)
        BY <1>3, <2>3
    <3>2. CASE merged[i].entry < merged[j].entry
        BY <3>1, <3>2 DEF Simulation!Later
    <3>3. CASE merged[i].entry = merged[j].entry /\ i < j
      <4>1. merged[i].symbol = merged[j].symbol => Older(merged[i], merged[j])
          BY <1>1, <1>2, <3>3 DEF MergeInv
      <4>2. merged[i].entry \in Nat /\ merged[j].entry \in Nat
        <5>1. merged[i] \in Trades /\ merged[j] \in Trades
            BY <1>2
        <5> QED BY <5>1 DEF Trades
      <4> QED BY <3>1, <3>3, <4>1, <4>2 DEF Simulation!Later, Older, Passed
    <3> QED BY <3>1, <3>2, <3>3 DEF Ahead
  <2> QED BY <2>1, <2>2, <2>3 DEF Simulation!WholeTasks
<1>8. Simulation!CurveTrue'
  <2> DEFINE e == Simulation!Equity(merged')
  <2>1. Len(merged') \in Nat /\ Len(merged') \in 0 .. Len(merged')
      BY <1>3
  <2>2. \A k \in 0 .. Len(merged') : e[k] \in Int
      BY <1>3, EquityLemma
  <2>3. CurveAt(report', e, Len(merged'))
      BY <1>3, <1>6, <2>1, CurveLemma
  <2> HIDE DEF e
  <2>4. LET n == Len(merged')
            deepest == Simulation!Min({Simulation!Drawdown(e, k) : k \in 0 .. n})
            first == Simulation!Min({k \in 0 .. n : Simulation!Drawdown(e, k) = deepest})
        IN  /\ report'.cum = e[n] /\ report'.maxDd = deepest
            /\ report'.inDrawdown =
                 (deepest < 0 /\ \A k \in first .. n : e[k] < e[first] - deepest)
      BY <2>1, <2>2, <2>3, CurveReported
  <2> QED BY <2>4 DEF Simulation!CurveTrue, e
<1>9. Simulation!StreaksTrue'
  <2>1. Len(merged') \in Nat /\ Len(merged') \in 0 .. Len(merged')
      BY <1>3
  <2>2. StreaksAt(report', merged', Len(merged'))
      BY <1>3, <1>6, <2>1, StreaksLemma
  <2>3. /\ report'.maxWins = Simulation!Longest(merged', "WIN", "LOSS")
        /\ report'.maxLosses = Simulation!Longest(merged', "LOSS", "WIN")
      BY <2>1, <2>2, StreaksReported DEF StreaksAt, Simulation!Longest
  <2> QED BY <2>3 DEF Simulation!StreaksTrue
<1>10. DOMAIN report' = DOMAIN Simulation!NoReport
  <2>1. CASE Len(merged') = 0
      BY <1>6, <2>1
  <2>2. CASE Len(merged') # 0
    <3>1. Len(merged') \in 1 .. Len(merged')
        BY <1>3, <2>2
    <3>2. report' = Simulation!Count(g[Len(merged') - 1], merged'[Len(merged')])
        BY <1>6, <3>1
    <3> QED BY <3>2 DEF Simulation!Count, Simulation!NoReport
  <2> QED BY <2>1, <2>2
<1>11. MergeInv'
    BY <1>1, <1>2, <1>3, <1>5, <1>10 DEF MergeInv
<1> QED BY <1>7, <1>8, <1>9, <1>11 DEF Simulation!ReportTrue

(* ReportInv is inductive. *)
LEMMA ReportNext ==
    ASSUME Simulation!SimulationAssumption, ReportInv, [Simulation!Next]_Simulation!vars
    PROVE  ReportInv'
<1>1. SimulationInv'
    BY SimulationStep DEF ReportInv
<1>2. ASSUME UNCHANGED <<simPc, interval, candle, touched, position, trades>>
      PROVE  \A s \in Symbols : TaskInv(s)'
    BY <1>2 DEF ReportInv, TaskInv
<1>3. ASSUME UNCHANGED <<simPc, trades, merged, collected, report>>,
             simPhase' = simPhase \/ (simPhase = "simulate" /\ simPhase' = "report")
      PROVE  MergeInv'
  <2>1. Whole' = Whole /\ \A u : TradesOf(u)' = TradesOf(u)
      BY <1>3 DEF Whole, TradesOf
  <2>2. UNION {TradesOf(u) : u \in Whole}' = UNION {TradesOf(u) : u \in Whole}
      BY <2>1
  <2> QED BY <1>3, <2>2 DEF ReportInv, MergeInv
<1>4. CASE UNCHANGED Simulation!vars \/ Simulation!PhaseEnds
  <2>1. /\ UNCHANGED <<simPc, interval, candle, touched, position, trades, merged,
                       collected, report>>
        /\ simPhase' = simPhase \/ (simPhase = "simulate" /\ simPhase' = "report")
      BY <1>4 DEF Simulation!vars, Simulation!PhaseEnds
  <2>2. Simulation!ReportTrue'
    <3>1. CASE simPhase' = simPhase
      <4>1. Simulation!WholeTasks' = Simulation!WholeTasks
          BY <2>1 DEF Simulation!WholeTasks
      <4>2. Simulation!CurveTrue' = Simulation!CurveTrue
          BY <2>1 DEF Simulation!CurveTrue
      <4>3. Simulation!StreaksTrue' = Simulation!StreaksTrue
          BY <2>1 DEF Simulation!StreaksTrue
      <4> QED BY <3>1, <4>1, <4>2, <4>3 DEF ReportInv, Simulation!ReportTrue
    <3>2. CASE simPhase' = "report"
        BY <3>2 DEF Simulation!ReportTrue
    <3> QED BY <2>1, <3>1, <3>2
  <2> QED BY <1>1, <1>2, <1>3, <2>1, <2>2 DEF ReportInv
<1>5. CASE Simulation!Report
  <2>1. UNCHANGED <<simPc, interval, candle, touched, position, trades>>
      BY <1>5 DEF Simulation!Report
  <2> QED BY <1>1, <1>2, <1>5, <2>1, ReportStep DEF ReportInv
<1>6. ASSUME NEW s \in Symbols, Simulation!Step(s) PROVE ReportInv'
    BY <1>1, <1>6, TaskStep, TaskKeepsMerged DEF ReportInv
<1>7. ASSUME NEW s \in Symbols, Simulation!Collect(s) PROVE ReportInv'
  <2>1. UNCHANGED <<simPc, interval, candle, touched, position, trades>>
      BY <1>7 DEF Simulation!Collect
  <2> QED BY <1>1, <1>2, <1>7, <2>1, CollectStep DEF ReportInv
<1> QED BY <1>4, <1>5, <1>6, <1>7 DEF Simulation!Next

LEMMA ReportCorrect ==
    ASSUME Simulation!SimulationAssumption PROVE Simulation!Spec => []ReportInv
BY ReportInitially, ReportNext, PTL DEF Simulation!Spec

(* No task walks past its series or context, whatever fails, and the report has
   all of its figures (backtest/backtest.py:495-707, 1135-1183). *)
THEOREM SimulationTypeCorrect ==
    ASSUME Simulation!SimulationAssumption PROVE Simulation!Spec => []Simulation!TypeOK
<1>1. ReportInv => Simulation!TypeOK
  <2> SUFFICES ASSUME ReportInv PROVE Simulation!TypeOK
      OBVIOUS
  <2>1. ASSUME NEW s \in Symbols
        PROVE  /\ interval[s] \in 1 .. SeriesOf
               /\ candle[s] \in Nat /\ position[s] \in -1 .. Length
               /\ simPc[s] = "scan" => candle[s] + Len(touched[s]) < Length - 1
               /\ \A k \in DOMAIN touched[s] : touched[s][k] = {}
               /\ \A k \in DOMAIN trades[s] : trades[s][k].result \in Simulation!Results
    <3>1. /\ TaskInv(s) /\ WalkInv(s) /\ touched[s] \in Seq(Touches)
          /\ trades[s] \in Seq(Trades) /\ candle[s] \in Nat
        BY DEF ReportInv, SimulationInv, SimulationTypes
    <3>2. DOMAIN touched[s] = 1 .. Len(touched[s]) /\ DOMAIN trades[s] = 1 .. Len(trades[s])
        BY <3>1
    <3>3. \A k \in DOMAIN trades[s] : trades[s][k].result \in Simulation!Results
      <4>1. \A k \in DOMAIN trades[s] : trades[s][k] \in Trades
          BY <3>1
      <4> QED BY <4>1 DEF Trades
    <3>4. simPc[s] = "scan" => candle[s] + Len(touched[s]) < Length - 1
      <4>1. Length \in Nat /\ Hold \in Nat /\ Len(touched[s]) \in Nat
          BY <3>1, SimulationConstants
      <4> QED BY <3>1, <4>1 DEF WalkInv, LastOf
    <3> QED BY <3>1, <3>2, <3>3, <3>4 DEF TaskInv
  <2> QED BY <2>1 DEF ReportInv, MergeInv, SimulationInv, SimulationTypes, Simulation!TypeOK
<1> QED BY <1>1, ReportCorrect, PTL

(* Whatever tasks raise, in whatever order the others end and whenever the user
   interrupts, the report is about all trades of the collected tasks and no
   others, in the order of their entries, and its drawdown, recovery and streaks
   are those of that curve (backtest/backtest.py:1437-1466, 1547, 1148-1169). *)
THEOREM TrueReportTheorem ==
    ASSUME Simulation!SimulationAssumption PROVE Simulation!Spec => []Simulation!ReportTrue
<1>1. ReportInv => Simulation!ReportTrue
    BY DEF ReportInv
<1> QED BY <1>1, ReportCorrect, PTL

-----------------------------------------------------------------------------
(* The budget of the downloads, and their types.                           *)

LEMMA CountingUp ==
    ASSUME NEW N \in Nat, NEW S, 0 \in S, \A n \in 0 .. N - 1 : n \in S => n + 1 \in S
    PROVE  0 .. N \subseteq S
<1> DEFINE T == (0 .. N) \ S
<1>1. SUFFICES ASSUME T # {} PROVE FALSE
    OBVIOUS
<1>2. PICK n \in T : \A m \in T : n <= m
  <2>1. T \in SUBSET Nat
      OBVIOUS
  <2> HIDE DEF T
  <2> QED BY <1>1, <2>1, LeastNumber
<1>3. n \in 1 .. N /\ n - 1 \notin T
    BY <1>2
<1>4. n - 1 \in S /\ n - 1 \in 0 .. N - 1
    BY <1>3
<1> QED BY <1>2, <1>3, <1>4

Weights == [0 .. Ticks - 1 -> Nat]

(* f sums up w, the newest tick first. *)
SumsOf(f, w) ==
    /\ f \in [0 .. Ticks -> Nat] /\ f[0] = 0
    /\ \A n \in 0 .. Ticks - 1 : f[n + 1] = f[n] + w[n]

(* What Total computes. *)
LEMMA TotalLemma ==
    ASSUME Ticks \in Nat \ {0}, NEW w \in Weights
    PROVE  \E f : SumsOf(f, w) /\ Download!Total(w) = f[Ticks]
<1> DEFINE P(f) == f = [n \in 0 .. Ticks |-> IF n = 0 THEN 0 ELSE f[n - 1] + w[n - 1]]
           ts == [n \in 1 .. Ticks |-> [pnl |-> w[n - 1]]]
           sums == CHOOSE f : P(f)
<1>1. PICK f : CurveTo(f, ts, Ticks)
    BY CurveExists
<1>2. P(f)
  <2>1. \A n \in 1 .. Ticks : ts[n].pnl = w[n - 1]
      OBVIOUS
  <2> HIDE DEF ts
  <2>2. f = [n \in 0 .. Ticks |-> IF n = 0 THEN 0 ELSE f[n - 1] + ts[n].pnl]
      BY <1>1 DEF CurveTo
  <2>3. \A n \in 0 .. Ticks : n # 0 => n \in 1 .. Ticks
      OBVIOUS
  <2> QED BY <2>1, <2>2, <2>3
<1>3. P(sums)
    BY <1>2
<1>4. Download!Total(w) = sums[Ticks]
    BY DEF Download!Total
<1>5. \A n \in 0 .. Ticks : sums[n] = IF n = 0 THEN 0 ELSE sums[n - 1] + w[n - 1]
    BY <1>3
<1>6. sums = [n \in 0 .. Ticks |-> sums[n]]
    BY <1>3
<1> HIDE DEF P, sums
<1>7. sums[0] = 0 /\ \A n \in 0 .. Ticks - 1 : sums[n + 1] = sums[n] + w[n]
    BY <1>5
<1>8. \A n \in 0 .. Ticks : sums[n] \in Nat
  <2> DEFINE S == {n \in 0 .. Ticks : sums[n] \in Nat}
  <2>1. 0 \in S
      BY <1>7
  <2>2. ASSUME NEW n \in 0 .. Ticks - 1, n \in S PROVE n + 1 \in S
      BY <1>7, <2>2 DEF Weights
  <2>3. 0 .. Ticks \subseteq S
    <3> HIDE DEF S
    <3> QED BY <2>1, <2>2, CountingUp
  <2> QED BY <2>3
<1> QED BY <1>4, <1>6, <1>7, <1>8 DEF SumsOf

(* A weight is no more than the total. *)
LEMMA TotalBounds ==
    ASSUME Ticks \in Nat \ {0}, NEW w \in Weights
    PROVE  Download!Total(w) \in Nat /\ \A age \in 0 .. Ticks - 1 : w[age] <= Download!Total(w)
<1>1. PICK f : SumsOf(f, w) /\ Download!Total(w) = f[Ticks]
    BY TotalLemma
<1>2. /\ \A n \in 0 .. Ticks : f[n] \in Nat
      /\ \A n \in 0 .. Ticks - 1 : f[n + 1] = f[n] + w[n] /\ w[n] \in Nat
    BY <1>1 DEF SumsOf, Weights
<1>3. ASSUME NEW age \in 0 .. Ticks - 1 PROVE w[age] <= f[Ticks]
  <2> DEFINE S == {n \in 0 .. Ticks : n > age => w[age] <= f[n]}
  <2>1. 0 \in S
      OBVIOUS
  <2>2. ASSUME NEW n \in 0 .. Ticks - 1, n \in S PROVE n + 1 \in S
    <3>1. CASE n = age
        BY <1>2, <3>1
    <3>2. CASE n > age
        BY <1>2, <2>2, <3>2
    <3> QED BY <3>1, <3>2
  <2>3. 0 .. Ticks \subseteq S
    <3> HIDE DEF S
    <3> QED BY <2>1, <2>2, CountingUp
  <2> QED BY <2>3
<1> QED BY <1>1, <1>2, <1>3

(* What is added now is added to the total ... *)
LEMMA TotalAdd ==
    ASSUME Ticks \in Nat \ {0}, NEW w \in Weights, NEW n \in Nat
    PROVE  /\ Download!Add(w, n) \in Weights
           /\ Download!Total(Download!Add(w, n)) = Download!Total(w) + n
<1> DEFINE v == Download!Add(w, n)
<1>1. v = [w EXCEPT ![0] = w[0] + n]
    BY DEF Download!Add
<1>2. v \in Weights
    BY <1>1 DEF Weights
<1>3. v[0] = w[0] + n /\ \A k \in 1 .. Ticks - 1 : v[k] = w[k]
    BY <1>1 DEF Weights
<1> HIDE DEF v
<1>4. PICK f : SumsOf(f, w) /\ Download!Total(w) = f[Ticks]
    BY TotalLemma
<1>5. PICK g : SumsOf(g, v) /\ Download!Total(v) = g[Ticks]
    BY <1>2, TotalLemma
<1>6. /\ \A k \in 0 .. Ticks : f[k] \in Nat
      /\ \A k \in 0 .. Ticks - 1 : /\ f[k + 1] = f[k] + w[k] /\ g[k + 1] = g[k] + v[k]
                                   /\ w[k] \in Nat
      /\ f[0] = 0 /\ g[0] = 0
    BY <1>4, <1>5 DEF SumsOf, Weights
<1> DEFINE S == {k \in 0 .. Ticks : k # 0 => g[k] = f[k] + n}
<1>7. ASSUME NEW k \in 0 .. Ticks - 1, k \in S PROVE k + 1 \in S
  <2>1. CASE k = 0
      BY <1>3, <1>6, <2>1
  <2>2. CASE k # 0
      BY <1>3, <1>6, <1>7, <2>2
  <2> QED BY <2>1, <2>2
<1>8. 0 .. Ticks \subseteq S
  <2>1. 0 \in S
      OBVIOUS
  <2> HIDE DEF S
  <2> QED BY <1>7, <2>1, CountingUp
<1> QED BY <1>2, <1>4, <1>5, <1>8 DEF v

(* ... and what grows too old leaves it. *)
LEMMA TotalAged ==
    ASSUME Ticks \in Nat \ {0}, NEW w \in Weights
    PROVE  /\ Download!Aged(w) \in Weights
           /\ Download!Total(Download!Aged(w)) <= Download!Total(w)
<1> DEFINE v == Download!Aged(w)
<1>1. v = [age \in 0 .. Ticks - 1 |-> IF age = 0 THEN 0 ELSE w[age - 1]]
    BY DEF Download!Aged
<1>2. v \in Weights
    BY <1>1 DEF Weights
<1>3. v[0] = 0 /\ \A k \in 1 .. Ticks - 1 : v[k] = w[k - 1]
    BY <1>1
<1> HIDE DEF v
<1>4. PICK f : SumsOf(f, w) /\ Download!Total(w) = f[Ticks]
    BY TotalLemma
<1>5. PICK g : SumsOf(g, v) /\ Download!Total(v) = g[Ticks]
    BY <1>2, TotalLemma
<1>6. /\ \A k \in 0 .. Ticks : f[k] \in Nat
      /\ \A k \in 0 .. Ticks - 1 : /\ f[k + 1] = f[k] + w[k] /\ g[k + 1] = g[k] + v[k]
                                   /\ w[k] \in Nat
      /\ f[0] = 0 /\ g[0] = 0
    BY <1>4, <1>5 DEF SumsOf, Weights
<1> DEFINE S == {k \in 0 .. Ticks : k # 0 => g[k] = f[k - 1]}
<1>7. ASSUME NEW k \in 0 .. Ticks - 1, k \in S PROVE k + 1 \in S
  <2>1. CASE k = 0
      BY <1>3, <1>6, <2>1
  <2>2. CASE k # 0
    <3>1. f[k - 1 + 1] = f[k - 1] + w[k - 1] /\ v[k] = w[k - 1] /\ g[k] = f[k - 1]
        BY <1>3, <1>6, <1>7, <2>2
    <3> QED BY <1>6, <3>1
  <2> QED BY <2>1, <2>2
<1>8. 0 .. Ticks \subseteq S
  <2>1. 0 \in S
      OBVIOUS
  <2> HIDE DEF S
  <2> QED BY <1>7, <2>1, CountingUp
<1>9. g[Ticks] = f[Ticks - 1] /\ f[Ticks - 1 + 1] = f[Ticks - 1] + w[Ticks - 1]
    BY <1>6, <1>8
<1> QED BY <1>2, <1>4, <1>5, <1>6, <1>9 DEF v

(* RateLimiter: what it granted in the last minute is within the budget. *)
BudgetInv ==
    /\ granted \in Weights /\ requested \in Weights
    /\ Download!Total(granted) <= Budget

LEMMA BudgetInitially == ASSUME Download!DownloadAssumption, Download!Init PROVE BudgetInv
<1>1. /\ Ticks \in Nat \ {0} /\ Budget \in Nat
      /\ granted = [age \in 0 .. Ticks - 1 |-> 0] /\ requested = granted
    BY DEF Download!DownloadAssumption, Download!Init
<1>2. granted \in Weights /\ \A k \in 0 .. Ticks - 1 : granted[k] = 0
    BY <1>1 DEF Weights
<1>3. PICK f : SumsOf(f, granted) /\ Download!Total(granted) = f[Ticks]
    BY <1>1, <1>2, TotalLemma
<1> DEFINE S == {k \in 0 .. Ticks : f[k] = 0}
<1>4. 0 .. Ticks \subseteq S
  <2>1. 0 \in S /\ \A k \in 0 .. Ticks - 1 : k \in S => k + 1 \in S
      BY <1>1, <1>2, <1>3 DEF SumsOf
  <2> HIDE DEF S
  <2> QED BY <1>1, <2>1, CountingUp
<1> QED BY <1>1, <1>2, <1>3, <1>4 DEF BudgetInv

LEMMA BudgetStep ==
    ASSUME Download!DownloadAssumption, BudgetInv, [Download!Next]_Download!vars
    PROVE  BudgetInv'
<1>0. Ticks \in Nat \ {0} /\ Budget \in Nat /\ \A n : Download!Weight(n) \in Nat
    BY DEF Download!DownloadAssumption, Download!Weight
<1>1. ASSUME UNCHANGED <<granted, requested>> PROVE BudgetInv'
    BY <1>1 DEF BudgetInv
<1>2. ASSUME NEW s \in Series, Download!Acquire(s) PROVE BudgetInv'
  <2> DEFINE n == Download!Weight(Download!PageSize(s))
  <2>1. /\ Download!Total(granted) + n <= Budget /\ n \in Nat
        /\ granted' = Download!Add(granted, n) /\ requested' = requested
      BY <1>0, <1>2 DEF Download!Acquire
  <2> HIDE DEF n
  <2>2. granted' \in Weights /\ Download!Total(granted') = Download!Total(granted) + n
      BY <1>0, <2>1, TotalAdd DEF BudgetInv
  <2> QED BY <2>1, <2>2 DEF BudgetInv
<1>3. ASSUME NEW s \in Series,
             \/ Download!Answer(s) \/ Download!Fails(s) \/ Download!Banned(s)
      PROVE  BudgetInv'
  <2> DEFINE n == Download!Weight(Download!PageSize(s))
  <2>1. n \in Nat /\ requested' = Download!Add(requested, n) /\ granted' = granted
      BY <1>0, <1>3 DEF Download!Answer, Download!Fails, Download!Banned
  <2> HIDE DEF n
  <2> QED BY <1>0, <2>1, TotalAdd DEF BudgetInv
<1>4. ASSUME NEW s \in Series,
             \/ Download!Start(s) \/ Download!Assemble(s) \/ Download!Recover(s)
             \/ Download!Collect(s)
      PROVE  BudgetInv'
    BY <1>1, <1>4 DEF Download!Start, Download!Assemble, Download!Recover,
                      Download!Collect, Download!weights
<1>5. CASE Download!PhaseEnds \/ UNCHANGED Download!vars
    BY <1>1, <1>5 DEF Download!PhaseEnds, Download!weights, Download!vars
<1>6. CASE Download!Tick
  <2>1. granted' = Download!Aged(granted) /\ requested' = Download!Aged(requested)
      BY <1>6 DEF Download!Tick
  <2>2. /\ granted' \in Weights /\ requested' \in Weights
        /\ Download!Total(granted') <= Download!Total(granted)
      BY <1>0, <2>1, TotalAged DEF BudgetInv
  <2>3. Download!Total(granted) \in Nat /\ Download!Total(granted') \in Nat
      BY <1>0, <2>2, TotalBounds DEF BudgetInv
  <2> QED BY <1>0, <2>2, <2>3 DEF BudgetInv
<1> QED BY <1>2, <1>3, <1>4, <1>5, <1>6 DEF Download!Next, Download!Step

(* The rate limiter keeps its promise for what it is asked: the weight it granted
   within one minute is never above the budget, however many workers ask for
   however many pages (backtest/backtest.py:175-185).  What is requested may be
   more: retries do not ask it. *)
THEOREM GrantedTheorem ==
    ASSUME Download!DownloadAssumption
    PROVE  Download!Spec => [](Download!Total(granted) <= Budget)
<1>1. BudgetInv => Download!Total(granted) <= Budget
    BY DEF BudgetInv
<1> QED BY <1>1, BudgetInitially, BudgetStep, PTL DEF Download!Spec

(* A task holds candles of its series, no more than were asked for, and no file
   holds more either: a file is named for its limit (backtest/backtest.py:226). *)
DownloadTypes ==
    /\ \A s \in Series :
        /\ rows[s] \subseteq 1 .. History[s] /\ Cardinality(rows[s]) <= Limit
        /\ file[s] \subseteq 1 .. History[s] /\ Cardinality(file[s]) <= Limit
        /\ dlPc[s] = "request" => tries[s] < Retries
    /\ tries \in [Series -> 0 .. Retries]
    /\ fresh \subseteq Series
    /\ datasets \subseteq Series /\ errors \subseteq Series \ datasets
    /\ phase \in {"download", "simulate"}

LEMMA SameCardinality == \A S : Download!Cardinality(S) = Cardinality(S)
BY Zenon DEF Cardinality, Download!Cardinality

LEMMA TypesInitially == ASSUME Download!DownloadAssumption, Download!Init PROVE DownloadTypes
<1> DEFINE m == Download!Min({MinCandles, Limit})
<1>1. /\ MinCandles \in Nat \ {0} /\ Limit \in Nat \ {0} /\ Retries \in Nat \ {0}
      /\ History \in [Series -> Nat]
    BY DEF Download!DownloadAssumption
<1>2. m \in Nat /\ m <= Limit
  <2>1. m = IF MinCandles <= Limit THEN MinCandles ELSE Limit
    <3>1. MinCandles \in Int /\ Limit \in Int
        BY <1>1
    <3> QED BY <3>1, SmallerOf, Zenon
  <2> QED BY <1>1, <2>1
<1>3. file \in [Series -> {{}, 1 .. m}] /\ \A s \in Series : file[s] \subseteq 1 .. History[s]
    BY DEF Download!Init
<1> HIDE DEF m
<1>4. Cardinality({}) = 0 /\ Cardinality(1 .. m) <= Limit
  <2>1. 1 \in Int /\ m \in Int
      BY <1>2
  <2>2. Cardinality(1 .. m) = IF 1 > m THEN 0 ELSE m - 1 + 1
      BY <2>1, FS_Interval, Zenon
  <2> QED BY <1>1, <1>2, <2>2, FS_EmptySet
<1>5. \A s \in Series : Cardinality(file[s]) <= Limit
  <2>1. \A s \in Series : file[s] = {} \/ file[s] = 1 .. m
      BY <1>3
  <2>2. 0 <= Limit
      BY <1>1
  <2> QED BY <1>4, <2>1, <2>2
<1>6. /\ dlPc = [s \in Series |-> "queued"] /\ rows = [s \in Series |-> {}]
      /\ tries = [s \in Series |-> 0] /\ fresh \subseteq Series
      /\ datasets = {} /\ errors = {} /\ phase = "download"
    BY DEF Download!Init
<1>7. \A s \in Series : rows[s] = {} /\ Cardinality(rows[s]) <= Limit
    BY <1>1, <1>4, <1>6
<1> QED BY <1>1, <1>3, <1>5, <1>6, <1>7 DEF DownloadTypes

(* Every step keeps the types. *)
LEMMA TypesStep ==
    ASSUME Download!DownloadAssumption, WholeInv, WholeInv', DownloadTypes,
           [Download!Next]_Download!vars
    PROVE  DownloadTypes'
<1> USE DEF Download!task, Download!files, Download!main, Download!weights, Download!Goto
<1>0. Retries \in Nat \ {0} /\ Limit \in Nat \ {0} /\ History \in [Series -> Nat]
    BY DEF Download!DownloadAssumption
<1>1. ASSUME UNCHANGED <<rows, file, fresh, datasets, errors, phase>>,
             tries' \in [Series -> 0 .. Retries],
             \A s \in Series : dlPc'[s] = "request" => tries'[s] < Retries
      PROVE  DownloadTypes'
    BY <1>1 DEF DownloadTypes
<1>2. ASSUME NEW s \in Series, NEW how \in {"cached", "fetched"}, NEW candles,
             candles \in {rows[s], file[s]}, Download!Used(s, candles, how),
             UNCHANGED <<tries, file, fresh, datasets, errors, phase>>
      PROVE  DownloadTypes'
  <2>1. /\ rows' = [rows EXCEPT ![s] = candles]
        /\ dlPc' = [dlPc EXCEPT ![s] = IF Download!Cardinality(candles) < MinCandles
                                       THEN "failed" ELSE how]
      BY <1>2 DEF Download!Used
  <2>2. dlPc'[s] # "request" /\ rows'[s] = candles
        /\ \A u \in Series \ {s} : dlPc'[u] = dlPc[u] /\ rows'[u] = rows[u]
      BY <1>2, <2>1 DEF WholeInv
  <2> QED BY <1>2, <2>2 DEF DownloadTypes
<1>3. ASSUME NEW s \in Series, Download!Start(s) PROVE DownloadTypes'
  <2>1. CASE s \in fresh
      BY <1>2, <1>3, <2>1 DEF Download!Start
  <2>2. CASE s \notin fresh
    <3>1. /\ dlPc' = [dlPc EXCEPT ![s] = "page"]
          /\ UNCHANGED <<rows, tries, file, fresh, datasets, errors, phase>>
        BY <1>3, <2>2 DEF Download!Start
    <3> QED BY <1>1, <3>1 DEF DownloadTypes, WholeInv
  <2> QED BY <2>1, <2>2
<1>4. ASSUME NEW s \in Series, Download!Acquire(s) PROVE DownloadTypes'
  <2>1. /\ tries' = [tries EXCEPT ![s] = 0] /\ dlPc' = [dlPc EXCEPT ![s] = "request"]
        /\ UNCHANGED <<rows, file, fresh, datasets, errors, phase>>
      BY <1>4 DEF Download!Acquire
  <2> QED BY <1>0, <1>1, <2>1 DEF DownloadTypes, WholeInv
<1>5. ASSUME NEW s \in Series, Download!Fails(s) \/ Download!Banned(s) PROVE DownloadTypes'
  <2>1. PICK l \in {"raised", "assemble"} :
            /\ dlPc[s] = "request" /\ tries' = [tries EXCEPT ![s] = tries[s] + 1]
            /\ dlPc' = [dlPc EXCEPT ![s] = IF tries'[s] < Retries THEN "request" ELSE l]
            /\ UNCHANGED <<rows, file, fresh, datasets, errors, phase>>
      BY <1>5 DEF Download!Fails, Download!Banned
  <2>2. tries[s] \in Nat /\ tries[s] < Retries
      BY <2>1 DEF DownloadTypes
  <2>3. tries' \in [Series -> 0 .. Retries]
      BY <1>0, <2>1, <2>2 DEF DownloadTypes
  <2>4. \A u \in Series : dlPc'[u] = "request" => tries'[u] < Retries
      BY <2>1 DEF DownloadTypes, WholeInv
  <2> QED BY <1>1, <2>1, <2>3, <2>4
<1>6. ASSUME NEW s \in Series, Download!Answer(s) PROVE DownloadTypes'
  <2>1. /\ dlPc'[s] \in {"assemble", "page"} /\ UNCHANGED <<tries, file, fresh, datasets, errors, phase>>
        /\ \A u \in Series \ {s} : dlPc'[u] = dlPc[u] /\ rows'[u] = rows[u]
      BY <1>6 DEF Download!Answer, WholeInv
  <2>2. /\ rows'[s] = end'[s] + 1 .. History[s] /\ end'[s] \in Nat
        /\ end'[s] <= History[s] /\ History[s] - end'[s] <= Limit
    <3>1. /\ rows'[s] = end'[s] + 1 .. History[s] /\ end'[s] \in Nat /\ end'[s] <= History[s]
          /\ \/ History[s] - end'[s] = Limit
             \/ History[s] - end'[s] < Limit
        BY <2>1 DEF WholeInv
    <3> QED BY <1>0, <3>1
  <2>3. rows'[s] \subseteq 1 .. History[s]
      BY <1>0, <2>2
  <2>4. Cardinality(rows'[s]) <= Limit
    <3>1. Download!Cardinality(rows'[s]) = History[s] - end'[s]
        BY <1>0, <2>2, RowCount, Zenon
    <3> QED BY <2>2, <3>1, SameCardinality
  <2> QED BY <2>1, <2>3, <2>4 DEF DownloadTypes
<1>7. ASSUME NEW s \in Series, Download!Assemble(s) PROVE DownloadTypes'
  <2>1. CASE rows[s] = {}
      BY <1>2, <1>7, <2>1 DEF Download!Assemble
  <2>2. CASE rows[s] # {}
    <3>1. /\ Download!Used(s, rows[s], "fetched")
          /\ file' = [file EXCEPT ![s] = rows[s]] /\ fresh' = fresh \cup {s}
          /\ UNCHANGED <<tries, datasets, errors, phase>>
        BY <1>7, <2>2 DEF Download!Assemble
    <3>2. /\ rows' = rows /\ dlPc'[s] # "request"
          /\ \A u \in Series \ {s} : dlPc'[u] = dlPc[u]
        BY <3>1 DEF Download!Used, WholeInv
    <3>3. \A u \in Series : file'[u] \in {rows[u], file[u]}
        BY <3>1 DEF WholeInv
    <3>4. \A u \in Series : file'[u] \subseteq 1 .. History[u] /\ Cardinality(file'[u]) <= Limit
        BY <3>3 DEF DownloadTypes
    <3> QED BY <3>1, <3>2, <3>4 DEF DownloadTypes
  <2> QED BY <2>1, <2>2
<1>8. ASSUME NEW s \in Series, Download!Recover(s) PROVE DownloadTypes'
    BY <1>2, <1>8 DEF Download!Recover
<1>9. ASSUME NEW s \in Series, Download!Collect(s) PROVE DownloadTypes'
  <2>1. /\ UNCHANGED <<dlPc, rows, tries, file, fresh, phase>> /\ s \notin datasets \cup errors
        /\ \/ errors' = errors \cup {s} /\ UNCHANGED datasets
           \/ datasets' = datasets \cup {s} /\ UNCHANGED errors
      BY <1>9 DEF Download!Collect
  <2>2. datasets' \subseteq Series /\ errors' \subseteq Series \ datasets'
      BY <2>1 DEF DownloadTypes
  <2> QED BY <2>1, <2>2 DEF DownloadTypes
<1>10. CASE Download!PhaseEnds
    BY <1>10 DEF Download!PhaseEnds, DownloadTypes
<1>11. CASE Download!Tick \/ UNCHANGED Download!vars
  <2>1. UNCHANGED <<dlPc, rows, tries, file, fresh, datasets, errors, phase>>
      BY <1>11 DEF Download!Tick, Download!vars
  <2> QED BY <2>1 DEF DownloadTypes
<1> QED
    BY <1>3, <1>4, <1>5, <1>6, <1>7, <1>8, <1>9, <1>10, <1>11 DEF Download!Next, Download!Step

(* Types, for any number of series, workers and attempts: rows and files hold
   candles of their series, at most as many as the limit, no task is tried more
   often than max_retries, no series is both a dataset and an error, and no tick
   of the limiter grants more than the budget (backtest/backtest.py:157-446). *)
THEOREM DownloadTypeCorrect ==
    ASSUME Download!DownloadAssumption PROVE Download!Spec => []Download!TypeOK
<1>1. WholeInv /\ DownloadTypes /\ BudgetInv => Download!TypeOK
  <2> SUFFICES ASSUME WholeInv, DownloadTypes, BudgetInv PROVE Download!TypeOK
      OBVIOUS
  <2>1. Ticks \in Nat \ {0} /\ Budget \in Nat
      BY DEF Download!DownloadAssumption
  <2>2. granted \in [0 .. Ticks - 1 -> 0 .. Budget] /\ requested \in [0 .. Ticks - 1 -> Nat]
    <3>1. /\ Download!Total(granted) \in Nat /\ Download!Total(granted) <= Budget
          /\ \A age \in 0 .. Ticks - 1 : granted[age] <= Download!Total(granted)
        BY <2>1, TotalBounds DEF BudgetInv
    <3>2. \A age \in 0 .. Ticks - 1 : granted[age] \in Nat
        BY DEF BudgetInv, Weights
    <3>3. \A age \in 0 .. Ticks - 1 : granted[age] \in 0 .. Budget
        BY <2>1, <3>1, <3>2
    <3> QED BY <3>3 DEF BudgetInv, Weights
  <2>3. \A s \in Series : Download!Cardinality(rows[s]) <= Limit /\ end[s] \in 0 .. History[s]
    <3>1. \A s \in Series : History[s] \in Nat /\ end[s] \in Nat /\ end[s] <= History[s]
        BY DEF WholeInv, Download!DownloadAssumption
    <3> QED BY <3>1, SameCardinality DEF DownloadTypes
  <2> QED BY <2>2, <2>3 DEF WholeInv, DownloadTypes, Download!TypeOK
<1> QED
    BY <1>1, DownloadInitially, DownloadStep, BudgetInitially, BudgetStep,
       TypesInitially, TypesStep, PTL DEF Download!Spec
=============================================================================
