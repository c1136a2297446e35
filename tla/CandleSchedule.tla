--------------------------- MODULE CandleSchedule ---------------------------
(* data_stream.MarketDataStream._scheduler_loop: when which intervals are     *)
(* polled and their callbacks made.                                           *)
(*                                                                            *)
(* The loop sleeps until Buffer seconds after the next close of the main      *)
(* interval, polls the intervals that closed up to Window seconds ago, makes  *)
(* their callbacks one after the other, and only then looks at the clock      *)
(* again.  Nothing is caught up: what closes during a round is left to luck.  *)
(* What a poll stores is in MarketDataStream, a callback in EntryService.     *)
(*                                                                            *)
(* Bounds for TLC: MaxTime; MaxLate, MaxPoll and MaxCall are the longest a    *)
(* wake-up is late and a poll and a callback take.                            *)
EXTENDS Integers, FiniteSets

CONSTANTS
    Intervals,      \* those with a callback
    MainInterval,
    Period,         \* _INTERVAL_SECONDS
    CallbackOrder,  \* place in the order of registration
    Buffer, Window,
    MaxLate, MaxPoll, MaxCall, MaxTime

(* Assumed of the constants, by the module that instantiates this one. *)
ScheduleAssumption ==
    /\ MainInterval \in Intervals
    /\ Period \in [Intervals -> Nat \ {0}] /\ CallbackOrder \in [Intervals -> Nat]
    /\ \A iv \in Intervals : Period[iv] % Period[MainInterval] = 0
    /\ {Buffer, Window, MaxLate, MaxPoll, MaxCall, MaxTime} \subseteq Nat
    /\ Buffer + MaxLate <= Window
    /\ Window < Period[MainInterval]

VARIABLES
    now,
    pc,         \* the thread: "loop", "asleep", "poll", "callbacks" or "done"
    wakeAt,     \* when it means to wake up
    polledAt,   \* when the poll of this round began
    due,        \* intervals whose callback is still to be made
    stopping,   \* _stop_event
    started,    \* history: when the scheduler was started
    evaluated,  \* history, per interval: the closes a callback was made for
    overrun     \* history: the main closes that fell into a round

vars == <<now, pc, wakeAt, polledAt, due, stopping, started, evaluated, overrun>>

PCs == {"loop", "asleep", "poll", "callbacks", "done"}

TypeOK ==
    /\ {now, wakeAt, polledAt, started} \subseteq Nat
    /\ pc \in PCs
    /\ due \subseteq Intervals
    /\ pc \in {"loop", "asleep", "done"} => due = {}
    /\ stopping \in BOOLEAN
    /\ \A iv \in Intervals : evaluated[iv] \subseteq 1 .. now
    /\ \A t \in overrun : t \in 1 .. now /\ t % Period[MainInterval] = 0

(* start_scheduler, at any moment of a main candle. *)
Init ==
    /\ now \in 0 .. Period[MainInterval] - 1
    /\ started = now
    /\ pc = "loop"
    /\ wakeAt = 0 /\ polledAt = 0
    /\ due = {}
    /\ stopping = FALSE
    /\ evaluated = [iv \in Intervals |-> {}]
    /\ overrun = {}

-----------------------------------------------------------------------------
(* _seconds_to_next_close *)
SecondsToNextClose == (Period[MainInterval] - (now % Period[MainInterval])) + Buffer

Sleep ==
    /\ pc = "loop" /\ ~stopping
    /\ wakeAt' = now + SecondsToNextClose
    /\ wakeAt' <= MaxTime
    /\ pc' = "asleep"
    /\ UNCHANGED <<now, polledAt, due, stopping, started, evaluated, overrun>>

(* _due_intervals: the main interval, and each one that closed a moment ago.
   The mutant asks for a whole main candle, as if polls were exact. *)
DueIntervals_Exact(t) == {iv \in Intervals : t % Period[iv] = Buffer} \cup {MainInterval}
DueIntervals(t) == {iv \in Intervals : t % Period[iv] <= Window} \cup {MainInterval}

Wake ==
    /\ pc = "asleep" /\ ~stopping
    /\ \E late \in 0 .. MaxLate : now' = wakeAt + late
    /\ due' = DueIntervals(now')
    /\ pc' = "poll"
    /\ UNCHANGED <<wakeAt, polledAt, stopping, started, evaluated, overrun>>

(* _refresh_intervals *)
Poll ==
    /\ pc = "poll"
    /\ polledAt' = now
    /\ \E d \in 0 .. MaxPoll : now' = now + d
    /\ pc' = "callbacks"
    /\ UNCHANGED <<wakeAt, due, stopping, started, evaluated, overrun>>

(* The close that was the newest of the interval when it was polled. *)
Close(iv) == polledAt \div Period[iv]

(* The callback of an interval; one that raises is logged and has been made. *)
MakeCallback(iv) ==
    /\ pc = "callbacks" /\ iv \in due
    /\ \A other \in due : CallbackOrder[iv] <= CallbackOrder[other]
    /\ evaluated' = [evaluated EXCEPT ![iv] = @ \cup {Close(iv)}]
    /\ due' = due \ {iv}
    /\ \E d \in 0 .. MaxCall : now' = now + d
    /\ UNCHANGED <<pc, wakeAt, polledAt, stopping, started, overrun>>

RoundEnds ==
    /\ pc = "callbacks" /\ due = {}
    /\ pc' = "loop"
    /\ overrun' = overrun \cup
                    {t \in polledAt + 1 .. now : t % Period[MainInterval] = 0}
    /\ UNCHANGED <<now, wakeAt, polledAt, due, stopping, started, evaluated>>

(* stop(), at any time: a sleeping loop wakes up at once, a round is not
   interrupted. *)
Stop ==
    /\ ~stopping
    /\ stopping' = TRUE
    /\ UNCHANGED <<now, pc, wakeAt, polledAt, due, started, evaluated, overrun>>

LoopEnds ==
    /\ stopping /\ pc \in {"loop", "asleep"}
    /\ pc' = "done"
    /\ UNCHANGED <<now, wakeAt, polledAt, due, stopping, started, evaluated, overrun>>

Scheduler ==
    \/ Sleep \/ Wake \/ Poll \/ RoundEnds \/ LoopEnds
    \/ \E iv \in Intervals : MakeCallback(iv)

Next == Scheduler \/ Stop

Spec == Init /\ [][Next]_vars

-----------------------------------------------------------------------------
(* No close is lost but those that fall into a round, and none is evaluated
   twice: when the loop looks at the clock again, each interval's closes since
   the start have had their callback, or a main close at the same moment found
   the thread still in a round (data_stream.py:190-194, 255-264, 282-317).  The
   two seconds of the buffer, the thirty of the window, the order of the
   callbacks and the moment a round ends must fit together for it. *)
EachCloseOnce ==
    /\ pc = "loop" =>
         \A iv \in Intervals : \A c \in 1 .. now \div Period[iv] :
            c * Period[iv] > started =>
                c \in evaluated[iv] \/ c * Period[iv] \in overrun
    /\ pc = "callbacks" => \A iv \in due : Close(iv) \notin evaluated[iv]

(* Rounds that end before the next main close lose nothing
   (data_stream.py:190-194). *)
NothingLost ==
    pc = "loop" =>
        \A iv \in Intervals : \A c \in 1 .. now \div Period[iv] :
            c * Period[iv] > started => c \in evaluated[iv]
=============================================================================
