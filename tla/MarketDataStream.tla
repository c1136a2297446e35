-------------------------- MODULE MarketDataStream --------------------------
(***************************************************************************)
(* data_stream.MarketDataStream for one (symbol, interval), with the       *)
(* deduplication of its reader EntryService._resolve_interval_close.       *)
(*                                                                         *)
(* The scheduler thread polls after each candle close, a pool worker       *)
(* fetches the latest klines and stores them under the lock, the scheduler *)
(* then runs the close callback.  Monitor threads read data frames at any  *)
(* time; a frame is built outside the lock.                                *)
(*                                                                         *)
(* A candle is its index in time and whether it had closed when the        *)
(* exchange was asked: its values are final only then.                     *)
(*                                                                         *)
(* Bounds for TLC: MaxNow candles; MaxGap is how far the exchange may get  *)
(* ahead of the stored series (polls that fail or are skipped).            *)
(***************************************************************************)
EXTENDS Integers, Sequences, SequencesExt

CONSTANTS
    Workers,    \* threads of the pool
    Readers,    \* monitor threads
    Late,       \* jobs, of {"initial", "poll"}, that may outlive their wait
    MaxLen,     \* maxlen of the deque
    MaxGap,
    MaxNow

ASSUME StreamAssumption ==
    /\ Workers # {} /\ Late \subseteq {"initial", "poll"}
    /\ {MaxLen, MaxGap, MaxNow} \subseteq Nat
    /\ MaxLen >= 3 /\ MaxNow >= MaxLen

VARIABLES
    now,        \* exchange: the candle that is forming
    series,     \* _candles[interval][symbol]
    cache,      \* _df_cache, or NoFrame
    dirty,      \* _df_dirty
    worker,     \* per worker: job in hand, its progress and the rows it got
    sched,      \* scheduler thread: where it is
    polledAt,   \* the candle that was forming when the last poll began
    reading,    \* per reading thread: "idle", "building" or "got", and the data
    lastClose,  \* EntryService: last_close_ms, or NoClose
    evaluated,  \* history: the closes the callback has evaluated
    stale,      \* history: threads that cached a frame of rows that had changed
    outage      \* history: a fetch found the series more than two candles behind

history == <<evaluated, stale, outage>>
vars == <<now, series, cache, dirty, worker, sched, polledAt, reading, lastClose, history>>

NoFrame == <<>>
NoClose == 0
Scheduler == "scheduler"
Threads == Readers \cup {Scheduler}

Candles == [t : 1 .. MaxNow, closed : BOOLEAN]
IsRows(s) == s \in Seq(Candles) /\ Len(s) <= MaxLen

TypeOK ==
    /\ now \in 1 .. MaxNow
    /\ IsRows(series) /\ IsRows(cache) /\ dirty \in BOOLEAN
    /\ worker \in [Workers -> [job : {"none", "initial", "poll"}, rows : Seq(Candles)]]
    /\ \A w \in Workers : worker[w].job = "none" => worker[w].rows = <<>>
    /\ sched \in {"loading", "sleeping", "polling", "reading", "resolving"}
    /\ polledAt \in 1 .. MaxNow
    /\ reading \in [Threads -> [pc : {"idle", "building", "got"}, data : Seq(Candles)]]
    /\ \A t \in Threads : Len(reading[t].data) <= MaxLen
    /\ lastClose \in 0 .. MaxNow
    /\ evaluated \in Seq(1 .. MaxNow)
    /\ stale \subseteq Threads /\ outage \in BOOLEAN

NoJob == [job |-> "none", rows |-> <<>>]
Ask(job) == [job |-> job, rows |-> <<>>]
NotReading == [pc |-> "idle", data |-> <<>>]

(* load_initial has just submitted its task. *)
Init ==
    /\ now = MaxLen
    /\ series = <<>> /\ cache = NoFrame /\ dirty = FALSE
    /\ \E w \in Workers : worker = [v \in Workers |-> IF v = w THEN Ask("initial") ELSE NoJob]
    /\ sched = "loading"
    /\ polledAt = MaxLen
    /\ reading = [t \in Threads |-> NotReading]
    /\ lastClose = NoClose
    /\ evaluated = <<>> /\ stale = {} /\ outage = FALSE

-----------------------------------------------------------------------------
(* futures_klines: the newest candles, the last of them still forming. *)
Klines(limit) ==
    [i \in 1 .. limit |-> [t |-> now - limit + i, closed |-> i < limit]]

FetchLimit_Two == 2
FetchLimit == 3

(* A bounded deque drops its oldest row. *)
KeepLast_All(s) == s
KeepLast(s) == IF Len(s) > MaxLen THEN Tail(s) ELSE s

(* One row of _fetch_and_update; the mutant forgets that a further row changes
   the frame. *)
StoreRow_NoMark(acc, row) ==
    IF acc.s # <<>> /\ Last(acc.s).t = row.t
    THEN [s |-> [acc.s EXCEPT ![Len(acc.s)] = row], dirty |-> acc.dirty \/ Last(acc.s) # row]
    ELSE [acc EXCEPT !.s = KeepLast(Append(@, row))]
StoreRow(acc, row) ==
    IF acc.s # <<>> /\ Last(acc.s).t = row.t
    THEN [s |-> [acc.s EXCEPT ![Len(acc.s)] = row], dirty |-> acc.dirty \/ Last(acc.s) # row]
    ELSE [s |-> KeepLast(Append(acc.s, row)), dirty |-> TRUE]

(* The rows of a fetch are stored one after the other; there are no more than
   three. *)
StoreNext(acc, rows, i) == IF i <= Len(rows) THEN StoreRow(acc, rows[i]) ELSE acc
StoreRows(rows) ==
    LET first == StoreNext([s |-> series, dirty |-> dirty], rows, 1)
        second == StoreNext(first, rows, 2)
    IN StoreNext(second, rows, 3)

-----------------------------------------------------------------------------
(* The exchange. *)
CandleCloses ==
    /\ now < MaxNow
    /\ \A rows \in {series} \cup {worker[w].rows : w \in Workers} :
          rows # <<>> => now - Last(rows).t < MaxGap
    /\ now' = now + 1
    /\ UNCHANGED <<series, cache, dirty, worker, sched, polledAt, reading, lastClose, history>>

(* The request of a worker is answered. *)
FetchAnswered(w) ==
    /\ worker[w].job # "none" /\ worker[w].rows = <<>>
    /\ worker' = [worker EXCEPT ![w].rows =
                    Klines(IF worker[w].job = "initial" THEN MaxLen ELSE FetchLimit)]
    /\ outage' = (outage \/ (series # <<>> /\ now - Last(series).t > 2))
    /\ UNCHANGED <<now, series, cache, dirty, sched, polledAt, reading, lastClose,
                   evaluated, stale>>

(* It fails (for the initial load: three times), or is cancelled in the queue. *)
FetchFailed(w) ==
    /\ worker[w].job # "none" /\ worker[w].rows = <<>>
    /\ worker' = [worker EXCEPT ![w] = NoJob]
    /\ UNCHANGED <<now, series, cache, dirty, sched, polledAt, reading, lastClose, history>>

(* _load_initial_one under the lock. *)
StoreInitial(w) ==
    /\ worker[w].job = "initial" /\ worker[w].rows # <<>>
    /\ series' = worker[w].rows
    /\ dirty' = TRUE
    /\ worker' = [worker EXCEPT ![w] = NoJob]
    /\ UNCHANGED <<now, cache, sched, polledAt, reading, lastClose, history>>

(* _fetch_and_update under the lock. *)
StorePoll(w) ==
    /\ worker[w].job = "poll" /\ worker[w].rows # <<>>
    /\ LET new == StoreRows(worker[w].rows)
       IN series' = new.s /\ dirty' = new.dirty
    /\ worker' = [worker EXCEPT ![w] = NoJob]
    /\ UNCHANGED <<now, cache, sched, polledAt, reading, lastClose, history>>

(* wait(futures, timeout): every task is done, or a running one is left alone. *)
Waited(job) == job \in Late \/ \A w \in Workers : worker[w].job # job

LoadEnds ==
    /\ sched = "loading" /\ Waited("initial")
    /\ sched' = "sleeping"
    /\ UNCHANGED <<now, series, cache, dirty, worker, polledAt, reading, lastClose, history>>

(* _scheduler_loop after a boundary of the interval. *)
PollStarts(w) ==
    /\ sched = "sleeping" /\ now > polledAt
    /\ worker[w].job = "none"
    /\ worker' = [worker EXCEPT ![w] = Ask("poll")]
    /\ polledAt' = now
    /\ sched' = "polling"
    /\ UNCHANGED <<now, series, cache, dirty, reading, lastClose, history>>

PollEnds ==
    /\ sched = "polling" /\ Waited("poll")
    /\ sched' = "reading"
    /\ UNCHANGED <<now, series, cache, dirty, worker, polledAt, reading, lastClose, history>>

-----------------------------------------------------------------------------
(* get_dataframe.  A monitor reads at any time, the scheduler in its callback. *)
MayRead(t) == reading[t].pc = "idle" /\ (t = Scheduler => sched = "reading")

(* The thread has its frame: the callback goes on, a monitor is done. *)
Got(t, rows) ==
    /\ reading' = [reading EXCEPT ![t] =
                     IF t = Scheduler THEN [pc |-> "got", data |-> rows] ELSE NotReading]
    /\ sched' = IF t = Scheduler THEN "resolving" ELSE sched

ReadCached(t) ==
    /\ MayRead(t)
    /\ cache # NoFrame /\ ~dirty
    /\ Got(t, cache)
    /\ UNCHANGED <<now, series, cache, dirty, worker, polledAt, lastClose, history>>

ReadSeries(t) ==
    /\ MayRead(t)
    /\ cache = NoFrame \/ dirty
    /\ reading' = [reading EXCEPT ![t] = [pc |-> "building", data |-> series]]
    /\ UNCHANGED <<now, series, cache, dirty, worker, sched, polledAt, lastClose, history>>

(* The frame enters the cache; one without rows leaves it. *)
FrameBuilt(t) ==
    /\ reading[t].pc = "building"
    /\ cache' = reading[t].data
    /\ dirty' = FALSE
    /\ Got(t, reading[t].data)
    /\ stale' = IF reading[t].data = series THEN stale ELSE stale \cup {t}
    /\ UNCHANGED <<now, series, worker, polledAt, lastClose, evaluated, outage>>

(* _resolve_interval_close: a close is evaluated unless it was the last one. *)
NewClose_Always(rows) == rows # <<>>
NewClose(rows) == rows # <<>> /\ Last(rows).t # lastClose

OnClose ==
    LET rows == reading[Scheduler].data
    IN /\ sched = "resolving"
       /\ sched' = "sleeping"
       /\ reading' = [reading EXCEPT ![Scheduler] = NotReading]
       /\ IF NewClose(rows)
          THEN /\ lastClose' = Last(rows).t
               /\ evaluated' = Append(evaluated, Last(rows).t)
          ELSE UNCHANGED <<lastClose, evaluated>>
       /\ UNCHANGED <<now, series, cache, dirty, worker, polledAt, stale, outage>>

Next ==
    \/ CandleCloses
    \/ \E w \in Workers :
        \/ FetchAnswered(w) \/ FetchFailed(w)
        \/ StoreInitial(w) \/ StorePoll(w)
        \/ PollStarts(w)
    \/ LoadEnds \/ PollEnds \/ OnClose
    \/ \E t \in Threads : ReadCached(t) \/ ReadSeries(t) \/ FrameBuilt(t)

Spec == Init /\ [][Next]_vars

-----------------------------------------------------------------------------
(* Properties.                                                             *)

Times(s) == {s[i].t : i \in DOMAIN s}
IsLastCopy(s, i) == \A j \in i + 1 .. Len(s) : s[j].t # s[i].t

(* However the fetches interleave with failures, no candle between the oldest
   and the newest one held is missing, and the latest copy of every candle
   before the newest has its final values: the three rows of a fetch bridge
   one missed poll, and only a longer outage leaves a hole
   (data_stream.py:197-218). *)
TailComplete ==
    ~outage => \A i \in DOMAIN series :
        /\ series[i].t <= Last(series).t
        /\ series[i].t .. Last(series).t \subseteq Times(series)
        /\ IsLastCopy(series, i) /\ series[i].t < Last(series).t => series[i].closed

(* "DataFrame snapshot cache invalidation on replace/append." (CHANGELOG.md:35):
   a frame that counts as clean holds the rows of the series, until the rows
   that some thread had built its frame from changed before it was cached. *)
CleanCacheIsSeries ==
    stale = {} => (cache # NoFrame /\ ~dirty => cache = series)

(* A close is evaluated once, and never after a later one: what a fetch that
   fails, or answers after the wait, leaves in the frame does not trigger the
   entry logic again, unless a monitor has cached an outdated frame
   (entry_service.py:172-184). *)
EvaluatedInOrder ==
    stale \subseteq {Scheduler} =>
        \A i \in 1 .. Len(evaluated) - 1 : evaluated[i] < evaluated[i + 1]

(* "test_on_close_same_candle_is_processed_once"
   (tests/test_entry_callback_dedupe.py:24): no close is evaluated twice. *)
EvaluatedOnce == \A i, j \in DOMAIN evaluated : evaluated[i] = evaluated[j] => i = j

(* A row with a known open time replaces the stored one: "Replacement can
   change final OHLCV values." (data_stream.py:212). *)
UniqueOpenTimes == \A i, j \in DOMAIN series : series[i].t = series[j].t => i = j
=============================================================================
