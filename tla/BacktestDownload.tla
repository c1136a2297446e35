-------------------------- MODULE BacktestDownload --------------------------
(* backtest/backtest.py, phase 1: a pool of threads downloads one series of   *)
(* candles each, page by page from the newest candle to older ones, under a   *)
(* shared budget of request weight; finished series are kept in cache files;  *)
(* the main thread collects what is done until all is, or until ctrl-C.       *)
(*                                                                            *)
(* A candle is its index, History the newest.  Time is kept as ages: what was *)
(* granted and requested `age` ticks ago, for as long as the limiter looks    *)
(* back.                                                                      *)
EXTENDS Integers, FiniteSets, FiniteSetsExt

CONSTANTS
    Series,        \* download tasks (symbol, interval)
    History,       \* per series: candles the exchange has
    Limit,         \* CANDLES_PER_INTERVAL
    PageMax,       \* MAX_PER_REQUEST
    MinCandles,    \* fewer than this are an error
    Retries,       \* max_retries
    Workers,       \* MAX_DL_WORKERS
    Budget,        \* RATE_LIMIT_PER_MIN
    Ticks,         \* the minute of the limiter
    Faults         \* subset of {"error", "ban"}

(* A weight above the budget would wait for ever (_weight_for_limit is at
   most 10, BACKTEST_RATE_LIMIT_PER_MIN any positive number). *)
Weight(n) == IF n >= PageMax THEN 2 ELSE 1

(* Assumed of the constants, by the module that instantiates this one. *)
DownloadAssumption ==
    /\ IsFiniteSet(Series)
    /\ History \in [Series -> Nat]
    /\ {Limit, PageMax, MinCandles, Retries, Workers, Ticks} \subseteq Nat \ {0}
    /\ Budget \in Nat /\ Weight(PageMax) <= Budget
    /\ Faults \subseteq {"error", "ban"}

VARIABLES
    pc,        \* per series: where its task is
    rows,      \* all_rows: the candles it has
    end,       \* the newest candle of the next page; History at first
    tries,     \* attempt
    file,      \* per series: the cache file, a set of candles, {} if missing
    fresh,     \* series whose file is younger than KLINE_CACHE_MAX_AGE_MIN
    granted, requested,   \* weight granted and requested, by age
    datasets,  \* kline_data: what the main thread has collected
    errors,    \* series collected as an error
    phase      \* "download" or "simulate"

vars == <<pc, rows, end, tries, file, fresh, granted, requested, datasets, errors, phase>>
task == <<pc, rows, end, tries>>
files == <<file, fresh>>
main == <<datasets, errors, phase>>
weights == <<granted, requested>>

PCs == {"queued", "page", "request", "assemble", "raised", "fetched", "cached", "failed"}
Over == {"fetched", "cached", "failed"}

TypeOK ==
    /\ pc \in [Series -> PCs]
    /\ \A s \in Series : /\ rows[s] \subseteq 1 .. History[s]
                         /\ file[s] \subseteq 1 .. History[s]
                         /\ end[s] \in 0 .. History[s]
                         /\ Cardinality(rows[s]) <= Limit
    /\ tries \in [Series -> 0 .. Retries]
    /\ fresh \subseteq Series
    /\ granted \in [0 .. Ticks - 1 -> 0 .. Budget]
    /\ requested \in [0 .. Ticks - 1 -> Nat]
    /\ datasets \subseteq Series /\ errors \subseteq Series \ datasets
    /\ phase \in {"download", "simulate"}

Init ==
    /\ pc = [s \in Series |-> "queued"]
    /\ rows = [s \in Series |-> {}]
    /\ end = History
    /\ tries = [s \in Series |-> 0]
    (* an earlier run left a file of then for the same limit, or none *)
    /\ file \in [Series -> {{}, 1 .. Min({MinCandles, Limit})}]
    /\ \A s \in Series : file[s] \subseteq 1 .. History[s]
    /\ fresh \in SUBSET {s \in Series : file[s] # {}}
    /\ granted = [age \in 0 .. Ticks - 1 |-> 0]
    /\ requested = granted
    /\ datasets = {} /\ errors = {}
    /\ phase = "download"

-----------------------------------------------------------------------------
Goto(s, l) == pc' = [pc EXCEPT ![s] = l]

(* What counts as done: the rows that were used, if there are enough. *)
Used(s, candles, how) ==
    /\ Goto(s, IF Cardinality(candles) < MinCandles THEN "failed" ELSE how)
    /\ rows' = [rows EXCEPT ![s] = candles]

Running == {s \in Series : pc[s] \notin Over \cup {"queued"}}

(* A worker takes the task; a young cache file is the result. *)
Start(s) ==
    /\ pc[s] = "queued"
    /\ Cardinality(Running) < Workers /\ phase = "download"
    /\ IF s \in fresh
       THEN Used(s, file[s], "cached")
       ELSE Goto(s, "page") /\ UNCHANGED rows
    /\ UNCHANGED <<end, tries, files, weights, main>>

PageSize(s) == Min({Limit - Cardinality(rows[s]), PageMax})

Add(weight, n) == [weight EXCEPT ![0] = @ + n]
Total(weight) ==
    LET upTo[n \in 0 .. Ticks] == IF n = 0 THEN 0 ELSE upTo[n - 1] + weight[n - 1]
    IN  upTo[Ticks]

(* RateLimiter.acquire *)
Acquire(s) ==
    /\ pc[s] = "page"
    /\ Total(granted) + Weight(PageSize(s)) <= Budget
    /\ granted' = Add(granted, Weight(PageSize(s)))
    /\ tries' = [tries EXCEPT ![s] = 0]
    /\ Goto(s, "request")
    /\ UNCHANGED <<rows, end, files, requested, main>>

(* The page of candles up to the newest one asked for. *)
Page(s) == Max({1, end[s] - PageSize(s) + 1}) .. end[s]

(* The mutant ends the next page one candle too early. *)
NextEnd_Skips(page) == Max({0, Min(page) - 2})
NextEnd(page) == Min(page) - 1

Answer(s) ==
    /\ pc[s] = "request"
    /\ requested' = Add(requested, Weight(PageSize(s)))
    /\ rows' = [rows EXCEPT ![s] = @ \cup Page(s)]
    /\ end' = [end EXCEPT ![s] = IF Page(s) = {} THEN @ ELSE NextEnd(Page(s))]
    /\ Goto(s, IF \/ Cardinality(Page(s)) < PageSize(s)
                  \/ Cardinality(rows'[s]) = Limit
               THEN "assemble" ELSE "page")
    /\ UNCHANGED <<tries, files, granted, main>>

(* A failed request is repeated after a pause, without asking the limiter
   again; the last one raises. *)
Fails(s) ==
    /\ "error" \in Faults /\ pc[s] = "request"
    /\ requested' = Add(requested, Weight(PageSize(s)))
    /\ tries' = [tries EXCEPT ![s] = @ + 1]
    /\ Goto(s, IF tries'[s] < Retries THEN "request" ELSE "raised")
    /\ UNCHANGED <<rows, end, files, granted, main>>

(* A ban is slept out and costs an attempt too; the last one does not raise:
   klines is None and the paging just ends. *)
Banned(s) ==
    /\ "ban" \in Faults /\ pc[s] = "request"
    /\ requested' = Add(requested, Weight(PageSize(s)))
    /\ tries' = [tries EXCEPT ![s] = @ + 1]
    /\ Goto(s, IF tries'[s] < Retries THEN "request" ELSE "assemble")
    /\ UNCHANGED <<rows, end, files, granted, main>>

(* The rows in order, with their indicators, are saved and used; without rows
   a file of any age is. *)
Assemble(s) ==
    /\ pc[s] = "assemble"
    /\ IF rows[s] = {}
       THEN Used(s, file[s], "cached") /\ UNCHANGED files
       ELSE /\ Used(s, rows[s], "fetched")
            /\ file' = [file EXCEPT ![s] = rows[s]]
            /\ fresh' = fresh \cup {s}
    /\ UNCHANGED <<end, tries, weights, main>>

(* _download_one: after an error a file of any age. *)
Recover(s) ==
    /\ pc[s] = "raised"
    /\ Used(s, file[s], "cached")
    /\ UNCHANGED <<end, tries, files, weights, main>>

(* The main thread: as_completed. *)
Collect(s) ==
    /\ phase = "download"
    /\ pc[s] \in Over /\ s \notin datasets \cup errors
    /\ IF pc[s] = "failed"
       THEN errors' = errors \cup {s} /\ UNCHANGED datasets
       ELSE datasets' = datasets \cup {s} /\ UNCHANGED errors
    /\ UNCHANGED <<task, files, weights, phase>>

(* All collected, or KeyboardInterrupt: running tasks go on unheard. *)
PhaseEnds ==
    /\ phase = "download"
    /\ phase' = "simulate"
    /\ UNCHANGED <<task, files, weights, datasets, errors>>

(* The mutant forgets nothing. *)
Aged_Never(weight) == weight
Aged(weight) == [age \in 0 .. Ticks - 1 |-> IF age = 0 THEN 0 ELSE weight[age - 1]]

Tick ==
    /\ granted' = Aged(granted) /\ requested' = Aged(requested)
    /\ UNCHANGED <<task, files, main>>

Step(s) ==
    \/ Start(s) \/ Acquire(s) \/ Answer(s) \/ Fails(s) \/ Banned(s)
    \/ Assemble(s) \/ Recover(s)

Next == Tick \/ PhaseEnds \/ \E s \in Series : Step(s) \/ Collect(s)

Spec == Init /\ [][Next]_vars

(* Threads run and time passes. *)
FairSpec == Spec /\ WF_vars(Tick) /\ \A s \in Series : WF_vars(Step(s))

-----------------------------------------------------------------------------
Newest(s, n) == Max({1, History[s] - n + 1}) .. History[s]

(* A downloaded series has no hole and ends with the newest candle, however
   its pages were retried (backtest.py:379-425), and unless bans cut it short
   it is as long as asked for or as the exchange has. *)
SeriesWhole ==
    \A s \in Series : pc[s] = "fetched" =>
        /\ rows[s] = Newest(s, Cardinality(rows[s]))
        /\ "ban" \notin Faults => rows[s] = Newest(s, Limit)

(* A file that counts as a download is one: refuted with bans, after which the
   first pages alone are saved (backtest.py:393-405, 446). *)
FileIsWhole ==
    \A s \in Series : pc[s] = "fetched" => file[s] = Newest(s, Limit)

(* Every download that was started ends, whatever fails and whoever else wants
   the budget (backtest.py:175-185, 383-402). *)
DownloadsEnd == \A s \in Series : pc[s] \in {"page", "request"} ~> pc[s] \in Over

(* "A RateLimiter class enforces the Binance 2300 weight/min budget."
   (backtest.py:13): refuted, retries are not asked of the limiter, and a
   granted request may be sent in the next minute. *)
RequestsWithinBudget == Total(requested) <= Budget
=============================================================================
