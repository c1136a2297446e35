---------------------------- MODULE MCMarketData ----------------------------
(* What becomes of the candles, live and in the backtest: MarketDataStream,  *)
(* CandleSchedule, SignalScan, BacktestDownload and BacktestSimulation, one  *)
(* of them moving in each scenario, chosen at the start:                     *)
(*   tail      a poll missed now and then, a monitor that reads (the         *)
(*             constants of the cfg);                                        *)
(*   single    longer outages, the callback is the only reader;              *)
(*   late      polls that are answered after their wait;                     *)
(*   rounds    two intervals, rounds that end before the next close;         *)
(*   overruns  callbacks that take longer than a main candle;                *)
(*   cache     two symbols with two kinds of frames, room for all but one;   *)
(*   pages     two series of two pages, one shorter, errors;                 *)
(*   bans      one series, errors and bans;                                  *)
(*   series    one symbol, long enough for four trades;                      *)
(*   merge     two symbols with two series each, failures and ctrl-C.        *)
(* One pool worker is enough for one key: a request ends before the next     *)
(* poll of its key.                                                          *)
EXTENDS MarketDataStream

CONSTANTS s1, s2

VARIABLES
    scenario,
    time, loopPc, wakeAt, roundAt, due, stopping, started,          \* CandleSchedule
    evaluations, overrun,
    frames, scanPc, index, read, indicators, icache, valid, scans,   \* SignalScan
    dlPc, rows, end, tries, file, fresh, granted, requested,         \* BacktestDownload
    datasets, errors, dlPhase,
    simPc, interval, candle, touched, context, position, trades, phase,   \* BacktestSimulation
    merged, collected, report

scheduleVars == <<time, loopPc, wakeAt, roundAt, due, stopping, started, evaluations, overrun>>
scanVars == <<frames, scanPc, index, read, indicators, icache, valid, scans>>
downloadVars == <<dlPc, rows, end, tries, file, fresh, granted, requested,
                  datasets, errors, dlPhase>>
simulationVars == <<simPc, interval, candle, touched, context, position, trades, phase,
                    merged, collected, report>>

Single == INSTANCE MarketDataStream WITH Readers <- {}, MaxGap <- 4, MaxNow <- 10
LatePolls == INSTANCE MarketDataStream
    WITH Readers <- {}, Late <- {"poll"}, MaxGap <- 4, MaxNow <- 9

(* Six seconds for the fifteen minutes, twelve for the hour. *)
Rounds == INSTANCE CandleSchedule
    WITH now <- time, pc <- loopPc, evaluated <- evaluations, polledAt <- roundAt,
         Intervals <- {"main", "higher"}, MainInterval <- "main",
         Period <- [main |-> 6, higher |-> 12], CallbackOrder <- [main |-> 1, higher |-> 2],
         Buffer <- 1, Window <- 2, MaxLate <- 1, MaxPoll <- 1, MaxCall <- 1, MaxTime <- 30
Overruns == INSTANCE CandleSchedule
    WITH now <- time, pc <- loopPc, evaluated <- evaluations, polledAt <- roundAt,
         Intervals <- {"main", "higher"}, MainInterval <- "main",
         Period <- [main |-> 6, higher |-> 12], CallbackOrder <- [main |-> 2, higher |-> 1],
         Buffer <- 1, Window <- 2, MaxLate <- 1, MaxPoll <- 1, MaxCall <- 7, MaxTime <- 36

Caching == INSTANCE SignalScan
    WITH pc <- scanPc, cache <- icache,
         Universe <- <<s1, s2>>, Kinds <- {"main", "context"}, BlockSell <- TRUE,
         Scores <- {1}, Window <- 2, CacheMax <- 3, MaxRow <- 3, MaxScans <- 2
Pages == INSTANCE BacktestDownload
    WITH pc <- dlPc, phase <- dlPhase, Series <- {s1, s2},
         History <- [s \in {s1, s2} |-> IF s = s1 THEN 5 ELSE 3],
         Limit <- 4, PageMax <- 2, MinCandles <- 2, Retries <- 2, Workers <- 2,
         Budget <- 3, Ticks <- 2, Faults <- {"error"}
Bans == INSTANCE BacktestDownload
    WITH pc <- dlPc, phase <- dlPhase, Series <- {s1, s2},
         History <- [s \in {s1, s2} |-> IF s = s1 THEN 5 ELSE 0],
         Limit <- 4, PageMax <- 2, MinCandles <- 2, Retries <- 2, Workers <- 1,
         Budget <- 3, Ticks <- 2, Faults <- {"error", "ban"}

GainsOf(timeouts) == [WIN |-> {2}, LOSS |-> {-1}, TIMEOUT |-> timeouts]
LongSeries == INSTANCE BacktestSimulation
    WITH pc <- simPc, series <- interval, i <- candle, Symbols <- {s1},
         SeriesOf <- 1, Length <- 7, MinWarm <- 2, MaxWarm <- 2, Hold <- 2, Skip <- 1, ContextPeriod <- 2,
         Gains <- GainsOf({-1, 1}), MayFail <- FALSE
Merging == INSTANCE BacktestSimulation
    WITH pc <- simPc, series <- interval, i <- candle, Symbols <- {s1, s2},
         SeriesOf <- 2, Length <- 4, MinWarm <- 2, MaxWarm <- 3, Hold <- 1, Skip <- 1, ContextPeriod <- 2,
         Gains <- GainsOf({0}), MayFail <- TRUE

ASSUME StreamsAssumption == Single!StreamAssumption /\ LatePolls!StreamAssumption
ASSUME SchedulesAssumption == Rounds!ScheduleAssumption /\ Overruns!ScheduleAssumption
ASSUME CachingAssumption == Caching!ScanAssumption
ASSUME DownloadsAssumption == Pages!DownloadAssumption /\ Bans!DownloadAssumption
ASSUME SimulationsAssumption == LongSeries!SimulationAssumption /\ Merging!SimulationAssumption

(* A part that does not move starts in one fixed state. *)
StreamInit == IF scenario = "single" THEN Single!Init
              ELSE IF scenario = "late" THEN LatePolls!Init ELSE Init
ScheduleInit ==
    IF scenario \in {"rounds", "overruns"} THEN Rounds!Init ELSE Rounds!Init /\ time = 0
DownloadInit ==
    CASE scenario = "pages" -> Pages!Init
      [] scenario = "bans"  -> Bans!Init
      [] OTHER -> Pages!Init /\ file = [s \in {s1, s2} |-> {}]
SimulationInit == IF scenario = "merge" THEN Merging!Init ELSE LongSeries!Init

MCInit ==
    /\ scenario \in {"tail", "single", "late", "rounds", "overruns", "cache", "pages",
                     "bans", "series", "merge"}
    /\ StreamInit /\ ScheduleInit /\ Caching!Init /\ DownloadInit /\ SimulationInit

StreamNext ==
    /\ \/ scenario = "tail"   /\ Next
       \/ scenario = "single" /\ Single!Next
       \/ scenario = "late"   /\ LatePolls!Next
    /\ UNCHANGED <<scheduleVars, scanVars, downloadVars, simulationVars>>

ScheduleNext ==
    /\ \/ scenario = "rounds"   /\ Rounds!Next
       \/ scenario = "overruns" /\ Overruns!Next
    /\ UNCHANGED <<vars, scanVars, downloadVars, simulationVars>>

ScanNext ==
    /\ scenario = "cache" /\ Caching!Next
    /\ UNCHANGED <<vars, scheduleVars, downloadVars, simulationVars>>

Download(pages, bans) ==
    \/ scenario = "pages" /\ pages
    \/ scenario = "bans" /\ bans

DownloadNext ==
    /\ Download(Pages!Next, Bans!Next)
    /\ UNCHANGED <<vars, scheduleVars, scanVars, simulationVars>>

SimulationNext ==
    /\ \/ scenario = "series" /\ LongSeries!Next
       \/ scenario = "merge"  /\ Merging!Next
    /\ UNCHANGED <<vars, scheduleVars, scanVars, downloadVars>>

MCNext ==
    /\ UNCHANGED scenario
    /\ StreamNext \/ ScheduleNext \/ ScanNext \/ DownloadNext \/ SimulationNext

(* The fairness of BacktestDownload!FairSpec. *)
MCSpec ==
    /\ MCInit
    /\ [][MCNext]_<<scenario, vars, scheduleVars, scanVars, downloadVars, simulationVars>>
    /\ WF_downloadVars(Download(Pages!Tick, Bans!Tick))
    /\ \A s \in {s1, s2} : WF_downloadVars(Download(Pages!Step(s), Bans!Step(s)))

-----------------------------------------------------------------------------
(* The type invariant of the part that moves. *)
TypeOKMC ==
    CASE scenario = "tail"     -> TypeOK
      [] scenario = "single"   -> Single!TypeOK
      [] scenario = "late"     -> LatePolls!TypeOK
      [] scenario = "rounds"   -> Rounds!TypeOK
      [] scenario = "overruns" -> Overruns!TypeOK
      [] scenario = "cache"    -> Caching!TypeOK
      [] scenario = "pages"    -> Pages!TypeOK
      [] scenario = "bans"     -> Bans!TypeOK
      [] scenario = "series"   -> LongSeries!TypeOK
      [] scenario = "merge"    -> Merging!TypeOK

(* NothingLost when rounds are short, EachCloseOnce however long they are
   (data_stream.py:190-194, 255-264, 282-317). *)
EachCloseOnceMC ==
    /\ scenario = "rounds" => Rounds!NothingLost /\ Rounds!EachCloseOnce
    /\ scenario = "overruns" => Overruns!EachCloseOnce

(* OwnIndicators while rows arrive (services/signal_service.py:71-81). *)
OwnIndicators == scenario = "cache" => Caching!OwnIndicators

(* SeriesWhole with errors, and with bans that cut a series short
   (backtest/backtest.py:379-425). *)
SeriesWhole ==
    /\ scenario = "pages" => Pages!SeriesWhole
    /\ scenario = "bans" => Bans!SeriesWhole

(* DownloadsEnd with two workers on one budget, and with bans
   (backtest/backtest.py:175-185). *)
DownloadsEnd ==
    /\ scenario = "pages" => Pages!DownloadsEnd
    /\ scenario = "bans" => Bans!DownloadsEnd

(* TradesTrue (backtest/backtest.py:540-546, 664-707). *)
TradesTrue ==
    /\ scenario = "series" => LongSeries!TradesTrue
    /\ scenario = "merge" => Merging!TradesTrue

(* ReportTrue (backtest/backtest.py:1148-1169, 1437-1466, 1547). *)
ReportTrue ==
    /\ scenario = "series" => LongSeries!ReportTrue
    /\ scenario = "merge" => Merging!ReportTrue
=============================================================================
