----------------------------- MODULE MCExecution -----------------------------
(* From the settings to the restart: Configuration, ExecutorRegistry,        *)
(* EntryOrder, LossScaling, StateFile and BotApplication, one of them moving *)
(* in each scenario, chosen at the start:                                    *)
(*   settings  any two lines of a .env file, at most one variable set before;*)
(*   universe  any symbols asked for, requests that are not answered;        *)
(*   setup     two threads, two symbols, every fault (the constants of the   *)
(*             cfg): a leverage of 12 is tried as 12, 7, 2, 1, and the limits*)
(*             lie above, between and at those, or refuse all;               *)
(*   calls     the same without lost answers, for its liveness;              *)
(*   fallback  a maker order with market fallback, requests refused;         *)
(*   lossy     the same with lost requests and answers;                      *)
(*   limit     use_limit_only;                                               *)
(*   scaling   a losing position enlarged, requests refused;                 *)
(*   faulty    the same with every fault;                                    *)
(*   crash     the state file, crashes and saves that fail;                  *)
(*   edited    the state file, edited between processes or not readable;     *)
(*   restart   the application with use_limit_only, every fault, processes die *)
(*             anywhere;                                                     *)
(*   watched   the application with market fallback, the reads of a startup  *)
(*             and the save may fail, no process dies in an entry;           *)
(*   stops     the application, signals at any time.                         *)
EXTENDS ExecutorRegistry

CONSTANTS s1, s2, s3, NoSymbol

VARIABLES
    scenario,
    stage, given, lines, environ, settings, request, tradable, scanned, \* Configuration
    orderPc, status, filled, bought, seen, polls, result,               \* EntryOrder
    scalingPc, lossLevel, done, attempts, deferred, replaced, qty,      \* LossScaling
    scaled, tp, sl, added,
    filePc, state, snapshot, target, tmp, moved, reported, saved, loads,\* StateFile
    appPc, signalled, universe, orphans, scheduler, entering, monitors, \* BotApplication
    trades, disk, position, order, protected, starts

settingVars == <<stage, given, lines, environ, settings, request, tradable, scanned>>
orderVars == <<orderPc, status, filled, bought, seen, polls, result>>
scalingVars == <<scalingPc, lossLevel, done, attempts, deferred, replaced, qty,
                 scaled, tp, sl, added>>
fileVars == <<filePc, state, snapshot, target, tmp, moved, reported, saved, loads>>
appVars == <<appPc, signalled, universe, orphans, scheduler, entering, monitors,
             trades, disk, position, order, protected, starts>>

Text(key) == CASE key = "BINANCE_TESTNET"         -> {"", "word", "true"}
               [] key = "BLOCK_SELL_ON_INTERVALS" -> {"", "4h"}
               [] OTHER                           -> {"", "0", "60", "200"}
Keys == {"MAX_HOLD_CANDLES", "RSI_LONG_MIN", "RSI_LONG_MAX", "BINANCE_TESTNET",
         "BLOCK_SELL_ON_INTERVALS"}
Lines == UNION {{k} \X Text(k) : k \in Keys}
NothingSet == [k \in Keys |-> "unset"]
Plain == [asked |-> {}, default |-> s1, useTop |-> TRUE, filtered |-> FALSE, allow |-> {}]
TwoLines == {<< >>} \cup {<<l>> : l \in Lines} \cup {<<l, k>> : l, k \in Lines}
OneVariable == {NothingSet} \cup {[NothingSet EXCEPT ![l[1]] = l[2]] : l \in Lines}
AnyRequest == [asked : SUBSET {s1, s2, s3}, default : {s1, s2}, useTop : BOOLEAN,
               filtered : BOOLEAN, allow : SUBSET {s1, s2}]
Rank == [s \in {s1, s2, s3} |-> CASE s = s1 -> 1 [] s = s2 -> 2 [] s = s3 -> 3]

Reading == INSTANCE Configuration
    WITH universe <- scanned, Symbols <- {s1}, Liquid <- {s1}, Name <- [s \in {s1} |-> 1],
         Volume <- [s \in {s1} |-> 1], TopCount <- 1, Requests <- {Plain},
         Files <- TwoLines, Environments <- OneVariable
Asking == INSTANCE Configuration
    WITH universe <- scanned, Symbols <- {s1, s2, s3}, Liquid <- {s2, s3}, Name <- Rank,
         Volume <- Rank, TopCount <- 1, Files <- {<< >>}, Environments <- {NothingSet},
         Requests <- AnyRequest

(* Without the fault leverage, which could end a setup that repeats itself. *)
Calls == INSTANCE ExecutorRegistry
    WITH Limits <- {0, 5, 20}, Faults <- {"metadata"}

Fallback == INSTANCE EntryOrder
    WITH pc <- orderPc, Qty <- 5, LimitOnly <- FALSE, Faults <- {"refused"}, MaxPolls <- 3
Lossy == INSTANCE EntryOrder
    WITH pc <- orderPc, Qty <- 5, LimitOnly <- FALSE, MaxPolls <- 3,
         Faults <- {"lost_answer", "lost_cancel", "refused", "early_answer"}
LimitStyle == INSTANCE EntryOrder
    WITH pc <- orderPc, Qty <- 6, LimitOnly <- TRUE, MaxPolls <- 3,
         Faults <- {"refused", "lost_answer"}

Scaling == INSTANCE LossScaling
    WITH pc <- scalingPc, level <- lossLevel, held <- scaled, Faults <- {"refused", "replace"},
         MaxAttempts <- 3, MaxReplace <- 3, MaxAdds <- 1
Faulty == INSTANCE LossScaling
    WITH pc <- scalingPc, level <- lossLevel, held <- scaled, MaxAttempts <- 2, MaxReplace <- 2, MaxAdds <- 1,
         Faults <- {"lost", "no_id", "close"}

Crashing == INSTANCE StateFile
    WITH pc <- filePc, starts <- loads, MaxVersion <- 3, MaxStarts <- 4,
         Faults <- {"write", "replace", "rename"}
Edited == INSTANCE StateFile
    WITH pc <- filePc, starts <- loads, MaxVersion <- 1, MaxStarts <- 3,
         Faults <- {"read", "rename", "edit"}

Restarts == INSTANCE BotApplication
    WITH pc <- appPc, Universes <- {{s1, s2}, {s1}}, LimitOnly <- TRUE, DieInEntry <- TRUE,
         Crashes <- TRUE, MaxTrades <- 2, MaxStarts <- 3,
         Faults <- {"positions", "orders", "orphans", "executor", "save", "entry",
                    "price_at_stop"}
Watched == INSTANCE BotApplication
    WITH pc <- appPc, Universes <- {{s1, s2}}, LimitOnly <- FALSE, DieInEntry <- FALSE,
         Crashes <- TRUE, Faults <- {"positions", "orders", "save"}, MaxTrades <- 2, MaxStarts <- 3
Stops == INSTANCE BotApplication
    WITH pc <- appPc, Universes <- {{s1, s2}}, LimitOnly <- TRUE, DieInEntry <- TRUE,
         Crashes <- TRUE, Faults <- {"orphans", "save", "entry"}, MaxTrades <- 1, MaxStarts <- 2

ASSUME StartingAssumption == Reading!ConfigurationAssumption /\ Asking!ConfigurationAssumption
ASSUME OrdersAssumption ==
    Fallback!OrderAssumption /\ Lossy!OrderAssumption /\ LimitStyle!OrderAssumption
ASSUME ScalingsAssumption == Scaling!ScalingAssumption /\ Faulty!ScalingAssumption
ASSUME FilesAssumption == Crashing!FileAssumption /\ Edited!FileAssumption
ASSUME ApplicationsAssumption ==
    /\ Restarts!ApplicationAssumption /\ Watched!ApplicationAssumption
    /\ Stops!ApplicationAssumption
ASSUME SetupAssumption == RegistryAssumption /\ Calls!RegistryAssumption

Starting == {"settings", "universe"}
Orders == {"fallback", "lossy", "limit"}
Scalings == {"scaling", "faulty"}
Files == {"crash", "edited"}
Applications == {"restart", "watched", "stops"}

(* A part that does not move starts in one fixed state. *)
SettingsInit ==
    CASE scenario = "settings" -> Reading!Init
      [] scenario = "universe" -> Asking!Init
      [] OTHER -> Reading!Init /\ given = NothingSet /\ lines = << >>

MCInit ==
    /\ \/ scenario = "setup" /\ Init
       \/ scenario = "calls" /\ Calls!Init
       \/ /\ scenario \in Starting \cup Orders \cup Scalings \cup Files \cup Applications
          /\ Init /\ held = {} /\ isolated = {}
          /\ limit = [s \in Symbols |-> CHOOSE l \in Limits : TRUE]
    /\ SettingsInit /\ Fallback!Init /\ Scaling!Init /\ Crashing!Init
    /\ IF scenario = "restart" THEN Restarts!Init ELSE Watched!Init

RegistryNext ==
    /\ \/ scenario = "setup" /\ Next
       \/ scenario = "calls" /\ Calls!Next
    /\ UNCHANGED <<settingVars, orderVars, scalingVars, fileVars, appVars>>

SettingsNext ==
    /\ \/ scenario = "settings" /\ Reading!Next
       \/ scenario = "universe" /\ Asking!Next
    /\ UNCHANGED <<vars, orderVars, scalingVars, fileVars, appVars>>

OrderNext ==
    /\ \/ scenario = "fallback" /\ Fallback!Next
       \/ scenario = "lossy"    /\ Lossy!Next
       \/ scenario = "limit"    /\ LimitStyle!Next
    /\ UNCHANGED <<vars, settingVars, scalingVars, fileVars, appVars>>

ScalingNext ==
    /\ \/ scenario = "scaling" /\ Scaling!Next
       \/ scenario = "faulty"  /\ Faulty!Next
    /\ UNCHANGED <<vars, settingVars, orderVars, fileVars, appVars>>

FileNext ==
    /\ \/ scenario = "crash"  /\ Crashing!Next
       \/ scenario = "edited" /\ Edited!Next
    /\ UNCHANGED <<vars, settingVars, orderVars, scalingVars, appVars>>

AppNext ==
    /\ \/ scenario = "restart" /\ Restarts!Next
       \/ scenario = "watched" /\ Watched!Next
       \/ scenario = "stops"   /\ Stops!Next
    /\ UNCHANGED <<vars, settingVars, orderVars, scalingVars, fileVars>>

MCNext ==
    /\ UNCHANGED scenario
    /\ SettingsNext \/ RegistryNext \/ OrderNext \/ ScalingNext \/ FileNext \/ AppNext

(* The fairness of the FairSpec of each part. *)
MCSpec ==
    /\ MCInit /\ [][MCNext]_<<scenario, vars, settingVars, orderVars, scalingVars, fileVars, appVars>>
    /\ \A t \in Threads : WF_vars(scenario = "calls" /\ Calls!Step(t))
    /\ WF_orderVars(scenario = "fallback" /\ Fallback!Step)
    /\ WF_orderVars(scenario = "limit" /\ LimitStyle!Step)
    /\ WF_appVars(scenario = "stops" /\ Stops!MainStep)
    /\ WF_appVars(scenario = "stops" /\ Stops!EntryEnds)

-----------------------------------------------------------------------------
(* The type invariant of the part that moves. *)
TypeOKMC ==
    /\ scenario = "settings" => Reading!TypeOK
    /\ scenario = "universe" => Asking!TypeOK
    /\ scenario = "setup"    => TypeOK
    /\ scenario = "calls"    => Calls!TypeOK
    /\ scenario = "fallback" => Fallback!TypeOK
    /\ scenario = "lossy"    => Lossy!TypeOK
    /\ scenario = "limit"    => LimitStyle!TypeOK
    /\ scenario = "scaling"  => Scaling!TypeOK
    /\ scenario = "faulty"   => Faulty!TypeOK
    /\ scenario = "crash"    => Crashing!TypeOK
    /\ scenario = "edited"   => Edited!TypeOK
    /\ scenario = "restart"  => Restarts!TypeOK
    /\ scenario = "watched"  => Watched!TypeOK
    /\ scenario = "stops"    => Stops!TypeOK

(* SettingsCoherent for every file of two lines, UniverseHonest for every
   request (config.py:128-144, 376-378, services/bootstrap_service.py:138-195). *)
StartupHonestMC ==
    /\ scenario = "settings" => Reading!SettingsCoherent
    /\ scenario = "universe" => Asking!UniverseHonest

(* Every call of an entry ends: the setup, the lazy load of the filters and the
   order itself (services/exchange_metadata_service.py:118, execution.py:314). *)
EntryCallsEndMC ==
    /\ scenario = "calls" => Calls!CallsEnd
    /\ scenario = "fallback" => Fallback!Ends
    /\ scenario = "limit" => LimitStyle!Ends

(* ReportIsHeld in both styles, whatever is lost (services/entry_service.py:699);
   when no answer is lost, OnlyUnseenMissing, and in both styles NothingRests
   (execution.py:310-345). *)
ReportIsHeldMC ==
    /\ scenario = "fallback" => Fallback!OnlyUnseenMissing
    /\ scenario = "fallback" => Fallback!ReportIsHeld /\ Fallback!NothingRests
    /\ scenario = "lossy" => Lossy!ReportIsHeld
    /\ scenario = "limit" => LimitStyle!ReportIsHeld /\ LimitStyle!NothingRests

(* ScaledPositionCovered when no answer is lost (monitor_scaling.py:162-236,
   execution.py:648-680). *)
ScaledPositionCovered == scenario = "scaling" => Scaling!ScaledPositionCovered

(* SavedSurvives with crashes and failing saves (persistence.py:15-21). *)
SavedSurvives == scenario = "crash" => Crashing!SavedSurvives

(* ProtectionKept in every scenario of the application
   (services/position_service.py:68-84). *)
ProtectionKept ==
    [][(scenario \in Applications) => Restarts!KeepsProtection]_appVars

(* PositionsWatched with market fallback, when the requests of the entries and of
   the orphan recovery succeed and no fill equals its stop
   (services/position_service.py:160-204, services/entry_service.py:745-774). *)
PositionsWatched == scenario = "watched" => Watched!PositionsWatched

(* StopsOnSignal (services/runtime_controller.py:36-45). *)
StopsOnSignal == scenario = "stops" => Stops!StopsOnSignal
=============================================================================
