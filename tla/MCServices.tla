----------------------------- MODULE MCServices -----------------------------
(* The kill switches and the alerts, one of them moving in each scenario,    *)
(* chosen at the start:                                                      *)
(*   race      two entry callbacks, order failures and lost orphans (the     *)
(*             constants of the cfg);                                        *)
(*   recovery  one entry callback, errors, order failures and the idle       *)
(*             scheduler;                                                    *)
(*   endless   a suspension has no end;                                      *)
(*   turns     three alerts, any answer;                                     *)
(*   ends      two alerts, all the attempts of the code.                     *)
EXTENDS OperationalService

CONSTANTS
    Scenarios,
    Alone,                \* the callback of the scenario recovery
    a1, a2, a3, NoMessage

VARIABLES
    scenario,
    pc, attempt, wait, lock, quiet, barred    \* TelegramService

alertVars == <<pc, attempt, wait, lock, quiet, barred>>

Limits(errors, orders) ==
    [r \in Counted |->
        CASE r = "consecutive_errors" -> errors
          [] r = "order_failures"     -> orders
          [] OTHER                    -> 0]

ErrorsAndOrders == Limits(2, 1)
BothTwice == Limits(2, 2)

(* They take the initial states of the race and its SuspendSec, if any, so that
   TypeOK and SuspensionServed mean the same in each. *)
Recovery == INSTANCE OperationalService
    WITH Callbacks <- Alone, Limit <- ErrorsAndOrders, MaxIdle <- 1, PauseOnOrphan <- FALSE
Endless == INSTANCE OperationalService
    WITH Callbacks <- Alone, SuspendSec <- 0, PauseOnOrphan <- FALSE

Turns == INSTANCE TelegramService
    WITH Messages <- {a1, a2, a3}, Attempts <- 2,
         MinInterval <- 2, RetryAfter <- 3, Outcomes <- {"sent", "limited", "error"}
Ends == INSTANCE TelegramService
    WITH Messages <- {a1, a2}, Attempts <- 5,
         MinInterval <- 2, RetryAfter <- 3, Outcomes <- {"sent", "limited", "error"}

ASSUME ScenarioAssumption == Recovery!OpsAssumption /\ Endless!OpsAssumption
ASSUME AlertAssumption == Turns!TelegramAssumption /\ Ends!TelegramAssumption

MCInit ==
    /\ scenario \in Scenarios
    /\ Init
    /\ IF scenario = "ends" THEN Ends!Init ELSE Turns!Init

OpsNext ==
    /\ \/ scenario = "race"     /\ Next
       \/ scenario = "recovery" /\ Recovery!Next
       \/ scenario = "endless"  /\ Endless!Next
    /\ UNCHANGED alertVars

AlertNext ==
    /\ \/ scenario = "turns" /\ Turns!Next
       \/ scenario = "ends"  /\ Ends!Next
    /\ UNCHANGED vars

MCNext == UNCHANGED scenario /\ (OpsNext \/ AlertNext)

(* The fairness of FairSpec of the scenarios whose liveness is checked. *)
MCSpec ==
    /\ MCInit /\ [][MCNext]_<<scenario, vars, alertVars>>
    /\ WF_vars(scenario = "recovery" /\ Recovery!Heartbeat)
    /\ WF_vars(scenario = "recovery" /\ Recovery!Tick)
    /\ WF_alertVars(scenario = "ends" /\ Ends!Tick)
    /\ \A m \in {a1, a2} : WF_alertVars(scenario = "ends" /\ Ends!Step(m))

-----------------------------------------------------------------------------
(* With the fair heartbeat a counter that stays below its limit frees its
   suspension (services/operational_service.py:638-643). *)
RecoveryResumesMC == scenario = "recovery" => Recovery!RecoveryResumes

(* SendsSpaced (services/telegram_service.py:83-87). *)
SendsSpaced ==
    /\ scenario = "turns" => Turns!SendsSpaced
    /\ scenario = "ends" => Ends!SendsSpaced

(* SendsEnd: an alert that asked for its turn is sent or given up
   (services/telegram_service.py:81-117). *)
SendsEnd == scenario = "ends" => Ends!SendsEnd
=============================================================================
