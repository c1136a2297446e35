-------------------------- MODULE MCPositionMonitor --------------------------
(***************************************************************************)
(* PositionMonitor in three scenarios.  A behaviour stays in the scenario  *)
(* it starts in.                                                           *)
(*   entry   the monitor of a new entry, orders with ids: the .cfg         *)
(*   orphan  the monitor of a position found at startup                    *)
(*   algo    orders with algo ids, listed without delay; nothing fails or  *)
(*           expires, and nobody else touches the position                 *)
(***************************************************************************)
EXTENDS PositionMonitor

VARIABLE scenario

Recovered == INSTANCE PositionMonitor WITH Orphan <- TRUE

AlgoOrders == INSTANCE PositionMonitor WITH
    Algo <- TRUE, MayHold <- FALSE, Restless <- FALSE, MaxFaults <- 0

MCInit ==
    \/ scenario = "entry" /\ Init
    \/ scenario = "orphan" /\ Recovered!Init
    \/ scenario = "algo" /\ AlgoOrders!Init

(* The steps of a part of Next in each scenario. *)
In(entry, orphan, algo) ==
    /\ UNCHANGED scenario
    /\ \/ scenario = "entry" /\ entry
       \/ scenario = "orphan" /\ orphan
       \/ scenario = "algo" /\ algo

MCNext == In(Next, Recovered!Next, AlgoOrders!Next)

(* The fairness of FairSpec. *)
MCSpec ==
    /\ MCInit /\ [][MCNext]_<<scenario, vars>>
    /\ WF_vars(In(Monitor, Recovered!Monitor, AlgoOrders!Monitor))
    /\ WF_vars(In(ListCatchesUp, Recovered!ListCatchesUp, AlgoOrders!ListCatchesUp))
    /\ WF_vars(In(GuardElapses, Recovered!GuardElapses, AlgoOrders!GuardElapses))
    /\ WF_vars(In(CheckFallsDue, Recovered!CheckFallsDue, AlgoOrders!CheckFallsDue))
    /\ WF_vars(In(DeadlinePasses, Recovered!DeadlinePasses, AlgoOrders!DeadlinePasses))

(* StopRestored for orders with ids, whichever two calls fail
   (execution.py:692). *)
StopRestoredMC ==
    (scenario # "algo" /\ position /\ result = "none" /\ OpenOrders("sl") = {}) ~>
        (scenario = "algo" \/ OpenOrders("sl") # {} \/ ~position \/ result # "none")

(* CloseIsNoticed for algo orders (execution.py:609). *)
CloseIsNoticedMC == (scenario = "algo" /\ ~position) ~> result # "none"
=============================================================================
