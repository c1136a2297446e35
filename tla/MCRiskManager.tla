--------------------------- MODULE MCRiskManager ---------------------------
(***************************************************************************)
(* RiskManager in three scenarios, which differ in the settings of the     *)
(* throttle and in the bounds.  A behaviour stays in the scenario it       *)
(* starts in.                                                              *)
(*   day      one process and exact stamps: the constants of the .cfg      *)
(*   skew     calls stamped before a tick and executed after it            *)
(*   restart  shutdowns, crashes and restarts around a daily pause         *)
(* They differ in no setting the properties name, but for Cooldown -        *)
(* MaxSkew, which is 1, and LossPause - 2 * MaxSkew, which is 2 in all; and *)
(* the skew of the second stays within one day.  So the properties mean    *)
(* the same in each.                                                       *)
(***************************************************************************)
EXTENDS RiskManager, TLC

CONSTANT Scenarios   \* the ones a run explores
VARIABLE scenario

TwoLossesOneWin == {-2, 1}
Symmetry == Permutations(Threads)

Skewed == INSTANCE RiskManager WITH
    DayLen <- 5, Cooldown <- 2, LossPause <- 4, StartBalance <- 10, Pnls <- {-1, -3},
    MaxTime <- 4, MaxTrades <- 2, MaxRestarts <- 1, MaxSkew <- 1

Restarted == INSTANCE RiskManager WITH
    StartBalance <- 10, Pnls <- {-3, 1}, MaxTime <- 5, MaxTrades <- 2, MaxRestarts <- 2

MCInit ==
    /\ scenario \in Scenarios
    /\ \/ scenario = "day" /\ Init
       \/ scenario = "skew" /\ Skewed!Init
       \/ scenario = "restart" /\ Restarted!Init

MCNext ==
    /\ UNCHANGED scenario
    /\ \/ scenario = "day" /\ Next
       \/ scenario = "skew" /\ Skewed!Next
       \/ scenario = "restart" /\ Restarted!Next

MCSpec == MCInit /\ [][MCNext]_<<scenario, vars>>

(* PauseEndsWithItsDay across restarts: "Reset day-scoped counters when UTC
   date changes." (risk.py:61). *)
PauseEndsWithItsDayMC == [][scenario = "restart" => Restarted!PauseIsOfTheDay]_vars
=============================================================================
