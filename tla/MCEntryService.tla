--------------------------- MODULE MCEntryService ---------------------------
(***************************************************************************)
(* EntryService in scenarios that differ in the settings, in the faults of *)
(* the placement and in the bounds.  A behaviour stays in the scenario it  *)
(* starts in.                                                              *)
(*   live    three symbols for two positions, market fallback              *)
(*   race    two intervals: their callbacks race the follow-ups            *)
(*   limit   limit-only entries that time out or lose a fill               *)
(*   faults  market fallback with every fault; a limit order left behind   *)
(*           may fill later, which two symbols for two positions admit     *)
(*   paper   use_paper_trading                                             *)
(***************************************************************************)
EXTENDS EntryService, TLC

CONSTANTS a, b, c, main, ctx
VARIABLE scenario

MainFirst == (main :> 1 @@ ctx :> 2)
OnlyMain == (main :> 1)
Crossed == {<<a, b>>, <<b, a>>}
Forked == {<<a, b>>, <<a, c>>}

(* The constants of the .cfg are those of live. *)
Race == INSTANCE EntryService WITH
    Symbols <- {a, b}, Intervals <- {main, ctx}, CallbackOrder <- MainFirst,
    SignalLists <- Crossed, MaxPolls <- 1

Limit == INSTANCE EntryService WITH
    LimitOnly <- TRUE, Faults <- {"lost_fill", "price_at_stop"}, MaxPolls <- 1

Faulty == INSTANCE EntryService WITH
    Symbols <- {a, b}, SignalLists <- Crossed, Faults <- AllFaults, MaxPolls <- 1

PaperTrading == INSTANCE EntryService WITH
    Symbols <- {a, b}, SignalLists <- Crossed, Paper <- TRUE, MaxPolls <- 1

MCInit ==
    \/ scenario = "live" /\ Init
    \/ scenario = "race" /\ Race!Init
    \/ scenario = "limit" /\ Limit!Init
    \/ scenario = "faults" /\ Faulty!Init
    \/ scenario = "paper" /\ PaperTrading!Init

MCNext ==
    /\ UNCHANGED scenario
    /\ \/ scenario = "live" /\ Next
       \/ scenario = "race" /\ Race!Next
       \/ scenario = "limit" /\ Limit!Next
       \/ scenario = "faults" /\ Faulty!Next
       \/ scenario = "paper" /\ PaperTrading!Next

MCSpec == MCInit /\ [][MCNext]_<<scenario, vars>>

(* SameCandleEnteredOnce for live accounts (entry_service.py:180-183, 318). *)
SameCandleEnteredOnceMC ==
    [][(scenario \in {"live", "race", "limit"}) => EntersOnce]_vars

(* EveryPositionMonitored as long as no answer of the exchange is lost
   (entry_service.py:693-760, 837-887). *)
EveryPositionMonitoredMC == scenario \in {"live", "race"} => EveryPositionMonitored
=============================================================================
