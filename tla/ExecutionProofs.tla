---------------------------- MODULE ExecutionProofs ----------------------------
(***************************************************************************)
(* The properties TLC checks of MCExecution, proved: in each scenario the  *)
(* part that moves is a behaviour of its component, so that the theorems   *)
(* of ServiceProofs hold of it at the constants of the scenario.           *)
(***************************************************************************)
EXTENDS MCExecution, TLAPS

(* The theorems at the constants of settings, setup, fallback, scaling, crash and
   restart ... *)
First == INSTANCE ServiceProofs
    WITH registryPc <- pc, heldBefore <- held, level <- lossLevel, held <- scaled,
         Qty <- 5, LimitOnly <- FALSE, OrderFaults <- {"refused"}, MaxPolls <- 3,
         LeverageLimits <- Limits, SetupFaults <- Faults,
         ScalingFaults <- {"refused", "replace"}, MaxAttempts <- 3, MaxReplace <- 3,
         MaxAdds <- 1,
         FileFaults <- {"write", "replace", "rename"}, MaxVersion <- 3, MaxLoads <- 4,
         AppFaults <- {"positions", "orders", "orphans", "executor", "save", "entry",
                       "price_at_stop"},
         AppLimitOnly <- TRUE, Universes <- {{s1, s2}, {s1}}, DieInEntry <- TRUE,
         Crashes <- TRUE, MaxTrades <- 2, MaxStarts <- 3,
         Environments <- OneVariable, Files <- TwoLines, Pairs <- {s1}, Liquid <- {s1},
         Name <- [s \in {s1} |-> 1], Volume <- [s \in {s1} |-> 1], TopCount <- 1,
         Requests <- {Plain},
         Messages <- {}, NoMessage <- 0, Attempts <- 0, MinInterval <- 0, RetryAfter <- 0,
         Outcomes <- {}, alertPc <- 0, attempt <- 0, wait <- 0, lock <- 0, quiet <- 0,
         barred <- 0, MaxPositions <- 0, opened <- {}, atWork <- {}

(* ... at those of universe, calls, lossy, faulty, edited and watched ... *)
Second == INSTANCE ServiceProofs
    WITH registryPc <- pc, heldBefore <- held, level <- lossLevel, held <- scaled,
         Qty <- 5, LimitOnly <- FALSE, MaxPolls <- 3,
         OrderFaults <- {"lost_answer", "lost_cancel", "refused", "early_answer"},
         LeverageLimits <- {0, 5, 20}, SetupFaults <- {"metadata"},
         ScalingFaults <- {"lost", "no_id", "close"}, MaxAttempts <- 2, MaxReplace <- 2,
         MaxAdds <- 1,
         FileFaults <- {"read", "rename", "edit"}, MaxVersion <- 1, MaxLoads <- 3,
         AppFaults <- {"positions", "orders", "save"}, AppLimitOnly <- FALSE,
         Universes <- {{s1, s2}}, DieInEntry <- FALSE, Crashes <- TRUE, MaxTrades <- 2,
         MaxStarts <- 3,
         Environments <- {NothingSet}, Files <- {<< >>}, Pairs <- {s1, s2, s3},
         Liquid <- {s2, s3}, Name <- Rank, Volume <- Rank, TopCount <- 1,
         Requests <- AnyRequest,
         Messages <- {}, NoMessage <- 0, Attempts <- 0, MinInterval <- 0, RetryAfter <- 0,
         Outcomes <- {}, alertPc <- 0, attempt <- 0, wait <- 0, lock <- 0, quiet <- 0,
         barred <- 0, MaxPositions <- 0, opened <- {}, atWork <- {}

(* ... and at those of limit and stops; the other parts are those of First. *)
Third == INSTANCE ServiceProofs
    WITH registryPc <- pc, heldBefore <- held, level <- lossLevel, held <- scaled,
         Qty <- 6, LimitOnly <- TRUE, OrderFaults <- {"refused", "lost_answer"}, MaxPolls <- 3,
         LeverageLimits <- Limits, SetupFaults <- Faults,
         ScalingFaults <- {"refused", "replace"}, MaxAttempts <- 3, MaxReplace <- 3,
         MaxAdds <- 1,
         FileFaults <- {"write", "replace", "rename"}, MaxVersion <- 3, MaxLoads <- 4,
         AppFaults <- {"orphans", "save", "entry"}, AppLimitOnly <- TRUE,
         Universes <- {{s1, s2}}, DieInEntry <- TRUE, Crashes <- TRUE, MaxTrades <- 1,
         MaxStarts <- 2,
         Environments <- OneVariable, Files <- TwoLines, Pairs <- {s1}, Liquid <- {s1},
         Name <- [s \in {s1} |-> 1], Volume <- [s \in {s1} |-> 1], TopCount <- 1,
         Requests <- {Plain},
         Messages <- {}, NoMessage <- 0, Attempts <- 0, MinInterval <- 0, RetryAfter <- 0,
         Outcomes <- {}, alertPc <- 0, attempt <- 0, wait <- 0, lock <- 0, quiet <- 0,
         barred <- 0, MaxPositions <- 0, opened <- {}, atWork <- {}

mcVars == <<scenario, vars, settingVars, orderVars, scalingVars, fileVars, appVars>>

-----------------------------------------------------------------------------
(* The scenarios.                                                          *)

(* A behaviour stays in its scenario. *)
LEMMA StaysInScenario ==
    ASSUME [MCNext]_mcVars, NEW name PROVE (scenario = name)' <=> (scenario = name)
BY DEF MCNext, mcVars

(* In each scenario its part takes a step or none; in the other scenarios the
   registry stands still. *)
LEMMA OnePartMoves ==
    ASSUME [MCNext]_mcVars
    PROVE  /\ scenario = "settings" => Reading!Next \/ UNCHANGED settingVars
           /\ scenario = "universe" => Asking!Next \/ UNCHANGED settingVars
           /\ scenario = "setup" => Next \/ UNCHANGED vars
           /\ scenario = "calls" => Calls!Next \/ UNCHANGED vars
           /\ scenario \notin {"setup", "calls"} => UNCHANGED vars
           /\ scenario = "fallback" => Fallback!Next \/ UNCHANGED orderVars
           /\ scenario = "lossy" => Lossy!Next \/ UNCHANGED orderVars
           /\ scenario = "limit" => LimitStyle!Next \/ UNCHANGED orderVars
           /\ scenario = "scaling" => Scaling!Next \/ UNCHANGED scalingVars
           /\ scenario = "faulty" => Faulty!Next \/ UNCHANGED scalingVars
           /\ scenario = "crash" => Crashing!Next \/ UNCHANGED fileVars
           /\ scenario = "edited" => Edited!Next \/ UNCHANGED fileVars
           /\ scenario = "restart" => Restarts!Next \/ UNCHANGED appVars
           /\ scenario = "watched" => Watched!Next \/ UNCHANGED appVars
           /\ scenario = "stops" => Stops!Next \/ UNCHANGED appVars
           /\ scenario \notin Applications => UNCHANGED appVars
<1>1. CASE RegistryNext
    BY <1>1 DEF RegistryNext, Applications
<1>2. CASE SettingsNext
    BY <1>2 DEF SettingsNext, Applications
<1>3. CASE OrderNext
    BY <1>3 DEF OrderNext, Applications
<1>4. CASE ScalingNext
    BY <1>4 DEF ScalingNext, Applications
<1>5. CASE FileNext
    BY <1>5 DEF FileNext, Applications
<1>6. CASE AppNext
    BY <1>6 DEF AppNext, Applications
<1>7. CASE UNCHANGED mcVars
    BY <1>7 DEF mcVars
<1> QED BY <1>1, <1>2, <1>3, <1>4, <1>5, <1>6, <1>7 DEF MCNext

(* The scenario settings: a behaviour of Configuration, and what its theorems say of it. *)
LEMMA SettingsBehaves == MCSpec => (scenario = "settings" => First!Startup!Spec)
<1>1. MCInit /\ scenario = "settings" => First!Startup!Init
  <2>1. MCInit /\ scenario = "settings" => Reading!Init
      BY DEF MCInit, SettingsInit
  <2>2. First!Startup!Init <=> Reading!Init
      BY Zenon
      DEF First!Startup!Defaults, Reading!Defaults, First!Startup!Init, Reading!Init
  <2> QED BY <2>1, <2>2
<1>2. scenario = "settings" /\ [MCNext]_mcVars => [First!Startup!Next]_First!Startup!vars
  <2>1. scenario = "settings" /\ [MCNext]_mcVars => Reading!Next \/ UNCHANGED settingVars
      BY OnePartMoves
  <2>2. First!Startup!Next <=> Reading!Next
    <3>1. First!Startup!ReadLine <=> Reading!ReadLine
        BY Zenon
        DEF First!Startup!Unset, Reading!Unset, First!Startup!Put, Reading!Put,
          First!Startup!ReadLine, Reading!ReadLine
    <3>2. First!Startup!FileEnds <=> Reading!FileEnds
        BY Zenon
        DEF First!Startup!FileEnds, Reading!FileEnds
    <3>3. First!Startup!FromEnv <=> Reading!FromEnv
      <4>1. /\ First!Startup!Defaults = Reading!Defaults
            /\ First!Startup!Unset = Reading!Unset
            /\ First!Startup!Numbers = Reading!Numbers
          BY Zenon
          DEF First!Startup!Defaults, Reading!Defaults, First!Startup!Unset,
            Reading!Unset, First!Startup!Numbers, Reading!Numbers
      <4>2. \A text : First!Startup!Number(text) = Reading!Number(text)
          BY DEF First!Startup!Number, Reading!Number
      <4>3. \A set : /\ First!Startup!Min(set) = Reading!Min(set)
                      /\ First!Startup!Max(set) = Reading!Max(set)
          BY Zenon
          DEF First!Startup!Min, Reading!Min, First!Startup!Max, Reading!Max
      <4>4. \A text : First!Startup!Upper(text) = Reading!Upper(text)
          BY DEF First!Startup!Upper, Reading!Upper
      <4>5. \A text, default, lowest, highest :
             First!Startup!Bounded(text, default, lowest, highest)
             = Reading!Bounded(text, default, lowest, highest)
          BY <4>1, <4>2, <4>3, Zenon
          DEF First!Startup!Bounded, Reading!Bounded
      <4>6. \A text, default :
             First!Startup!Switch(text, default)
             = Reading!Switch(text, default)
          BY <4>1, Zenon
          DEF First!Startup!Switch, Reading!Switch
      <4>7. \A text, default :
             First!Startup!Listed(text, default)
             = Reading!Listed(text, default)
          BY <4>1, <4>4, Zenon
          DEF First!Startup!Listed, Reading!Listed
      <4>8. \A low, high :
             First!Startup!InOrder(low, high)
             = Reading!InOrder(low, high)
          BY <4>3, Zenon
          DEF First!Startup!InOrder, Reading!InOrder
      <4> QED
          BY <4>1, <4>5, <4>6, <4>7, <4>8
          DEF First!Startup!FromEnv, Reading!FromEnv
    <3>4. First!Startup!ReadInfo <=> Reading!ReadInfo
        BY Zenon
        DEF First!Startup!Explicit, Reading!Explicit, First!Startup!ReadInfo,
          Reading!ReadInfo
    <3>5. First!Startup!ReadTickers <=> Reading!ReadTickers
        BY Zenon
        DEF First!Startup!Explicit, Reading!Explicit, First!Startup!Top, Reading!Top,
          First!Startup!Passing, Reading!Passing, First!Startup!Ranked, Reading!Ranked,
          First!Startup!Scanned, Reading!Scanned, First!Startup!ReadTickers,
          Reading!ReadTickers, First!Startup!Cardinality, Reading!Cardinality
    <3> QED BY <3>1, <3>2, <3>3, <3>4, <3>5 DEF First!Startup!Next, Reading!Next
  <2>3. UNCHANGED settingVars <=> UNCHANGED First!Startup!vars
      BY DEF settingVars, First!Startup!vars
  <2> QED BY <2>1, <2>2, <2>3
<1>3. [MCNext]_mcVars => ((scenario = "settings")' <=> (scenario = "settings"))
    BY StaysInScenario
<1> QED BY <1>1, <1>2, <1>3, PTL DEF MCSpec, mcVars, First!Startup!Spec

LEMMA SettingsHolds ==
    MCSpec =>
      [](scenario = "settings" => Reading!TypeOK /\ Reading!SettingsCoherent)
<1>1. First!Startup!ConfigurationAssumption
    BY StartingAssumption, Zenon
    DEF First!Startup!Keys, Reading!Keys, First!Startup!Numbers, Reading!Numbers,
      First!Startup!Texts, Reading!Texts, First!Startup!Unset, Reading!Unset,
      First!Startup!ConfigurationAssumption, Reading!ConfigurationAssumption,
      First!Startup!IsFiniteSet, Reading!IsFiniteSet
<1>2. /\ First!Startup!Spec => []First!Startup!TypeOK
      /\ First!Startup!Spec => []First!Startup!SettingsCoherent
    BY <1>1, First!StartupTypeCorrect, First!SettingsTheorem
<1>3. /\ First!Startup!TypeOK <=> Reading!TypeOK
      /\ First!Startup!SettingsCoherent <=> Reading!SettingsCoherent
    BY Zenon
    DEF First!Startup!Keys, Reading!Keys, First!Startup!Numbers, Reading!Numbers,
      First!Startup!Texts, Reading!Texts, First!Startup!Unset, Reading!Unset,
      First!Startup!Settings, Reading!Settings, First!Startup!Defaults,
      Reading!Defaults, First!Startup!TypeOK, Reading!TypeOK,
      First!Startup!SettingsCoherent, Reading!SettingsCoherent
<1>4. [MCNext]_mcVars => ((scenario = "settings")' <=> (scenario = "settings"))
    BY StaysInScenario
<1> QED BY <1>2, <1>3, <1>4, SettingsBehaves, PTL DEF MCSpec, mcVars

(* The scenario universe: a behaviour of Configuration, and what its theorems say of it. *)
LEMMA UniverseBehaves == MCSpec => (scenario = "universe" => Second!Startup!Spec)
<1>1. MCInit /\ scenario = "universe" => Second!Startup!Init
  <2>1. MCInit /\ scenario = "universe" => Asking!Init
      BY DEF MCInit, SettingsInit
  <2>2. Second!Startup!Init <=> Asking!Init
      BY Zenon
      DEF Second!Startup!Defaults, Asking!Defaults, Second!Startup!Init, Asking!Init
  <2> QED BY <2>1, <2>2
<1>2. scenario = "universe" /\ [MCNext]_mcVars => [Second!Startup!Next]_Second!Startup!vars
  <2>1. scenario = "universe" /\ [MCNext]_mcVars => Asking!Next \/ UNCHANGED settingVars
      BY OnePartMoves
  <2>2. Second!Startup!Next <=> Asking!Next
    <3>1. Second!Startup!ReadLine <=> Asking!ReadLine
        BY Zenon
        DEF Second!Startup!Unset, Asking!Unset, Second!Startup!Put, Asking!Put,
          Second!Startup!ReadLine, Asking!ReadLine
    <3>2. Second!Startup!FileEnds <=> Asking!FileEnds
        BY Zenon
        DEF Second!Startup!FileEnds, Asking!FileEnds
    <3>3. Second!Startup!FromEnv <=> Asking!FromEnv
      <4>1. /\ Second!Startup!Defaults = Asking!Defaults
            /\ Second!Startup!Unset = Asking!Unset
            /\ Second!Startup!Numbers = Asking!Numbers
          BY Zenon
          DEF Second!Startup!Defaults, Asking!Defaults, Second!Startup!Unset,
            Asking!Unset, Second!Startup!Numbers, Asking!Numbers
      <4>2. \A text : Second!Startup!Number(text) = Asking!Number(text)
          BY DEF Second!Startup!Number, Asking!Number
      <4>3. \A set : /\ Second!Startup!Min(set) = Asking!Min(set)
                      /\ Second!Startup!Max(set) = Asking!Max(set)
          BY Zenon
          DEF Second!Startup!Min, Asking!Min, Second!Startup!Max, Asking!Max
      <4>4. \A text : Second!Startup!Upper(text) = Asking!Upper(text)
          BY DEF Second!Startup!Upper, Asking!Upper
      <4>5. \A text, default, lowest, highest :
             Second!Startup!Bounded(text, default, lowest, highest)
             = Asking!Bounded(text, default, lowest, highest)
          BY <4>1, <4>2, <4>3, Zenon
          DEF Second!Startup!Bounded, Asking!Bounded
      <4>6. \A text, default :
             Second!Startup!Switch(text, default)
             = Asking!Switch(text, default)
          BY <4>1, Zenon
          DEF Second!Startup!Switch, Asking!Switch
      <4>7. \A text, default :
             Second!Startup!Listed(text, default)
             = Asking!Listed(text, default)
          BY <4>1, <4>4, Zenon
          DEF Second!Startup!Listed, Asking!Listed
      <4>8. \A low, high :
             Second!Startup!InOrder(low, high)
             = Asking!InOrder(low, high)
          BY <4>3, Zenon
          DEF Second!Startup!InOrder, Asking!InOrder
      <4> QED
          BY <4>1, <4>5, <4>6, <4>7, <4>8
          DEF Second!Startup!FromEnv, Asking!FromEnv
    <3>4. Second!Startup!ReadInfo <=> Asking!ReadInfo
        BY Zenon
        DEF Second!Startup!Explicit, Asking!Explicit, Second!Startup!ReadInfo,
          Asking!ReadInfo
    <3>5. Second!Startup!ReadTickers <=> Asking!ReadTickers
        BY Zenon
        DEF Second!Startup!Explicit, Asking!Explicit, Second!Startup!Top, Asking!Top,
          Second!Startup!Passing, Asking!Passing, Second!Startup!Ranked, Asking!Ranked,
          Second!Startup!Scanned, Asking!Scanned, Second!Startup!ReadTickers,
          Asking!ReadTickers, Second!Startup!Cardinality, Asking!Cardinality
    <3> QED BY <3>1, <3>2, <3>3, <3>4, <3>5 DEF Second!Startup!Next, Asking!Next
  <2>3. UNCHANGED settingVars <=> UNCHANGED Second!Startup!vars
      BY DEF settingVars, Second!Startup!vars
  <2> QED BY <2>1, <2>2, <2>3
<1>3. [MCNext]_mcVars => ((scenario = "universe")' <=> (scenario = "universe"))
    BY StaysInScenario
<1> QED BY <1>1, <1>2, <1>3, PTL DEF MCSpec, mcVars, Second!Startup!Spec

LEMMA UniverseHolds ==
    MCSpec =>
      [](scenario = "universe" => Asking!TypeOK /\ Asking!UniverseHonest)
<1>1. Second!Startup!ConfigurationAssumption
    BY StartingAssumption, Zenon
    DEF Second!Startup!Keys, Asking!Keys, Second!Startup!Numbers, Asking!Numbers,
      Second!Startup!Texts, Asking!Texts, Second!Startup!Unset, Asking!Unset,
      Second!Startup!ConfigurationAssumption, Asking!ConfigurationAssumption,
      Second!Startup!IsFiniteSet, Asking!IsFiniteSet
<1>2. /\ Second!Startup!Spec => []Second!Startup!TypeOK
      /\ Second!Startup!Spec => []Second!Startup!UniverseHonest
    BY <1>1, Second!StartupTypeCorrect, Second!UniverseTheorem
<1>3. /\ Second!Startup!TypeOK <=> Asking!TypeOK
      /\ Second!Startup!UniverseHonest <=> Asking!UniverseHonest
    BY Zenon
    DEF Second!Startup!Keys, Asking!Keys, Second!Startup!Numbers, Asking!Numbers,
      Second!Startup!Texts, Asking!Texts, Second!Startup!Unset, Asking!Unset,
      Second!Startup!Settings, Asking!Settings, Second!Startup!TypeOK, Asking!TypeOK,
      Second!Startup!Explicit, Asking!Explicit, Second!Startup!UniverseHonest,
      Asking!UniverseHonest, Second!Startup!Cardinality, Asking!Cardinality
<1>4. [MCNext]_mcVars => ((scenario = "universe")' <=> (scenario = "universe"))
    BY StaysInScenario
<1> QED BY <1>2, <1>3, <1>4, UniverseBehaves, PTL DEF MCSpec, mcVars

(* The scenario setup: a behaviour of ExecutorRegistry, and what its theorems say of it. *)
LEMMA SetupBehaves == MCSpec => (scenario = "setup" => First!Registry!Spec)
<1>1. MCInit /\ scenario = "setup" => First!Registry!Init
  <2>1. MCInit /\ scenario = "setup" => Init
      BY DEF MCInit, Init
  <2>2. First!Registry!Init <=> Init
      BY Zenon
      DEF First!Registry!Init, Init
  <2> QED BY <2>1, <2>2
<1>2. scenario = "setup" /\ [MCNext]_mcVars => [First!Registry!Next]_First!Registry!vars
  <2>1. scenario = "setup" /\ [MCNext]_mcVars => Next \/ UNCHANGED vars
      BY OnePartMoves
  <2>2. First!Registry!Next <=> Next
      BY Zenon
      DEF First!Registry!registry, registry, First!Registry!metadata, metadata,
        First!Registry!account, account, First!Registry!market, market,
        First!Registry!Goto, Goto, First!Registry!Call, Call, First!Registry!LockFree,
        LockFree, First!Registry!FoundExecutor, FoundExecutor,
        First!Registry!NewExecutor, NewExecutor, First!Registry!MarginTypeAfter,
        MarginTypeAfter, First!Registry!ChangeMarginType, ChangeMarginType,
        First!Registry!StepDown, StepDown, First!Registry!MayStepDown, MayStepDown,
        First!Registry!LeverageRejected, LeverageRejected, First!Registry!Kept, Kept,
        First!Registry!LeverageAccepted, LeverageAccepted, First!Registry!SetupRaises,
        SetupRaises, First!Registry!ReadFilters, ReadFilters, First!Registry!StartLoad,
        StartLoad, First!Registry!MayTake, MayTake, First!Registry!Load, Load,
        First!Registry!Step, Step, First!Registry!Next, Next
  <2>3. UNCHANGED vars <=> UNCHANGED First!Registry!vars
      BY DEF local, registry, metadata, account, market, vars, First!Registry!local,
        First!Registry!registry, First!Registry!metadata, First!Registry!account,
        First!Registry!market, First!Registry!vars
  <2> QED BY <2>1, <2>2, <2>3
<1>3. [MCNext]_mcVars => ((scenario = "setup")' <=> (scenario = "setup"))
    BY StaysInScenario
<1> QED BY <1>1, <1>2, <1>3, PTL DEF MCSpec, mcVars, First!Registry!Spec

LEMMA SetupHolds ==
    MCSpec =>
      [](scenario = "setup" => TypeOK /\ LeverageAgrees)
<1>1. First!Registry!RegistryAssumption
    BY SetupAssumption, Zenon
    DEF First!Registry!AllFaults, AllFaults, First!Registry!RegistryAssumption,
      RegistryAssumption, First!Registry!metadata, metadata
<1>2. /\ First!Registry!Spec => []First!Registry!TypeOK
      /\ First!Registry!Spec => []First!Registry!LeverageAgrees
    BY <1>1, First!RegistryTypeCorrect, First!LeverageTheorem
<1>3. /\ First!Registry!TypeOK <=> TypeOK
      /\ First!Registry!LeverageAgrees <=> LeverageAgrees
    BY Zenon
    DEF First!Registry!InSetup, InSetup, First!Registry!TypeOK, TypeOK,
      First!Registry!LeverageAgrees, LeverageAgrees
<1>4. [MCNext]_mcVars => ((scenario = "setup")' <=> (scenario = "setup"))
    BY StaysInScenario
<1> QED BY <1>2, <1>3, <1>4, SetupBehaves, PTL DEF MCSpec, mcVars

(* The scenario calls: a behaviour of ExecutorRegistry, and what its theorems say of it. *)
LEMMA CallsBehaves == MCSpec => (scenario = "calls" => Second!Registry!Spec)
<1>1. MCInit /\ scenario = "calls" => Second!Registry!Init
  <2>1. MCInit /\ scenario = "calls" => Calls!Init
      BY DEF MCInit, Starting, Orders, Scalings, Files, Applications
  <2>2. Second!Registry!Init <=> Calls!Init
      BY Zenon
      DEF Second!Registry!Init, Calls!Init
  <2> QED BY <2>1, <2>2
<1>2. scenario = "calls" /\ [MCNext]_mcVars => [Second!Registry!Next]_Second!Registry!vars
  <2>1. scenario = "calls" /\ [MCNext]_mcVars => Calls!Next \/ UNCHANGED vars
      BY OnePartMoves
  <2>2. Second!Registry!Next <=> Calls!Next
      BY Zenon
      DEF Second!Registry!registry, Calls!registry, Second!Registry!metadata,
        Calls!metadata, Second!Registry!account, Calls!account, Second!Registry!market,
        Calls!market, Second!Registry!Goto, Calls!Goto, Second!Registry!Call,
        Calls!Call, Second!Registry!LockFree, Calls!LockFree,
        Second!Registry!FoundExecutor, Calls!FoundExecutor, Second!Registry!NewExecutor,
        Calls!NewExecutor, Second!Registry!MarginTypeAfter, Calls!MarginTypeAfter,
        Second!Registry!ChangeMarginType, Calls!ChangeMarginType,
        Second!Registry!StepDown, Calls!StepDown, Second!Registry!MayStepDown,
        Calls!MayStepDown, Second!Registry!LeverageRejected, Calls!LeverageRejected,
        Second!Registry!Kept, Calls!Kept, Second!Registry!LeverageAccepted,
        Calls!LeverageAccepted, Second!Registry!SetupRaises, Calls!SetupRaises,
        Second!Registry!ReadFilters, Calls!ReadFilters, Second!Registry!StartLoad,
        Calls!StartLoad, Second!Registry!MayTake, Calls!MayTake, Second!Registry!Load,
        Calls!Load, Second!Registry!Step, Calls!Step, Second!Registry!Next, Calls!Next
  <2>3. UNCHANGED vars <=> UNCHANGED Second!Registry!vars
      BY DEF local, registry, metadata, account, market, vars, Second!Registry!local,
        Second!Registry!registry, Second!Registry!metadata, Second!Registry!account,
        Second!Registry!market, Second!Registry!vars
  <2> QED BY <2>1, <2>2, <2>3
<1>3. [MCNext]_mcVars => ((scenario = "calls")' <=> (scenario = "calls"))
    BY StaysInScenario
<1> QED BY <1>1, <1>2, <1>3, PTL DEF MCSpec, mcVars, Second!Registry!Spec

LEMMA CallsHolds ==
    MCSpec =>
      [](scenario = "calls" => Calls!TypeOK /\ Calls!LeverageAgrees)
<1>1. Second!Registry!RegistryAssumption
    BY SetupAssumption, Zenon
    DEF Second!Registry!AllFaults, Calls!AllFaults, Second!Registry!RegistryAssumption,
      Calls!RegistryAssumption, Second!Registry!metadata, Calls!metadata
<1>2. /\ Second!Registry!Spec => []Second!Registry!TypeOK
      /\ Second!Registry!Spec => []Second!Registry!LeverageAgrees
    BY <1>1, Second!RegistryTypeCorrect, Second!LeverageTheorem
<1>3. /\ Second!Registry!TypeOK <=> Calls!TypeOK
      /\ Second!Registry!LeverageAgrees <=> Calls!LeverageAgrees
    BY Zenon
    DEF Second!Registry!InSetup, Calls!InSetup, Second!Registry!TypeOK, Calls!TypeOK,
      Second!Registry!LeverageAgrees, Calls!LeverageAgrees
<1>4. [MCNext]_mcVars => ((scenario = "calls")' <=> (scenario = "calls"))
    BY StaysInScenario
<1> QED BY <1>2, <1>3, <1>4, CallsBehaves, PTL DEF MCSpec, mcVars

(* The scenario fallback: a behaviour of EntryOrder, and what its theorems say of it. *)
LEMMA FallbackBehaves == MCSpec => (scenario = "fallback" => First!Order!Spec)
<1>1. MCInit /\ scenario = "fallback" => First!Order!Init
  <2>1. MCInit /\ scenario = "fallback" => Fallback!Init
      BY DEF MCInit
  <2>2. First!Order!Init <=> Fallback!Init
      BY Zenon
      DEF First!Order!Init, Fallback!Init
  <2> QED BY <2>1, <2>2
<1>2. scenario = "fallback" /\ [MCNext]_mcVars => [First!Order!Next]_First!Order!vars
  <2>1. scenario = "fallback" /\ [MCNext]_mcVars => Fallback!Next \/ UNCHANGED orderVars
      BY OnePartMoves
  <2>2. First!Order!Next <=> Fallback!Next
      BY Zenon
      DEF First!Order!exchange, Fallback!exchange, First!Order!Fill, Fallback!Fill,
        First!Order!OrderEnds, Fallback!OrderEnds, First!Order!Return, Fallback!Return,
        First!Order!Raise, Fallback!Raise, First!Order!Place, Fallback!Place,
        First!Order!RequestFails, Fallback!RequestFails, First!Order!PollFallback,
        Fallback!PollFallback, First!Order!PollLimit, Fallback!PollLimit,
        First!Order!GiveUp, Fallback!GiveUp, First!Order!CancelLimit,
        Fallback!CancelLimit, First!Order!Unfilled, Fallback!Unfilled,
        First!Order!Cancel, Fallback!Cancel, First!Order!Remaining, Fallback!Remaining,
        First!Order!Executed, Fallback!Executed, First!Order!Market, Fallback!Market,
        First!Order!Confirm, Fallback!Confirm, First!Order!Step, Fallback!Step,
        First!Order!Next, Fallback!Next
  <2>3. UNCHANGED orderVars <=> UNCHANGED First!Order!vars
      BY DEF orderVars, First!Order!vars
  <2> QED BY <2>1, <2>2, <2>3
<1>3. [MCNext]_mcVars => ((scenario = "fallback")' <=> (scenario = "fallback"))
    BY StaysInScenario
<1> QED BY <1>1, <1>2, <1>3, PTL DEF MCSpec, mcVars, First!Order!Spec

LEMMA FallbackHolds ==
    MCSpec =>
      [](scenario = "fallback" => Fallback!TypeOK /\ Fallback!OnlyUnseenMissing /\
        Fallback!ReportIsHeld /\ Fallback!NothingRests)
<1>1. First!Order!OrderAssumption
    BY OrdersAssumption, Zenon
    DEF First!Order!AllFaults, Fallback!AllFaults, First!Order!OrderAssumption,
      Fallback!OrderAssumption
<1>2. /\ First!Order!Spec => []First!Order!TypeOK
      /\ First!Order!Spec => []First!Order!OnlyUnseenMissing
      /\ First!Order!Spec => []First!Order!ReportIsHeld
      /\ First!Order!Spec => []First!Order!NothingRests
    BY <1>1, First!OrderTypeCorrect, First!CountTheorem, First!ReportTheorem,
      First!RestTheorem
<1>3. /\ First!Order!TypeOK <=> Fallback!TypeOK
      /\ First!Order!OnlyUnseenMissing <=> Fallback!OnlyUnseenMissing
      /\ First!Order!ReportIsHeld <=> Fallback!ReportIsHeld
      /\ First!Order!NothingRests <=> Fallback!NothingRests
    BY Zenon
    DEF First!Order!Held, Fallback!Held, First!Order!Ended, Fallback!Ended,
      First!Order!TypeOK, Fallback!TypeOK, First!Order!Unseen, Fallback!Unseen,
      First!Order!OnlyUnseenMissing, Fallback!OnlyUnseenMissing,
      First!Order!ReportIsHeld, Fallback!ReportIsHeld, First!Order!NothingRests,
      Fallback!NothingRests
<1>4. [MCNext]_mcVars => ((scenario = "fallback")' <=> (scenario = "fallback"))
    BY StaysInScenario
<1> QED BY <1>2, <1>3, <1>4, FallbackBehaves, PTL DEF MCSpec, mcVars

(* The scenario lossy: a behaviour of EntryOrder, and what its theorems say of it. *)
LEMMA LossyBehaves == MCSpec => (scenario = "lossy" => Second!Order!Spec)
<1>1. MCInit /\ scenario = "lossy" => Second!Order!Init
  <2>1. MCInit /\ scenario = "lossy" => Lossy!Init
      BY DEF MCInit, Fallback!Init, Lossy!Init
  <2>2. Second!Order!Init <=> Lossy!Init
      BY Zenon
      DEF Second!Order!Init, Lossy!Init
  <2> QED BY <2>1, <2>2
<1>2. scenario = "lossy" /\ [MCNext]_mcVars => [Second!Order!Next]_Second!Order!vars
  <2>1. scenario = "lossy" /\ [MCNext]_mcVars => Lossy!Next \/ UNCHANGED orderVars
      BY OnePartMoves
  <2>2. Second!Order!Next <=> Lossy!Next
      BY Zenon
      DEF Second!Order!exchange, Lossy!exchange, Second!Order!Fill, Lossy!Fill,
        Second!Order!OrderEnds, Lossy!OrderEnds, Second!Order!Return, Lossy!Return,
        Second!Order!Raise, Lossy!Raise, Second!Order!Place, Lossy!Place,
        Second!Order!RequestFails, Lossy!RequestFails, Second!Order!PollFallback,
        Lossy!PollFallback, Second!Order!PollLimit, Lossy!PollLimit,
        Second!Order!GiveUp, Lossy!GiveUp, Second!Order!CancelLimit, Lossy!CancelLimit,
        Second!Order!Unfilled, Lossy!Unfilled, Second!Order!Cancel, Lossy!Cancel,
        Second!Order!Remaining, Lossy!Remaining, Second!Order!Executed, Lossy!Executed,
        Second!Order!Market, Lossy!Market, Second!Order!Confirm, Lossy!Confirm,
        Second!Order!Step, Lossy!Step, Second!Order!Next, Lossy!Next
  <2>3. UNCHANGED orderVars <=> UNCHANGED Second!Order!vars
      BY DEF orderVars, Second!Order!vars
  <2> QED BY <2>1, <2>2, <2>3
<1>3. [MCNext]_mcVars => ((scenario = "lossy")' <=> (scenario = "lossy"))
    BY StaysInScenario
<1> QED BY <1>1, <1>2, <1>3, PTL DEF MCSpec, mcVars, Second!Order!Spec

LEMMA LossyHolds ==
    MCSpec =>
      [](scenario = "lossy" => Lossy!TypeOK /\ Lossy!ReportIsHeld)
<1>1. Second!Order!OrderAssumption
    BY OrdersAssumption, Zenon
    DEF Second!Order!AllFaults, Lossy!AllFaults, Second!Order!OrderAssumption,
      Lossy!OrderAssumption
<1>2. /\ Second!Order!Spec => []Second!Order!TypeOK
      /\ Second!Order!Spec => []Second!Order!ReportIsHeld
    BY <1>1, Second!OrderTypeCorrect, Second!ReportTheorem
<1>3. /\ Second!Order!TypeOK <=> Lossy!TypeOK
      /\ Second!Order!ReportIsHeld <=> Lossy!ReportIsHeld
    BY Zenon
    DEF Second!Order!Held, Lossy!Held, Second!Order!Ended, Lossy!Ended,
      Second!Order!TypeOK, Lossy!TypeOK, Second!Order!ReportIsHeld, Lossy!ReportIsHeld
<1>4. [MCNext]_mcVars => ((scenario = "lossy")' <=> (scenario = "lossy"))
    BY StaysInScenario
<1> QED BY <1>2, <1>3, <1>4, LossyBehaves, PTL DEF MCSpec, mcVars

(* The scenario limit: a behaviour of EntryOrder, and what its theorems say of it. *)
LEMMA LimitBehaves == MCSpec => (scenario = "limit" => Third!Order!Spec)
<1>1. MCInit /\ scenario = "limit" => Third!Order!Init
  <2>1. MCInit /\ scenario = "limit" => LimitStyle!Init
      BY DEF MCInit, Fallback!Init, LimitStyle!Init
  <2>2. Third!Order!Init <=> LimitStyle!Init
      BY Zenon
      DEF Third!Order!Init, LimitStyle!Init
  <2> QED BY <2>1, <2>2
<1>2. scenario = "limit" /\ [MCNext]_mcVars => [Third!Order!Next]_Third!Order!vars
  <2>1. scenario = "limit" /\ [MCNext]_mcVars => LimitStyle!Next \/ UNCHANGED orderVars
      BY OnePartMoves
  <2>2. Third!Order!Next <=> LimitStyle!Next
      BY Zenon
      DEF Third!Order!exchange, LimitStyle!exchange, Third!Order!Fill, LimitStyle!Fill,
        Third!Order!OrderEnds, LimitStyle!OrderEnds, Third!Order!Return,
        LimitStyle!Return, Third!Order!Raise, LimitStyle!Raise, Third!Order!Place,
        LimitStyle!Place, Third!Order!RequestFails, LimitStyle!RequestFails,
        Third!Order!PollFallback, LimitStyle!PollFallback, Third!Order!PollLimit,
        LimitStyle!PollLimit, Third!Order!GiveUp, LimitStyle!GiveUp,
        Third!Order!CancelLimit, LimitStyle!CancelLimit, Third!Order!Unfilled,
        LimitStyle!Unfilled, Third!Order!Cancel, LimitStyle!Cancel,
        Third!Order!Remaining, LimitStyle!Remaining, Third!Order!Executed,
        LimitStyle!Executed, Third!Order!Market, LimitStyle!Market, Third!Order!Confirm,
        LimitStyle!Confirm, Third!Order!Step, LimitStyle!Step, Third!Order!Next,
        LimitStyle!Next
  <2>3. UNCHANGED orderVars <=> UNCHANGED Third!Order!vars
      BY DEF orderVars, Third!Order!vars
  <2> QED BY <2>1, <2>2, <2>3
<1>3. [MCNext]_mcVars => ((scenario = "limit")' <=> (scenario = "limit"))
    BY StaysInScenario
<1> QED BY <1>1, <1>2, <1>3, PTL DEF MCSpec, mcVars, Third!Order!Spec

LEMMA LimitHolds ==
    MCSpec =>
      [](scenario = "limit" => LimitStyle!TypeOK /\ LimitStyle!ReportIsHeld /\
        LimitStyle!NothingRests)
<1>1. Third!Order!OrderAssumption
    BY OrdersAssumption, Zenon
    DEF Third!Order!AllFaults, LimitStyle!AllFaults, Third!Order!OrderAssumption,
      LimitStyle!OrderAssumption
<1>2. /\ Third!Order!Spec => []Third!Order!TypeOK
      /\ Third!Order!Spec => []Third!Order!ReportIsHeld
      /\ Third!Order!Spec => []Third!Order!NothingRests
    BY <1>1, Third!OrderTypeCorrect, Third!ReportTheorem, Third!RestTheorem
<1>3. /\ Third!Order!TypeOK <=> LimitStyle!TypeOK
      /\ Third!Order!ReportIsHeld <=> LimitStyle!ReportIsHeld
      /\ Third!Order!NothingRests <=> LimitStyle!NothingRests
    BY Zenon
    DEF Third!Order!Held, LimitStyle!Held, Third!Order!Ended, LimitStyle!Ended,
      Third!Order!TypeOK, LimitStyle!TypeOK, Third!Order!ReportIsHeld,
      LimitStyle!ReportIsHeld, Third!Order!NothingRests, LimitStyle!NothingRests
<1>4. [MCNext]_mcVars => ((scenario = "limit")' <=> (scenario = "limit"))
    BY StaysInScenario
<1> QED BY <1>2, <1>3, <1>4, LimitBehaves, PTL DEF MCSpec, mcVars

(* The scenario scaling: a behaviour of LossScaling, and what its theorems say of it. *)
LEMMA ScalingBehaves == MCSpec => (scenario = "scaling" => First!Scaling!Spec)
<1>1. MCInit /\ scenario = "scaling" => First!Scaling!Init
  <2>1. MCInit /\ scenario = "scaling" => Scaling!Init
      BY DEF MCInit
  <2>2. First!Scaling!Init <=> Scaling!Init
      BY Zenon
      DEF First!Scaling!Levels, Scaling!Levels, First!Scaling!Init, Scaling!Init
  <2> QED BY <2>1, <2>2
<1>2. scenario = "scaling" /\ [MCNext]_mcVars => [First!Scaling!Next]_First!Scaling!vars
  <2>1. scenario = "scaling" /\ [MCNext]_mcVars => Scaling!Next \/ UNCHANGED scalingVars
      BY OnePartMoves
  <2>2. First!Scaling!Next <=> Scaling!Next
      BY Zenon
      DEF First!Scaling!Levels, Scaling!Levels, First!Scaling!Margin, Scaling!Margin,
        First!Scaling!levels, Scaling!levels, First!Scaling!exchange, Scaling!exchange,
        First!Scaling!Due, Scaling!Due, First!Scaling!Defer, Scaling!Defer,
        First!Scaling!BackoffEnds, Scaling!BackoffEnds, First!Scaling!TooSmall,
        Scaling!TooSmall, First!Scaling!Buy, Scaling!Buy, First!Scaling!AddFails,
        Scaling!AddFails, First!Scaling!AddLost, Scaling!AddLost,
        First!Scaling!AddFills, Scaling!AddFills, First!Scaling!NewQty, Scaling!NewQty,
        First!Scaling!Replace, Scaling!Replace, First!Scaling!ReplaceFails,
        Scaling!ReplaceFails, First!Scaling!NoId, Scaling!NoId,
        First!Scaling!StructureBreaks, Scaling!StructureBreaks, First!Scaling!CloseAll,
        Scaling!CloseAll, First!Scaling!CloseFails, Scaling!CloseFails,
        First!Scaling!Next, Scaling!Next
  <2>3. UNCHANGED scalingVars <=> UNCHANGED First!Scaling!vars
      BY DEF scalingVars, First!Scaling!vars
  <2> QED BY <2>1, <2>2, <2>3
<1>3. [MCNext]_mcVars => ((scenario = "scaling")' <=> (scenario = "scaling"))
    BY StaysInScenario
<1> QED BY <1>1, <1>2, <1>3, PTL DEF MCSpec, mcVars, First!Scaling!Spec

LEMMA ScalingHolds ==
    MCSpec =>
      [](scenario = "scaling" => Scaling!TypeOK /\ Scaling!ScaledPositionCovered)
<1>1. First!Scaling!ScalingAssumption
    BY ScalingsAssumption, Zenon
    DEF First!Scaling!ScalingAssumption, Scaling!ScalingAssumption
<1>2. /\ First!Scaling!Spec => []First!Scaling!TypeOK
      /\ First!Scaling!Spec => []First!Scaling!ScaledPositionCovered
    BY <1>1, First!ScalingTypeCorrect, First!ScalingTheorem
<1>3. /\ First!Scaling!TypeOK <=> Scaling!TypeOK
      /\ First!Scaling!ScaledPositionCovered <=> Scaling!ScaledPositionCovered
    BY Zenon
    DEF First!Scaling!Levels, Scaling!Levels, First!Scaling!Margin, Scaling!Margin,
      First!Scaling!TypeOK, Scaling!TypeOK, First!Scaling!ScaledPositionCovered,
      Scaling!ScaledPositionCovered
<1>4. [MCNext]_mcVars => ((scenario = "scaling")' <=> (scenario = "scaling"))
    BY StaysInScenario
<1> QED BY <1>2, <1>3, <1>4, ScalingBehaves, PTL DEF MCSpec, mcVars

(* The scenario faulty: a behaviour of LossScaling, and what its theorems say of it. *)
LEMMA FaultyBehaves == MCSpec => (scenario = "faulty" => Second!Scaling!Spec)
<1>1. MCInit /\ scenario = "faulty" => Second!Scaling!Init
  <2>1. MCInit /\ scenario = "faulty" => Faulty!Init
      BY DEF MCInit, Scaling!Levels, Faulty!Levels, Scaling!Init, Faulty!Init
  <2>2. Second!Scaling!Init <=> Faulty!Init
      BY Zenon
      DEF Second!Scaling!Levels, Faulty!Levels, Second!Scaling!Init, Faulty!Init
  <2> QED BY <2>1, <2>2
<1>2. scenario = "faulty" /\ [MCNext]_mcVars => [Second!Scaling!Next]_Second!Scaling!vars
  <2>1. scenario = "faulty" /\ [MCNext]_mcVars => Faulty!Next \/ UNCHANGED scalingVars
      BY OnePartMoves
  <2>2. Second!Scaling!Next <=> Faulty!Next
      BY Zenon
      DEF Second!Scaling!Levels, Faulty!Levels, Second!Scaling!Margin, Faulty!Margin,
        Second!Scaling!levels, Faulty!levels, Second!Scaling!exchange, Faulty!exchange,
        Second!Scaling!Due, Faulty!Due, Second!Scaling!Defer, Faulty!Defer,
        Second!Scaling!BackoffEnds, Faulty!BackoffEnds, Second!Scaling!TooSmall,
        Faulty!TooSmall, Second!Scaling!Buy, Faulty!Buy, Second!Scaling!AddFails,
        Faulty!AddFails, Second!Scaling!AddLost, Faulty!AddLost,
        Second!Scaling!AddFills, Faulty!AddFills, Second!Scaling!NewQty, Faulty!NewQty,
        Second!Scaling!Replace, Faulty!Replace, Second!Scaling!ReplaceFails,
        Faulty!ReplaceFails, Second!Scaling!NoId, Faulty!NoId,
        Second!Scaling!StructureBreaks, Faulty!StructureBreaks, Second!Scaling!CloseAll,
        Faulty!CloseAll, Second!Scaling!CloseFails, Faulty!CloseFails,
        Second!Scaling!Next, Faulty!Next
  <2>3. UNCHANGED scalingVars <=> UNCHANGED Second!Scaling!vars
      BY DEF scalingVars, Second!Scaling!vars
  <2> QED BY <2>1, <2>2, <2>3
<1>3. [MCNext]_mcVars => ((scenario = "faulty")' <=> (scenario = "faulty"))
    BY StaysInScenario
<1> QED BY <1>1, <1>2, <1>3, PTL DEF MCSpec, mcVars, Second!Scaling!Spec

LEMMA FaultyHolds ==
    MCSpec =>
      [](scenario = "faulty" => Faulty!TypeOK)
<1>1. Second!Scaling!ScalingAssumption
    BY ScalingsAssumption, Zenon
    DEF Second!Scaling!ScalingAssumption, Faulty!ScalingAssumption
<1>2. /\ Second!Scaling!Spec => []Second!Scaling!TypeOK
    BY <1>1, Second!ScalingTypeCorrect
<1>3. /\ Second!Scaling!TypeOK <=> Faulty!TypeOK
    BY Zenon
    DEF Second!Scaling!Levels, Faulty!Levels, Second!Scaling!TypeOK, Faulty!TypeOK
<1>4. [MCNext]_mcVars => ((scenario = "faulty")' <=> (scenario = "faulty"))
    BY StaysInScenario
<1> QED BY <1>2, <1>3, <1>4, FaultyBehaves, PTL DEF MCSpec, mcVars

(* The scenario crash: a behaviour of StateFile, and what its theorems say of it. *)
LEMMA CrashBehaves == MCSpec => (scenario = "crash" => First!File!Spec)
<1>1. MCInit /\ scenario = "crash" => First!File!Init
  <2>1. MCInit /\ scenario = "crash" => Crashing!Init
      BY DEF MCInit
  <2>2. First!File!Init <=> Crashing!Init
      BY Zenon
      DEF First!File!State, Crashing!State, First!File!Content, Crashing!Content,
        First!File!Plain, Crashing!Plain, First!File!Init, Crashing!Init
  <2> QED BY <2>1, <2>2
<1>2. scenario = "crash" /\ [MCNext]_mcVars => [First!File!Next]_First!File!vars
  <2>1. scenario = "crash" /\ [MCNext]_mcVars => Crashing!Next \/ UNCHANGED fileVars
      BY OnePartMoves
  <2>2. First!File!Next <=> Crashing!Next
      BY Zenon
      DEF First!File!Versions, Crashing!Versions, First!File!Invalid, Crashing!Invalid,
        First!File!State, Crashing!State, First!File!Content, Crashing!Content,
        First!File!Plain, Crashing!Plain, First!File!Object, Crashing!Object,
        First!File!Start, Crashing!Start, First!File!LoadNothing, Crashing!LoadNothing,
        First!File!AfterBadRead, Crashing!AfterBadRead, First!File!Unreadable,
        Crashing!Unreadable, First!File!LoadUnreadable, Crashing!LoadUnreadable,
        First!File!LoadNoObject, Crashing!LoadNoObject, First!File!LoadObject,
        Crashing!LoadObject, First!File!Trade, Crashing!Trade, First!File!BeginSave,
        Crashing!BeginSave, First!File!Written, Crashing!Written, First!File!WriteSome,
        Crashing!WriteSome, First!File!WriteAll, Crashing!WriteAll, First!File!Replace,
        Crashing!Replace, First!File!End, Crashing!End, First!File!Edit, Crashing!Edit,
        First!File!Process, Crashing!Process, First!File!Next, Crashing!Next
  <2>3. UNCHANGED fileVars <=> UNCHANGED First!File!vars
      BY DEF fileVars, First!File!vars
  <2> QED BY <2>1, <2>2, <2>3
<1>3. [MCNext]_mcVars => ((scenario = "crash")' <=> (scenario = "crash"))
    BY StaysInScenario
<1> QED BY <1>1, <1>2, <1>3, PTL DEF MCSpec, mcVars, First!File!Spec

LEMMA CrashHolds ==
    MCSpec =>
      [](scenario = "crash" => Crashing!TypeOK /\ Crashing!SavedSurvives)
<1>1. First!File!FileAssumption
    BY FilesAssumption, Zenon
    DEF First!File!AllFaults, Crashing!AllFaults, First!File!FileAssumption,
      Crashing!FileAssumption
<1>2. /\ First!File!Spec => []First!File!TypeOK
      /\ First!File!Spec => []First!File!SavedSurvives
    BY <1>1, First!FileTypeCorrect, First!SavedTheorem
<1>3. /\ First!File!TypeOK <=> Crashing!TypeOK
      /\ First!File!SavedSurvives <=> Crashing!SavedSurvives
    BY Zenon
    DEF First!File!Versions, Crashing!Versions, First!File!Invalid, Crashing!Invalid,
      First!File!State, Crashing!State, First!File!States, Crashing!States,
      First!File!Content, Crashing!Content, First!File!Plain, Crashing!Plain,
      First!File!Object, Crashing!Object, First!File!Contents, Crashing!Contents,
      First!File!TypeOK, Crashing!TypeOK, First!File!SavedSurvives,
      Crashing!SavedSurvives
<1>4. [MCNext]_mcVars => ((scenario = "crash")' <=> (scenario = "crash"))
    BY StaysInScenario
<1> QED BY <1>2, <1>3, <1>4, CrashBehaves, PTL DEF MCSpec, mcVars

(* The scenario edited: a behaviour of StateFile, and what its theorems say of it. *)
LEMMA EditedBehaves == MCSpec => (scenario = "edited" => Second!File!Spec)
<1>1. MCInit /\ scenario = "edited" => Second!File!Init
  <2>1. MCInit /\ scenario = "edited" => Edited!Init
      BY DEF MCInit, Crashing!State, Edited!State, Crashing!Content, Edited!Content,
        Crashing!Plain, Edited!Plain, Crashing!Init, Edited!Init
  <2>2. Second!File!Init <=> Edited!Init
      BY Zenon
      DEF Second!File!State, Edited!State, Second!File!Content, Edited!Content,
        Second!File!Plain, Edited!Plain, Second!File!Init, Edited!Init
  <2> QED BY <2>1, <2>2
<1>2. scenario = "edited" /\ [MCNext]_mcVars => [Second!File!Next]_Second!File!vars
  <2>1. scenario = "edited" /\ [MCNext]_mcVars => Edited!Next \/ UNCHANGED fileVars
      BY OnePartMoves
  <2>2. Second!File!Next <=> Edited!Next
      BY Zenon
      DEF Second!File!Versions, Edited!Versions, Second!File!Invalid, Edited!Invalid,
        Second!File!State, Edited!State, Second!File!Content, Edited!Content,
        Second!File!Plain, Edited!Plain, Second!File!Object, Edited!Object,
        Second!File!Start, Edited!Start, Second!File!LoadNothing, Edited!LoadNothing,
        Second!File!AfterBadRead, Edited!AfterBadRead, Second!File!Unreadable,
        Edited!Unreadable, Second!File!LoadUnreadable, Edited!LoadUnreadable,
        Second!File!LoadNoObject, Edited!LoadNoObject, Second!File!LoadObject,
        Edited!LoadObject, Second!File!Trade, Edited!Trade, Second!File!BeginSave,
        Edited!BeginSave, Second!File!Written, Edited!Written, Second!File!WriteSome,
        Edited!WriteSome, Second!File!WriteAll, Edited!WriteAll, Second!File!Replace,
        Edited!Replace, Second!File!End, Edited!End, Second!File!Edit, Edited!Edit,
        Second!File!Process, Edited!Process, Second!File!Next, Edited!Next
  <2>3. UNCHANGED fileVars <=> UNCHANGED Second!File!vars
      BY DEF fileVars, Second!File!vars
  <2> QED BY <2>1, <2>2, <2>3
<1>3. [MCNext]_mcVars => ((scenario = "edited")' <=> (scenario = "edited"))
    BY StaysInScenario
<1> QED BY <1>1, <1>2, <1>3, PTL DEF MCSpec, mcVars, Second!File!Spec

LEMMA EditedHolds ==
    MCSpec =>
      [](scenario = "edited" => Edited!TypeOK)
<1>1. Second!File!FileAssumption
    BY FilesAssumption, Zenon
    DEF Second!File!AllFaults, Edited!AllFaults, Second!File!FileAssumption,
      Edited!FileAssumption
<1>2. /\ Second!File!Spec => []Second!File!TypeOK
    BY <1>1, Second!FileTypeCorrect
<1>3. /\ Second!File!TypeOK <=> Edited!TypeOK
    BY Zenon
    DEF Second!File!Versions, Edited!Versions, Second!File!Invalid, Edited!Invalid,
      Second!File!State, Edited!State, Second!File!States, Edited!States,
      Second!File!Content, Edited!Content, Second!File!Plain, Edited!Plain,
      Second!File!Object, Edited!Object, Second!File!Contents, Edited!Contents,
      Second!File!TypeOK, Edited!TypeOK
<1>4. [MCNext]_mcVars => ((scenario = "edited")' <=> (scenario = "edited"))
    BY StaysInScenario
<1> QED BY <1>2, <1>3, <1>4, EditedBehaves, PTL DEF MCSpec, mcVars

(* The scenario restart: a behaviour of BotApplication, and what its theorems say of it. *)
LEMMA RestartBehaves == MCSpec => (scenario = "restart" => First!App!Spec)
<1>1. MCInit /\ scenario = "restart" => First!App!Init
  <2>1. MCInit /\ scenario = "restart" => Restarts!Init
      BY DEF MCInit
  <2>2. First!App!Init <=> Restarts!Init
      BY Zenon
      DEF First!App!Init, Restarts!Init
  <2> QED BY <2>1, <2>2
<1>2. scenario = "restart" /\ [MCNext]_mcVars => [First!App!Next]_First!App!vars
  <2>1. scenario = "restart" /\ [MCNext]_mcVars => Restarts!Next \/ UNCHANGED appVars
      BY OnePartMoves
  <2>2. First!App!Next <=> Restarts!Next
      BY Zenon
      DEF First!App!exchange, Restarts!exchange, First!App!threads, Restarts!threads,
        First!App!Load, Restarts!Load, First!App!Boot, Restarts!Boot,
        First!App!AfterFailedRead, Restarts!AfterFailedRead, First!App!Goto,
        Restarts!Goto, First!App!ReadPositions, Restarts!ReadPositions,
        First!App!ReadOrders, Restarts!ReadOrders, First!App!Cleanup, Restarts!Cleanup,
        First!App!InstallHandlers, Restarts!InstallHandlers, First!App!FetchOrphans,
        Restarts!FetchOrphans, First!App!OrphansAfter, Restarts!OrphansAfter,
        First!App!ResumeOrphan, Restarts!ResumeOrphan, First!App!ResumeRaises,
        Restarts!ResumeRaises, First!App!ResumeEnds, Restarts!ResumeEnds,
        First!App!StartScheduler, Restarts!StartScheduler, First!App!SubmitEntry,
        Restarts!SubmitEntry, First!App!OrderFills, Restarts!OrderFills,
        First!App!MayReportNothing, Restarts!MayReportNothing, First!App!EntryOver,
        Restarts!EntryOver, First!App!LaunchMonitor, Restarts!LaunchMonitor,
        First!App!NotFilled, Restarts!NotFilled, First!App!PriceAtStop,
        Restarts!PriceAtStop, First!App!EntryEnds, Restarts!EntryEnds,
        First!App!PositionCloses, Restarts!PositionCloses, First!App!MonitorReports,
        Restarts!MonitorReports, First!App!ProcessEnds, Restarts!ProcessEnds,
        First!App!Unhandled, Restarts!Unhandled, First!App!Signal, Restarts!Signal,
        First!App!SignalKills, Restarts!SignalKills, First!App!Crash, Restarts!Crash,
        First!App!MayStop, Restarts!MayStop, First!App!LoopEnds, Restarts!LoopEnds,
        First!App!SaveRisk, Restarts!SaveRisk, First!App!StopStream,
        Restarts!StopStream, First!App!Exit, Restarts!Exit, First!App!MainStep,
        Restarts!MainStep, First!App!Environment, Restarts!Environment, First!App!Next,
        Restarts!Next
  <2>3. UNCHANGED appVars <=> UNCHANGED First!App!vars
      BY DEF appVars, First!App!exchange, First!App!threads, First!App!vars
  <2> QED BY <2>1, <2>2, <2>3
<1>3. [MCNext]_mcVars => ((scenario = "restart")' <=> (scenario = "restart"))
    BY StaysInScenario
<1> QED BY <1>1, <1>2, <1>3, PTL DEF MCSpec, mcVars, First!App!Spec

LEMMA RestartHolds ==
    MCSpec =>
      [](scenario = "restart" => Restarts!TypeOK)
<1>1. First!App!ApplicationAssumption
    BY ApplicationsAssumption, Zenon
    DEF First!App!AllFaults, Restarts!AllFaults, First!App!ApplicationAssumption,
      Restarts!ApplicationAssumption, First!App!IsFiniteSet, Restarts!IsFiniteSet
<1>2. /\ First!App!Spec => []First!App!TypeOK
    BY <1>1, First!AppTypeCorrect
<1>3. /\ First!App!TypeOK <=> Restarts!TypeOK
    BY Zenon
    DEF First!App!TypeOK, Restarts!TypeOK
<1>4. [MCNext]_mcVars => ((scenario = "restart")' <=> (scenario = "restart"))
    BY StaysInScenario
<1> QED BY <1>2, <1>3, <1>4, RestartBehaves, PTL DEF MCSpec, mcVars

(* The scenario watched: a behaviour of BotApplication, and what its theorems say of it. *)
LEMMA WatchedBehaves == MCSpec => (scenario = "watched" => Second!App!Spec)
<1>1. MCInit /\ scenario = "watched" => Second!App!Init
  <2>1. MCInit /\ scenario = "watched" => Watched!Init
      BY DEF MCInit
  <2>2. Second!App!Init <=> Watched!Init
      BY Zenon
      DEF Second!App!Init, Watched!Init
  <2> QED BY <2>1, <2>2
<1>2. scenario = "watched" /\ [MCNext]_mcVars => [Second!App!Next]_Second!App!vars
  <2>1. scenario = "watched" /\ [MCNext]_mcVars => Watched!Next \/ UNCHANGED appVars
      BY OnePartMoves
  <2>2. Second!App!Next <=> Watched!Next
      BY Zenon
      DEF Second!App!exchange, Watched!exchange, Second!App!threads, Watched!threads,
        Second!App!Load, Watched!Load, Second!App!Boot, Watched!Boot,
        Second!App!AfterFailedRead, Watched!AfterFailedRead, Second!App!Goto,
        Watched!Goto, Second!App!ReadPositions, Watched!ReadPositions,
        Second!App!ReadOrders, Watched!ReadOrders, Second!App!Cleanup, Watched!Cleanup,
        Second!App!InstallHandlers, Watched!InstallHandlers, Second!App!FetchOrphans,
        Watched!FetchOrphans, Second!App!OrphansAfter, Watched!OrphansAfter,
        Second!App!ResumeOrphan, Watched!ResumeOrphan, Second!App!ResumeRaises,
        Watched!ResumeRaises, Second!App!ResumeEnds, Watched!ResumeEnds,
        Second!App!StartScheduler, Watched!StartScheduler, Second!App!SubmitEntry,
        Watched!SubmitEntry, Second!App!OrderFills, Watched!OrderFills,
        Second!App!MayReportNothing, Watched!MayReportNothing, Second!App!EntryOver,
        Watched!EntryOver, Second!App!LaunchMonitor, Watched!LaunchMonitor,
        Second!App!NotFilled, Watched!NotFilled, Second!App!PriceAtStop,
        Watched!PriceAtStop, Second!App!EntryEnds, Watched!EntryEnds,
        Second!App!PositionCloses, Watched!PositionCloses, Second!App!MonitorReports,
        Watched!MonitorReports, Second!App!ProcessEnds, Watched!ProcessEnds,
        Second!App!Unhandled, Watched!Unhandled, Second!App!Signal, Watched!Signal,
        Second!App!SignalKills, Watched!SignalKills, Second!App!Crash, Watched!Crash,
        Second!App!MayStop, Watched!MayStop, Second!App!LoopEnds, Watched!LoopEnds,
        Second!App!SaveRisk, Watched!SaveRisk, Second!App!StopStream,
        Watched!StopStream, Second!App!Exit, Watched!Exit, Second!App!MainStep,
        Watched!MainStep, Second!App!Environment, Watched!Environment, Second!App!Next,
        Watched!Next
  <2>3. UNCHANGED appVars <=> UNCHANGED Second!App!vars
      BY DEF appVars, Second!App!exchange, Second!App!threads, Second!App!vars
  <2> QED BY <2>1, <2>2, <2>3
<1>3. [MCNext]_mcVars => ((scenario = "watched")' <=> (scenario = "watched"))
    BY StaysInScenario
<1> QED BY <1>1, <1>2, <1>3, PTL DEF MCSpec, mcVars, Second!App!Spec

LEMMA WatchedHolds ==
    MCSpec =>
      [](scenario = "watched" => Watched!TypeOK /\ Watched!PositionsWatched)
<1>1. Second!App!ApplicationAssumption
    BY ApplicationsAssumption, Zenon
    DEF Second!App!AllFaults, Watched!AllFaults, Second!App!ApplicationAssumption,
      Watched!ApplicationAssumption, Second!App!IsFiniteSet, Watched!IsFiniteSet
<1>2. /\ Second!App!Spec => []Second!App!TypeOK
      /\ Second!App!Spec => []Second!App!PositionsWatched
    BY <1>1, Second!AppTypeCorrect, Second!WatchedTheorem
<1>3. /\ Second!App!TypeOK <=> Watched!TypeOK
      /\ Second!App!PositionsWatched <=> Watched!PositionsWatched
    BY Zenon
    DEF Second!App!TypeOK, Watched!TypeOK, Second!App!PositionsWatched,
      Watched!PositionsWatched
<1>4. [MCNext]_mcVars => ((scenario = "watched")' <=> (scenario = "watched"))
    BY StaysInScenario
<1> QED BY <1>2, <1>3, <1>4, WatchedBehaves, PTL DEF MCSpec, mcVars

(* The scenario stops: a behaviour of BotApplication, and what its theorems say of it. *)
LEMMA StopsBehaves == MCSpec => (scenario = "stops" => Third!App!Spec)
<1>1. MCInit /\ scenario = "stops" => Third!App!Init
  <2>1. MCInit /\ scenario = "stops" => Stops!Init
      BY DEF MCInit, Watched!Init, Stops!Init
  <2>2. Third!App!Init <=> Stops!Init
      BY Zenon
      DEF Third!App!Init, Stops!Init
  <2> QED BY <2>1, <2>2
<1>2. scenario = "stops" /\ [MCNext]_mcVars => [Third!App!Next]_Third!App!vars
  <2>1. scenario = "stops" /\ [MCNext]_mcVars => Stops!Next \/ UNCHANGED appVars
      BY OnePartMoves
  <2>2. Third!App!Next <=> Stops!Next
      BY Zenon
      DEF Third!App!exchange, Stops!exchange, Third!App!threads, Stops!threads,
        Third!App!Load, Stops!Load, Third!App!Boot, Stops!Boot,
        Third!App!AfterFailedRead, Stops!AfterFailedRead, Third!App!Goto, Stops!Goto,
        Third!App!ReadPositions, Stops!ReadPositions, Third!App!ReadOrders,
        Stops!ReadOrders, Third!App!Cleanup, Stops!Cleanup, Third!App!InstallHandlers,
        Stops!InstallHandlers, Third!App!FetchOrphans, Stops!FetchOrphans,
        Third!App!OrphansAfter, Stops!OrphansAfter, Third!App!ResumeOrphan,
        Stops!ResumeOrphan, Third!App!ResumeRaises, Stops!ResumeRaises,
        Third!App!ResumeEnds, Stops!ResumeEnds, Third!App!StartScheduler,
        Stops!StartScheduler, Third!App!SubmitEntry, Stops!SubmitEntry,
        Third!App!OrderFills, Stops!OrderFills, Third!App!MayReportNothing,
        Stops!MayReportNothing, Third!App!EntryOver, Stops!EntryOver,
        Third!App!LaunchMonitor, Stops!LaunchMonitor, Third!App!NotFilled,
        Stops!NotFilled, Third!App!PriceAtStop, Stops!PriceAtStop, Third!App!EntryEnds,
        Stops!EntryEnds, Third!App!PositionCloses, Stops!PositionCloses,
        Third!App!MonitorReports, Stops!MonitorReports, Third!App!ProcessEnds,
        Stops!ProcessEnds, Third!App!Unhandled, Stops!Unhandled, Third!App!Signal,
        Stops!Signal, Third!App!SignalKills, Stops!SignalKills, Third!App!Crash,
        Stops!Crash, Third!App!MayStop, Stops!MayStop, Third!App!LoopEnds,
        Stops!LoopEnds, Third!App!SaveRisk, Stops!SaveRisk, Third!App!StopStream,
        Stops!StopStream, Third!App!Exit, Stops!Exit, Third!App!MainStep,
        Stops!MainStep, Third!App!Environment, Stops!Environment, Third!App!Next,
        Stops!Next
  <2>3. UNCHANGED appVars <=> UNCHANGED Third!App!vars
      BY DEF appVars, Third!App!exchange, Third!App!threads, Third!App!vars
  <2> QED BY <2>1, <2>2, <2>3
<1>3. [MCNext]_mcVars => ((scenario = "stops")' <=> (scenario = "stops"))
    BY StaysInScenario
<1> QED BY <1>1, <1>2, <1>3, PTL DEF MCSpec, mcVars, Third!App!Spec

LEMMA StopsHolds ==
    MCSpec =>
      [](scenario = "stops" => Stops!TypeOK)
<1>1. Third!App!ApplicationAssumption
    BY ApplicationsAssumption, Zenon
    DEF Third!App!AllFaults, Stops!AllFaults, Third!App!ApplicationAssumption,
      Stops!ApplicationAssumption, Third!App!IsFiniteSet, Stops!IsFiniteSet
<1>2. /\ Third!App!Spec => []Third!App!TypeOK
    BY <1>1, Third!AppTypeCorrect
<1>3. /\ Third!App!TypeOK <=> Stops!TypeOK
    BY Zenon
    DEF Third!App!TypeOK, Stops!TypeOK
<1>4. [MCNext]_mcVars => ((scenario = "stops")' <=> (scenario = "stops"))
    BY StaysInScenario
<1> QED BY <1>2, <1>3, <1>4, StopsBehaves, PTL DEF MCSpec, mcVars

-----------------------------------------------------------------------------
(* What TLC checks.                                                        *)

(* The part that moves stays within its types in every scenario: among others no
   executor has a leverage above the settings' (execution.py:229-254), no setting
   leaves its bounds (config.py:155-200), and what replaces the state file is a whole
   snapshot (persistence.py:15-21). *)
THEOREM PartsTypeCorrect == MCSpec => []TypeOKMC
<1> DEFINE StartKept ==
         /\ scenario = "settings" => Reading!TypeOK
         /\ scenario = "universe" => Asking!TypeOK
         /\ scenario = "setup" => TypeOK
         /\ scenario = "calls" => Calls!TypeOK
<1> DEFINE OrderKept ==
         /\ scenario = "fallback" => Fallback!TypeOK
         /\ scenario = "lossy" => Lossy!TypeOK
         /\ scenario = "limit" => LimitStyle!TypeOK
         /\ scenario = "scaling" => Scaling!TypeOK
         /\ scenario = "faulty" => Faulty!TypeOK
<1> DEFINE AppKept ==
         /\ scenario = "crash" => Crashing!TypeOK
         /\ scenario = "edited" => Edited!TypeOK
         /\ scenario = "restart" => Restarts!TypeOK
         /\ scenario = "watched" => Watched!TypeOK
         /\ scenario = "stops" => Stops!TypeOK
<1>1. MCSpec => []StartKept
    BY SettingsHolds, UniverseHolds, SetupHolds, CallsHolds, PTL
<1>2. MCSpec => []OrderKept
    BY FallbackHolds, LossyHolds, LimitHolds, ScalingHolds, FaultyHolds, PTL
<1>3. MCSpec => []AppKept
    BY CrashHolds, EditedHolds, RestartHolds, WatchedHolds, StopsHolds, PTL
<1>4. StartKept /\ OrderKept /\ AppKept => TypeOKMC
    BY DEF TypeOKMC
<1> HIDE DEF StartKept, OrderKept, AppKept
<1> QED BY <1>1, <1>2, <1>3, <1>4, PTL

(* A start reads its settings coherently from every file of two lines, and scans
   what it was asked to for every request (config.py:128-144, 376-378,
   services/bootstrap_service.py:138-195). *)
THEOREM StartupHonestTheorem == MCSpec => []StartupHonestMC
BY SettingsHolds, UniverseHolds, PTL DEF StartupHonestMC

(* An executor has the leverage of its symbol at the exchange, with lost answers and
   without, and where the registry stands still (execution.py:229-254,
   services/bootstrap_service.py:285-310). *)
THEOREM LeverageAgreesTheorem == MCSpec => []LeverageAgrees
<1> DEFINE Still == scenario \notin {"setup", "calls"}
<1>1. MCInit /\ Still => LeverageAgrees
    BY DEF MCInit, Init, LeverageAgrees
<1>2. Still /\ LeverageAgrees /\ [MCNext]_mcVars => LeverageAgrees'
    BY OnePartMoves DEF LeverageAgrees, vars, registry, account
<1>3. [MCNext]_mcVars => (Still' <=> Still)
    BY DEF MCNext, mcVars
<1>4. ~Still => scenario = "setup" \/ scenario = "calls"
    OBVIOUS
<1>5. Calls!LeverageAgrees <=> LeverageAgrees
    BY DEF Calls!LeverageAgrees, LeverageAgrees
<1> QED BY <1>1, <1>2, <1>3, <1>4, <1>5, SetupHolds, CallsHolds, PTL DEF MCSpec, mcVars

(* No entry is reported larger than what is held in both styles, whatever is lost;
   without lost answers nothing is left resting, and the report lacks at most what
   filled unseen (execution.py:310-345, services/entry_service.py:699). *)
THEOREM ReportIsHeldTheorem == MCSpec => []ReportIsHeldMC
BY FallbackHolds, LossyHolds, LimitHolds, PTL DEF ReportIsHeldMC

(* A scaled position is covered whole when no answer is lost, whatever is refused
   (monitor_scaling.py:162-236, execution.py:648-680). *)
THEOREM ScaledCoveredTheorem == MCSpec => []ScaledPositionCovered
BY ScalingHolds, PTL DEF ScaledPositionCovered

(* A save that returned survives crashes and saves that fail (persistence.py:15-21,
   risk.py:141-185). *)
THEOREM SavedSurvivesTheorem == MCSpec => []SavedSurvives
BY CrashHolds, PTL DEF SavedSurvives

(* With market fallback, when the requests of the entries and of the orphan recovery
   succeed and no fill equals its stop, every position has a monitor or belongs to
   the entry that opened it once the scheduler runs
   (services/position_service.py:160-204, services/entry_service.py:745-774). *)
THEOREM PositionsWatchedTheorem == MCSpec => []PositionsWatched
BY WatchedHolds, PTL DEF PositionsWatched

(* In every scenario of the application a startup never takes the TP and SL of an
   open position away (services/position_service.py:68-84). *)
THEOREM ProtectionKeptTheorem == MCSpec => ProtectionKept
<1>1. MCSpec => [][scenario = "restart" => Restarts!KeepsProtection]_appVars
  <2>1. First!App!ApplicationAssumption
      BY ApplicationsAssumption, Zenon
      DEF First!App!AllFaults, Restarts!AllFaults, First!App!ApplicationAssumption,
        Restarts!ApplicationAssumption, First!App!IsFiniteSet, Restarts!IsFiniteSet
  <2>2. First!App!Spec => First!App!ProtectionKept
      BY <2>1, First!ProtectionTheorem
  <2>3. First!App!KeepsProtection => Restarts!KeepsProtection
      BY DEF First!App!KeepsProtection, Restarts!KeepsProtection
  <2>4. UNCHANGED First!App!vars <=> UNCHANGED appVars
      BY DEF appVars, First!App!exchange, First!App!threads, First!App!vars
  <2>5. [MCNext]_mcVars => ((scenario = "restart")' <=> (scenario = "restart"))
      BY StaysInScenario
  <2> QED
      BY <2>2, <2>3, <2>4, <2>5, RestartBehaves, PTL
      DEF MCSpec, mcVars, First!App!ProtectionKept
<1>2. MCSpec => [][scenario = "watched" => Restarts!KeepsProtection]_appVars
  <2>1. Second!App!ApplicationAssumption
      BY ApplicationsAssumption, Zenon
      DEF Second!App!AllFaults, Watched!AllFaults, Second!App!ApplicationAssumption,
        Watched!ApplicationAssumption, Second!App!IsFiniteSet, Watched!IsFiniteSet
  <2>2. Second!App!Spec => Second!App!ProtectionKept
      BY <2>1, Second!ProtectionTheorem
  <2>3. Second!App!KeepsProtection => Restarts!KeepsProtection
      BY DEF Second!App!KeepsProtection, Restarts!KeepsProtection
  <2>4. UNCHANGED Second!App!vars <=> UNCHANGED appVars
      BY DEF appVars, Second!App!exchange, Second!App!threads, Second!App!vars
  <2>5. [MCNext]_mcVars => ((scenario = "watched")' <=> (scenario = "watched"))
      BY StaysInScenario
  <2> QED
      BY <2>2, <2>3, <2>4, <2>5, WatchedBehaves, PTL
      DEF MCSpec, mcVars, Second!App!ProtectionKept
<1>3. MCSpec => [][scenario = "stops" => Restarts!KeepsProtection]_appVars
  <2>1. Third!App!ApplicationAssumption
      BY ApplicationsAssumption, Zenon
      DEF Third!App!AllFaults, Stops!AllFaults, Third!App!ApplicationAssumption,
        Stops!ApplicationAssumption, Third!App!IsFiniteSet, Stops!IsFiniteSet
  <2>2. Third!App!Spec => Third!App!ProtectionKept
      BY <2>1, Third!ProtectionTheorem
  <2>3. Third!App!KeepsProtection => Restarts!KeepsProtection
      BY DEF Third!App!KeepsProtection, Restarts!KeepsProtection
  <2>4. UNCHANGED Third!App!vars <=> UNCHANGED appVars
      BY DEF appVars, Third!App!exchange, Third!App!threads, Third!App!vars
  <2>5. [MCNext]_mcVars => ((scenario = "stops")' <=> (scenario = "stops"))
      BY StaysInScenario
  <2> QED
      BY <2>2, <2>3, <2>4, <2>5, StopsBehaves, PTL
      DEF MCSpec, mcVars, Third!App!ProtectionKept
<1>4. scenario \in Applications =>
        scenario = "restart" \/ scenario = "watched" \/ scenario = "stops"
    BY DEF Applications
<1> QED BY <1>1, <1>2, <1>3, <1>4, PTL DEF ProtectionKept
=============================================================================
