\* The constants are those of the scenario live; MCEntryService has the others.
SPECIFICATION MCSpec
CONSTANTS
    a = a
    b = b
    c = c
    main = main
    ctx = ctx
    Symbols = {a, b, c}
    Intervals = {main}
    CallbackOrder <- OnlyMain
    MainInterval = main
    SignalLists <- Forked
    NoSymbol = nosymbol
    Sched = sched
    Followups = {f1}
    NoThread = none
    MaxPositions = 2
    Paper = FALSE
    LimitOnly = FALSE
    Faults = {}
    MaxPolls = 2
    MaxReporting = 1
INVARIANTS MaxPositionsHeld LockInv EveryPositionMonitoredMC
PROPERTIES SameCandleEnteredOnceMC ImplementsAccountLimit
