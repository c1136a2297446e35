\* Executors, entry orders, the state file and restarts.
SPECIFICATION MCSpec
CONSTANTS
    s1 = s1
    s2 = s2
    s3 = s3
    NoThread = NoThread
    NoSymbol = NoSymbol
    Symbols = {s1, s2}
    Leverage = 12
    RiskLots = 12
    Threads = {t1, t2}
    Limits = {0, 1, 11, 20}
    Faults = {"margin", "leverage", "lost", "metadata"}
    MaxCalls = 3
INVARIANTS TypeOKMC StartupHonestMC LeverageAgrees ReportIsHeldMC ScaledPositionCovered SavedSurvives PositionsWatched
PROPERTIES EntryCallsEndMC ProtectionKept StopsOnSignal
CHECK_DEADLOCK FALSE
