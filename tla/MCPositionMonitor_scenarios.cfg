\* The constants are those of the scenario entry; MCPositionMonitor has the others.
SPECIFICATION MCSpec
CONSTANTS
    Algo = FALSE
    Orphan = FALSE
    MayHold = TRUE
    StaleList = FALSE
    Restless = TRUE
    MaxFaults = 2
    MaxPairs = 5
    MaxAttempts = 2
INVARIANTS TypeOK ResultIsTrue
PROPERTIES StopNeverLoosened StopRestoredMC CloseIsNoticedMC
\* A monitor that has ended does nothing any more.
CHECK_DEADLOCK FALSE
