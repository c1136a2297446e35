\* A TP that fills between the fill check and the safety check.
SPECIFICATION FairSpec
CONSTANTS
    Algo = FALSE
    Orphan = FALSE
    MayHold = FALSE
    StaleList = FALSE
    Restless = FALSE
    MaxFaults = 0
    MaxPairs = 3
    MaxAttempts = 2
PROPERTIES CloseIsNoticed
\* A monitor that has ended does nothing any more.
CHECK_DEADLOCK FALSE
