\* A call of the breakeven replacement fails.
SPECIFICATION Spec
CONSTANTS
    Algo = FALSE
    Orphan = FALSE
    MayHold = FALSE
    StaleList = FALSE
    Restless = FALSE
    MaxFaults = 1
    MaxPairs = 4
    MaxAttempts = 2
INVARIANTS DeathLeavesStop
\* A monitor that has ended does nothing any more.
CHECK_DEADLOCK FALSE
