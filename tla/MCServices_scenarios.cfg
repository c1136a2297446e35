\* The kill switches with one callback, with two and without an end, and the alerts.
SPECIFICATION MCSpec
CONSTANTS
    Scenarios = {"race", "recovery", "endless", "turns", "ends"}
    Callbacks = {c1, c2}
    Alone = {c1}
    Enabled = TRUE
    Limit <- BothTwice
    MaxIdle = 0
    SuspendSec = 2
    PauseOnOrphan = TRUE
    a1 = a1
    a2 = a2
    a3 = a3
    NoMessage = NoMessage
INVARIANTS TypeOK SendsSpaced
PROPERTIES SuspensionServed RecoveryResumesMC SendsEnd
CHECK_DEADLOCK FALSE
