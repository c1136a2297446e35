\* A suspension whose counter nothing resets.
SPECIFICATION MCSpec
CONSTANTS
    Scenarios = {"recovery"}
    Callbacks = {c1, c2}
    Alone = {c1}
    Enabled = TRUE
    Limit <- BothTwice
    MaxIdle = 0
    SuspendSec = 2
    PauseOnOrphan = TRUE
    a1 = a1
    a2 = a2
    a3 = a3
    NoMessage = NoMessage
PROPERTIES SuspensionsEnd
