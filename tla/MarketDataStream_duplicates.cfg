\* The first poll after the initial load.
SPECIFICATION Spec
CONSTANTS
    Workers = {w1}
    Readers = {}
    Late = {}
    MaxLen = 6
    MaxGap = 2
    MaxNow = 8
INVARIANTS UniqueOpenTimes
CHECK_DEADLOCK FALSE
