\* The order fills between the last poll and the cancellation.
SPECIFICATION Spec
CONSTANTS
    Qty = 4
    LimitOnly = FALSE
    Faults = {}
    MaxPolls = 2
INVARIANTS NoOverfill
CHECK_DEADLOCK FALSE
