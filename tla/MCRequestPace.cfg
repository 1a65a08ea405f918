SPECIFICATION PaceSpec
CONSTANTS
    Requests = {r1, r2, r3}
    Interval = 2
    MaxVia = 2
    MaxTime = 5
    NoSlot = NoSlot
INVARIANTS
    AttemptsPaced
CHECK_DEADLOCK FALSE
