SPECIFICATION Spec
CONSTANTS
    Works = {"a", "b", "c", "d"}
    NoWork = "nowork"
    InYear = {"b", "c"}
    Limit = 4
    PageSize = 2
    Shelves <- MCShelves
    Odd <- MCOdd
    MaxTitles = 1
INVARIANTS
    IncompleteRejected
CHECK_DEADLOCK FALSE
