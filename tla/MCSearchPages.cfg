SPECIFICATION Spec
CONSTANTS
    Works = {"a", "b", "c", "d"}
    NoWork = "nowork"
    InYear = {"b", "c"}
    Limit = 3
    PageSize = 2
    Shelves <- MCShelves
    Odd <- MCOdd
    MaxTitles = 2
INVARIANTS
    WholeUnlessRepeated
    Bounded
PROPERTIES
    SearchEnds
CHECK_DEADLOCK FALSE
