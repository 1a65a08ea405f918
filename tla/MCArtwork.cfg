SPECIFICATION Spec
CONSTANTS
    Paths = {"poster", "fanart"}
    Urls = {"u", "v"}
    NoUrl = "nourl"
    Nothing = "nothing"
    Empty = "empty"
    ItemLists <- MCItemLists
    MaxCalls = 3
INVARIANTS
    TypeOK
    MarkersVouch
    SavedAsSelected
CHECK_DEADLOCK FALSE
