SPECIFICATION Spec
CONSTANTS
    Calls = {"c1", "c2"}
    x = x
    y = y
    slugX = slugX
    slugY = slugY
    Shows = {x, y}
    Slugs = {slugX, slugY}
    SlugOf <- MCSlugOf
    Episodes = {"e1", "e2"}
    SeasonOf <- MCSeasonOf
    Ids = {"i", "j"}
    Listings <- TwoSeasons
    Loads <- TwoLoads
    None = None
INVARIANTS
    FetchedOnce
    StoreTrue
    CancelHasCause
    Confirmed
PROPERTIES
    ImplementsAnswers
    CallsEnd
CHECK_DEADLOCK FALSE
