SPECIFICATION FairSpec
CONSTANTS
    Order <- MCOrder
    Serves <- MCServes
    Works = {"a", "b"}
    Slug = "slug"
    NoSource = "none"
    NoWork = "nothing"
    Videos = {"first", "movie", "disc"}
    Discs = {"disc"}
    Roots = {"season"}
    Rank <- MCRank
    Under <- MCUnder
    NfoFiles = {"first.nfo", "movie.nfo", "tvshow.nfo", "index.nfo"}
    MovieNfo <- MCMovieNfo
    EntryNfo <- MCEntryNfo
    ShowNfo <- MCShowNfo
    Pictures = "pictures"
    Local = "local"
    PinChoices <- MCPinChoices
    MaxRuns = 2
INVARIANTS
    SuccessIsComplete
    PinsKept
    LocalAfterWebsites
    StopsWhenCancelled
PROPERTIES
    WrittenOnce
    RunEnds
CHECK_DEADLOCK FALSE
