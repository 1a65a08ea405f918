SPECIFICATION FairSpec
CONSTANTS
    Order <- MCOrder
    Serves <- MCServes
    Requests <- MCRequests
    Works = {"a", "b", "c"}
    Slug = "slug"
    NoSource = "none"
    NoWork = "nothing"
    MaxDecisionCandidates = 2
    MaxRuns = 2
INVARIANTS
    NamedSourceKept
    EarlierSourcesFailed
    OnlyConfirmedWorks
    CacheHoldsVerifiedFacts
PROPERTIES
    ResolveReturns
    ImplementsChoice
CHECK_DEADLOCK FALSE
