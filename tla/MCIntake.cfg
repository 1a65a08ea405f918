SPECIFICATION Spec
CONSTANTS
    Top = "top"
    Walk <- MCWalk
    Parent <- MCParent
    Below <- MCBelow
    Looks <- MCLooks
    Batch = 2
    MaxInt = 7
    Ids = {"7", "8", "9"}
    NoId = "noid"
    BadId = "badid"
    Titles = {"x", "y", "z"}
    NoPlace = "noplace"
    Stray = "stray"
    Replies <- MCReplies
    Rank <- MCRank
    Slugs = {"s"}
    NoSlug = "noslug"
    Groups = {"g"}
    NoGroup = "nogroup"
    Absent = "absent"
    BadGroup = "badgroup"
    NoteSheets <- MCNoteSheets
    Echoes <- MCEchoes
INVARIANTS
    FoundExactly
    EveryVideoOnce
    RightlyAccepted
    RequestsAsNoted
    LocalTextComplete
    OrganisedAsTold
PROPERTIES
    IntakeEnds
CHECK_DEADLOCK FALSE
