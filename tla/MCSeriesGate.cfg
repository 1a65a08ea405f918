SPECIFICATION Spec
CONSTANTS
    Calls = {"c1", "c2", "c3"}
    Shows = {"show"}
    Episodes = {"e1", "e2"}
    SeasonOf <- MCSeasonOf
    Ids = {"i", "j"}
    Groups = {"g"}
    MainPaths <- MCMainPaths
    Extensions <- MCExtensions
    MaxAppendedPaths = 3
    SeasonPages <- MCSeasonPages
    GroupPages <- MCGroupPages
    Loads <- MCLoads
    Opaque = Opaque
    None = None
INVARIANTS
    AskedOnce
    RecordWhole
    AnswersAgree
PROPERTIES
    ImplementsAnswers
    CallsReturn
CHECK_DEADLOCK FALSE
