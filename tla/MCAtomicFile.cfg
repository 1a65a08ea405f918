SPECIFICATION Spec
CONSTANTS
    Contents = {"x", "y"}
    Nothing = "nothing"
    MaxCalls = 4
INVARIANTS
    OutcomeIsTrue
    OrphansComeFromMishaps
PROPERTIES
    ImplementsRegister
CHECK_DEADLOCK FALSE
