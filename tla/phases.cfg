SPECIFICATION Spec
CONSTANTS
    MaxRuns = 2
    MaxCrashes = 1
    Full = FALSE
INVARIANTS
    TypeOK
    BackedUp
    FinishedIsWhole
PROPERTIES
    
    OverItsPhase
    RunStartsWhole
    ComesBack
