SPECIFICATION Spec
CONSTANTS
    MaxRuns = 1
    MaxCrashes = 0
    Full = TRUE
INVARIANT BackedUp
