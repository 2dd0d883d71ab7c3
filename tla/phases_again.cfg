SPECIFICATION Spec
CONSTANTS
    MaxRuns = 1
    MaxCrashes = 1
    Full = FALSE
INVARIANT PremaximRestores
