SPECIFICATION Spec
CONSTANTS
    MaxRuns = 3
    MaxCrashes = 1
    Full = FALSE
PROPERTY StartsWhole
