SPECIFICATION Spec
CONSTANTS
    BatFiles <- Bats
    Length <- Lengths
    TextOf <- Text
    Marks <- Programs
    Vendor <- NoVendorEntries
    MaxGroups = 2
    Behind <- BehindFree
    MaxRuns = 2
    EditRuns = {1}
INVARIANT LinesKept
CHECK_DEADLOCK FALSE
