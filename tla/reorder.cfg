SPECIFICATION Spec
CONSTANTS
    BatFiles <- Bats
    Length <- Lengths
    TextOf <- Text
    Marks <- Programs
    Vendor <- VendorEntries
    MaxGroups = 2
    Behind <- BehindFree
    MaxRuns = 2
    EditRuns = {1}
INVARIANTS
    TypeOK
    WellLinked
    
PROPERTIES
    MovedInOrder
    BoundTogether
    OthersStay
    
CHECK_DEADLOCK FALSE
