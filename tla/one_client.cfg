SPECIFICATION Spec
CONSTANTS
    Frames <- Frames5
    MinLow = 2
    MinHigh = 2
    MaxLocks = 1
    NoPage = NoPage
    BSInit = 1
    BSMax = 3
    DWord = 1
    CacheLen = 2
    NoEntry = NoEntry
    Junk = Junk
    Clients = {c1}
    SharedOwner = SharedOwner
    PrivateVA = {0, 1, 2}
    SharedVA = {}
    NoClient = NoClient
    NoFrame = NoFrame
    NoTable = NoTable
    UncommittedPDE = UncommittedPDE
    Values = {}
    Zero = Zero
    ZeroDemand = FALSE
    ReadsFresh = FALSE
    Calls <- MostCalls
    MaxRegion = 2
    MaxDrain = 1
INVARIANTS
    TypeOK
    
    CountersExact
    LocksMatch
    CommitCovered
PROPERTIES
    LockedFixed
