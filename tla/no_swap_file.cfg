SPECIFICATION Spec
CONSTANTS
    Frames <- Frames4
    MinLow = 2
    MinHigh = 2
    MaxLocks = 1
    NoPage = NoPage
    BSInit = 0
    BSMax = 0
    DWord = 1
    CacheLen = 1
    NoEntry = NoEntry
    Junk = Junk
    Clients = {c1, c2}
    SharedOwner = SharedOwner
    PrivateVA = {0, 1}
    SharedVA = {2}
    NoClient = NoClient
    NoFrame = NoFrame
    NoTable = NoTable
    UncommittedPDE = UncommittedPDE
    Values = {w1}
    Zero = Zero
    ZeroDemand = TRUE
    ReadsFresh = TRUE
    Calls <- UncommittedCalls
    MaxRegion = 2
    MaxDrain = 0
INVARIANTS
    FrameIsolation
    
PROPERTIES
    ContentsKept
