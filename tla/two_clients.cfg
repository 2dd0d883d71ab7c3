SPECIFICATION Spec
CONSTANTS
    Frames <- Frames8
    MinLow = 6
    MinHigh = 16
    MaxLocks = 1
    NoPage = NoPage
    BSInit = 2
    BSMax = 2
    DWord = 1
    CacheLen = 1
    NoEntry = NoEntry
    Junk = Junk
    Clients = {c1, c2}
    SharedOwner = SharedOwner
    PrivateVA = {0, 1}
    SharedVA = {2}
    NoClient = NoClient
    NoFrame = NoFrame
    NoTable = NoTable
    UncommittedPDE = UncommittedPDE
    Values = {}
    Zero = Zero
    ZeroDemand = FALSE
    ReadsFresh = FALSE
    Calls <- LockCalls
    MaxRegion = 1
    MaxDrain = 0
INVARIANTS
    FrameIsolation
    SlotIsolation
    
    WorkingSetKept
PROPERTIES
    OthersOnlySwapped
