SPECIFICATION FairSpec
CONSTANTS
    Frames <- Frames4
    MinLow = 2
    MinHigh = 2
    MaxLocks = 1
    NoPage = NoPage
    BSInit = 2
    BSMax = 2
    DWord = 1
    CacheLen = 2
    NoEntry = NoEntry
    Junk = Junk
    Clients = {c1}
    SharedOwner = SharedOwner
    PrivateVA = {0, 1, 2, 3}
    SharedVA = {}
    NoClient = NoClient
    NoFrame = NoFrame
    NoTable = NoTable
    UncommittedPDE = UncommittedPDE
    Values = {w1}
    Zero = Zero
    ZeroDemand = TRUE
    ReadsFresh = TRUE
    Calls <- NoCalls
    MaxRegion = 1
    MaxDrain = 0
PROPERTIES
    ContentsKept
