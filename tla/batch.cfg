SPECIFICATION Spec
CONSTANTS
    Files = {"A", "B", "I"}
    InsFile = "I"
    Texts <- AllTexts
    Cmds <- AllCmds
    Op <- OpOf
    Target <- TargetOf
    Body <- BodyOf
    Within <- WithinOf
    Start = "main"
    InsCall = "callIns"
    MaxBatch = 2
    ForItems = 2
    MaxStack = 14
INVARIANTS
    TypeOK
    OneFramePerBatch
    RangesExact
    MarkedStayed
    
PROPERTIES
    EndedIsFinal
    IffNests
    CancelEnds
CHECK_DEADLOCK FALSE
