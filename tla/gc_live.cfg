SPECIFICATION Spec
CONSTANTS
    LogFstLnum = 1
    LebCnt = 5
    LebSize = 40
    MinIoSize = 8
    ObjPadding = 2
    ChSz = 4
    SumSz = 5
    SumEntrySz = 3
    SumOffsSz = 1
    MaxObjPerTrans = 8
    NbReservedGc = 1
    NbReservedDel = 2
    NbXinfo = 2
    U32 = 1024
    U16 = 64
    Ids <- MCIds
    RootTxn <- RootWrite
    Txns <- GcTxns
    no_summary = FALSE
    MaxFails = 0
    MayTear = FALSE
    MaxTxns = 6
    MaxCrashes = 0
    MaxUnmounts = 0
INVARIANT GcKeepsLive
