SPECIFICATION FairSpec
CONSTANTS
    LogFstLnum = 1
    LebCnt = 5
    LebSize = 24
    MinIoSize = 8
    ObjPadding = 2
    ChSz = 4
    SumSz = 5
    SumEntrySz = 3
    SumOffsSz = 1
    MaxObjPerTrans = 3
    NbReservedGc = 1
    NbReservedDel = 2
    NbXinfo = 2
    U32 = 1024
    U16 = 64
    Ids <- MCIds
    RootTxn <- RootWrite
    Txns <- GcTxns
    no_summary = FALSE
    MaxFails = 1
    MayTear = TRUE
    MaxTxns = 3
    MaxCrashes = 1
    MaxUnmounts = 0
INVARIANT FreeLebsErased
INVARIANT WbufMirrorsFlash
INVARIANT GcCopiesDurable
PROPERTY SequentialProgramming
PROPERTY CallsReturn
