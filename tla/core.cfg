SPECIFICATION Spec
CONSTANTS
    LogFstLnum = 1
    LebCnt = 9
    LebSize = 40
    MinIoSize = 8
    ObjPadding = 2
    ChSz = 4
    SumSz = 5
    SumEntrySz = 3
    SumOffsSz = 1
    MaxObjPerTrans = 8
    NbReservedGc = 1
    NbReservedDel = 2
    NbXinfo = 2
    U32 = 1024
    U16 = 64
    Ids <- MCIds
    RootTxn <- RootWrite
    Txns <- CoreTxns
    no_summary = FALSE
    MaxFails = 0
    MayTear = TRUE
    MaxTxns = 3
    MaxCrashes = 1
    MaxUnmounts = 1
INVARIANT TypeOK
INVARIANT FsmAccounting
INVARIANT FreeLebsErased
INVARIANT WbufMirrorsFlash
INVARIANT NoBugOn
INVARIANT ReadYourWrites
INVARIANT Recovered
INVARIANT SummaryDescribesLeb
PROPERTY SequentialProgramming
PROPERTY ImplementsStoreSpec
