\* Two threads, two blocks of two bytes.
SPECIFICATION Spec
CONSTANTS
    t1 = t1
    t2 = t2
    Threads = {t1, t2}
    Flusher = Flusher
    None = None
    Absent = Absent
    Ids <- MCIds
    NbXinfo = 2
    Ino = 1
    BlockSize = 2
    NbBlocks = 2
    FreshBytes = {2}
    MaxCalls = 3
    MaxFails = 1
    MaxCrashes = 1
    MaxUnsynced = 2
INVARIANTS
    TypeOK
    FileCurrent
    NoDataBehindEnd
    NoDeadlock
SYMMETRY ThreadSym
PROPERTY FsyncDurable
CHECK_DEADLOCK FALSE
