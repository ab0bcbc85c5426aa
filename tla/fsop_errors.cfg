\* Three names, two of which collide; two new inodes.
SPECIFICATION Spec
CONSTANTS
    n1 = n1
    n2 = n2
    n3 = n3
    Names = {n1, n2, n3}
    Short = FALSE
    Hash <- MCHash
    Nlen <- MCNlen
    Ids <- MCIds
    NbXinfo = 2
    Absent = Absent
    Torn = Torn
    DentrySz = 2
    MaxDentarrEntries = 3
    RootIno = 1
    LastInum = 4
    InodeSz = 4
    BufEntries = 2
    MayReuse = FALSE
    Calls = {"create", "mkdir", "symlink", "link", "unlink", "rmdir", "rename", "setattr", "write", "readdir"}
    MaxOps = 3
    MaxFails = 1
    MaxCrashes = 0
    MaxUnsynced = 1
SYMMETRY Colliding
INVARIANTS
    MemoryMatchesStore
    ListingComplete
CHECK_DEADLOCK FALSE
