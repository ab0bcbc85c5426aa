\* Three names, two of which collide; three new inodes.
SPECIFICATION Spec
CONSTANTS
    n1 = n1
    n2 = n2
    n3 = n3
    Names = {n1, n2, n3}
    Short = FALSE
    Hash <- MCHash
    Nlen <- MCNlen
    Ids <- MCIds
    NbXinfo = 2
    Absent = Absent
    Torn = Torn
    DentrySz = 2
    MaxDentarrEntries = 3
    RootIno = 1
    LastInum = 5
    InodeSz = 4
    BufEntries = 0
    MayReuse = FALSE
    Calls = {"create", "mkdir", "link", "unlink", "rmdir", "rename", "write"}
    MaxOps = 4
    MaxFails = 0
    MaxCrashes = 1
    MaxUnsynced = 1
SYMMETRY Colliding
INVARIANTS
    TypeOK
    TreeMatches
    LinkCounts
    NothingLeaks
CHECK_DEADLOCK FALSE
