\* Two threads, a file and a directory; five clusters, of which at most one is free.
SPECIFICATION Spec
CONSTANTS
    t1 = t1
    t2 = t2
    A = A
    D = D
    Threads = {t1, t2}
    Files = {A, D}
    Dirs = {D}
    None = None
    Volumes <- MCVolumes
    s_blocksize = 4
    max_cluster = 7
    FAT_MAX_CACHE = 2
    MAX_BUF_PER_PAGE = 2
    FailKinds = {"alloc_read", "alloc_mirror", "cache_alloc", "walk_read", "free_read", "free_mirror", "cut_mirror", "sync_inode", "copy"}
    MaxCalls = 3
    MaxFails = 1
INVARIANTS
    TypeOK
    ChainsSound
    NoClusterLost
    FreeCountExact
    MirrorCurrent
    CacheCoherent
    MapsRightCluster
SYMMETRY ThreadSym
