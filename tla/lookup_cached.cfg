\* A lookup may find the inode of the name still in memory.
SPECIFICATION Spec
CONSTANTS
    LongSlots <- MCLongSlots
    Base <- MCBase
    Per = 2
    Volumes <- MCVolumes
    ClusterSlots = 4
    LooksUpCached = TRUE
    UndoRaces = FALSE
    Places <- MCPlaces
    MaxObj = 4
    MaxCalls = 2
    MaxFails = 1
    MaxDrops = 1
INVARIANT LookupAnswers
