\* A write-back may meet the error path of a rename.
SPECIFICATION Spec
CONSTANTS
    LongSlots <- MCLongSlots
    Base <- MCBase
    Per = 2
    Volumes <- MCVolumes
    ClusterSlots = 4
    LooksUpCached = FALSE
    UndoRaces = TRUE
    Places <- MCPlaces
    MaxObj = 4
    MaxCalls = 2
    MaxFails = 1
    MaxDrops = 1
INVARIANT DiskKeepsNames
