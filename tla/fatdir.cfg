\* Two directories and a file; a short name and two long ones with one base.
SPECIFICATION Spec
CONSTANTS
    LongSlots <- MCLongSlots
    Base <- MCBase
    Per = 2
    Volumes <- MCVolumes
    ClusterSlots = 4
    LooksUpCached = FALSE
    UndoRaces = FALSE
    Places <- MCPlaces
    MaxObj = 4
    MaxCalls = 2
    MaxFails = 1
    MaxDrops = 1
INVARIANTS
    TypeOK
    NamesMatch
    AliasesUnique
    OneInodePerEntry
    EntryCurrent
    DotdotMatches
    DiskKeepsNames
