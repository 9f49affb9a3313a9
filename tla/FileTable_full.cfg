CONSTANTS
    init = init
    p1 = p1
    p2 = p2
    i1 = i1
    i2 = i2
    Slots <- SmallSlots
    Root = init
    PROC_FILES_MAX_COUNT = 2
    FILE_DESC_TABLE_MAX_COUNT = 3
    Inodes <- SmallInodes
SPECIFICATION Spec
INVARIANT FullMeansInUse
