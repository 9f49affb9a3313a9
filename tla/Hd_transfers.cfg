CONSTANTS
    a = a
    b = b
    Sectors <- TwoSectors
    SECTOR_SIZE = 2
    Data <- SomeData
    Old = old
    Garbage = garbage
    ReadSizes <- SomeReads
    WriteSizes <- SomeWrites
SPECIFICATION Spec
INVARIANTS ReadsRight WritesRight RequestAlive
PROPERTIES WritesInside RequestReturns
