CONSTANTS
    HEAP = 8
    MAX_SIZE = 4
    Requests <- SmallRequests
    Boot <- SomeBoot
SPECIFICATION VMSpec
INVARIANTS BitsAccounted
PROPERTIES ByteHeapSpec
