CONSTANTS
    f1 = f1
    f2 = f2
    f3 = f3
    f4 = f4
    f5 = f5
    Frames <- SmallFrames
    PAGE_SIZE = 4
    Sizes <- SmallSizes
    PerPage = 2
    NULL = none
SPECIFICATION Spec
SYMMETRY Symmetry
INVARIANTS FramesAccounted BlocksAccounted KfreeFinds
PROPERTIES HeapSpec
