CONSTANTS
    init = init
    p1 = p1
    p2 = p2
    Procs <- SmallProcs
    Init0 = init
    Devices <- TwoDevices
    MaxNest = 4
SPECIFICATION Spec
SYMMETRY Symmetry
INVARIANTS NestCounted FramesInPlace ParkedAlone WindowsKnown
