CONSTANTS
    init = init
    p1 = p1
    p2 = p2
    Slots <- SmallSlots
    Root = init
    Frames = {1, 2, 3, 4, 5, 6, 7, 8, 9, 10, 11, 12, 13, 14}
    Idx = {0, 1}
    StackIdx = 1
    Programs <- SmallPrograms
    Residue <- SmallResidue
    CountBound = 3
    Turns = 4
SPECIFICATION Spec
CHECK_DEADLOCK FALSE
INVARIANT ChildIsCopy
