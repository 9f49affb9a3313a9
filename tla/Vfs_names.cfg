CONSTANTS
    p = p
    q = q
    A = A
    F = F
    R = R
    None = none
    Procs <- TwoProcs
    Names <- SmallNames
    Paths <- SmallPaths
    Devs <- OneDev
    Disk <- SmallDisk
    RootObj = R
    FileObjs = {F}
    MaxEntries = 4
SPECIFICATION Spec
SYMMETRY Symmetry
INVARIANTS TypeOK CachedOnce
PROPERTIES NameSpaceSpec
