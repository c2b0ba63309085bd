SPECIFICATION FairSpec
CONSTANTS
    Procs = {p1, p2}
    Paths = {f1, f2}
    Inodes = {i1, i2, i3}
    NoProc = NoProc
    NoPath = NoPath
    NoInode = NoInode
    MaxReloads = 2
INVARIANTS OneOwner FileNamesOwner OrphanKeepsOthersOut
PROPERTIES OpenDecides ImplementsPidLock
CHECK_DEADLOCK FALSE
