SPECIFICATION HFairSpec
CONSTANTS
    Conns = {c1, c2, c3}
    Addrs = {p1, p2}
    NoAddr = NoAddr
    MaxSameAddr = 2
    MaxDuration = 1
    MaxTime = 3
    MaxAborted = 1
CHECK_DEADLOCK FALSE
INVARIANTS AgeBound SameAddrBound
PROPERTIES HDrains
