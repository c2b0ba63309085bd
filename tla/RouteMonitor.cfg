SPECIFICATION RMFairSpec
CONSTANTS
    Interfaces = 3
    Changing = {1}
    Names = {en0, en1, lo, tun}
    FirstName <- Three
    Allowed = {en0, en1, lo}
    Multicast = {1, 3}
    Addrs = {v4, v6, l4, x4}
    IndexOf <- Owner
    MaxQueue = 2
    BufferSize = 4
    Gone = Gone
    Absent = Absent
    Null = Null
    v4 = v4
    v6 = v6
    l4 = l4
    x4 = x4
    en0 = en0
    en1 = en1
    lo = lo
    tun = tun
CHECK_DEADLOCK FALSE
INVARIANTS TableMissesNone TableLeavesNoGhosts ServedOnItsInterface
PROPERTIES LoadEnds
