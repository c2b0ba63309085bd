SPECIFICATION IMFairSpec
CONSTANTS
    Indexes = {1, 2}
    Changing = {1}
    Names = {eth0, lan0, lo}
    FirstName <- WithLoopback
    Allowed = {eth0, lan0, lo}
    Multicast = {1}
    Addrs = {v4, v6, l4}
    IndexOf <- TwoAndOne
    V6 = {v6}
    Expiring = {v6}
    MaxQueue = 2
    MaxResizes = 1
    Gone = Gone
    Absent = Absent
    Null = Null
    v4 = v4
    v6 = v6
    l4 = l4
    eth0 = eth0
    lan0 = lan0
    lo = lo
CHECK_DEADLOCK FALSE
INVARIANTS NoMissedAddress GhostsExplained
PROPERTIES Settles
