SPECIFICATION SMFairSpec
CONSTANTS
    Servers = {s1, s2}
    MulticastRepeats = 1
    UnicastRepeats = 1
    Ifaces = {eth0, lan0}
    Addrs = {a1}
    Reports <- Renaming
    Absent = Absent
    Null = Null
    NoIface = NoIface
    NoAddr = NoAddr
    eth0 = eth0
    lan0 = lan0
    a1 = a1
INVARIANTS RunningIsMapped DanglingNeedsMove
PROPERTIES StopReturns
