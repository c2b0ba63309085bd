------------------------- MODULE MCInterfaceMonitor -------------------------
(* A network interface with an IPv4 and an IPv6 address, and the loop-back.  *)
EXTENDS InterfaceMonitor

CONSTANTS v4, v6, l4, eth0, lan0, lo

WithLoopback == [i \in Indexes |-> IF i = 1 THEN eth0 ELSE lo]
TwoAndOne == [a \in Addrs |-> IF a = l4 THEN 2 ELSE 1]
=============================================================================
