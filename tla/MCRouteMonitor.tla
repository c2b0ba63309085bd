--------------------------- MODULE MCRouteMonitor ---------------------------
(* A network interface with two addresses, the loop-back and one interface   *)
(* that the options do not select.                                           *)
EXTENDS RouteMonitor

CONSTANTS v4, v6, l4, x4, en0, en1, lo, tun

Three == <<en0, lo, tun>>
Owner == [a \in Addrs |-> CASE a = l4 -> 2 [] a = x4 -> 3 [] OTHER -> 1]
=============================================================================
