--------------------------- MODULE MCServerManager ---------------------------
(* An interface is renamed and keeps its address.                            *)
EXTENDS ServerManager

CONSTANTS eth0, lan0, a1

Renaming == {<<eth0, a1>>, <<lan0, a1>>}
=============================================================================
