------------------------------ MODULE MCPidFile ------------------------------
(* Two daemons on a file system with three inodes.                           *)
EXTENDS PidFile
==============================================================================
