------------------------------ MODULE MCDaemon ------------------------------
(* The daemon under up to two signals.                                       *)
EXTENDS Daemon
=============================================================================
