------------------------------ MODULE MCDaemon ------------------------------
(***************************************************************************)
(* Three daemons: one that dies or leaves, and two that come.              *)
(***************************************************************************)
EXTENDS Daemon, TLC

CONSTANTS p1, p2, p3
=============================================================================
