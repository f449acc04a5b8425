--------------------------- MODULE MCStopMarker ---------------------------
(***************************************************************************)
(* Two hook processes and one request to the daemon, two turns: two        *)
(* deliveries of a turn, with a late one of the turn before among them.    *)
(***************************************************************************)
EXTENDS StopMarker, TLC

CONSTANTS d1, d2, r1
=============================================================================
