--------------------------- MODULE MCDistilWorker ---------------------------
(***************************************************************************)
(* Two processes at a time, up to four workers in a row, two critiques.     *)
(***************************************************************************)
EXTENDS DistilWorker, TLC

CONSTANTS p1, p2, p3, k1, k2

Swap == Permutations(Procs) \cup Permutations(Critiques)
=============================================================================
