--------------------------- MODULE MCTaskRegistry ---------------------------
(***************************************************************************)
(* A detached run (arch_generate) and one that is not (explain).           *)
(***************************************************************************)
EXTENDS TaskRegistry, TLC

CONSTANTS a1, x1
=============================================================================
