------------------------------- MODULE Mutex -------------------------------
(***************************************************************************)
(* What a lock between processes promises: at most one holds it, and the   *)
(* next takes it only when nobody does.                                    *)
(***************************************************************************)
CONSTANT Procs

VARIABLE holders

Free == holders = {}

Init == Free

Enter(p) == Free /\ holders' = {p}
Leave(p) == holders = {p} /\ holders' = {}

Next == \E p \in Procs : Enter(p) \/ Leave(p)

Spec == Init /\ [][Next]_holders
=============================================================================
