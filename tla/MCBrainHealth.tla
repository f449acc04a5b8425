--------------------------- MODULE MCBrainHealth ---------------------------
(***************************************************************************)
(* Two processes, which are interchangeable, and one role: the counts of   *)
(* two roles meet only in a lost write.                                    *)
(***************************************************************************)
EXTENDS BrainHealth, TLC

CONSTANTS p1, p2

Caps == [r \in Roles |-> 2]

\* What is said of the caps and the windows is said up to the first lost write.
BeforeALoss == ~lost

Swap == Permutations(Procs)
=============================================================================
