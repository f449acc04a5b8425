---------------------------- MODULE MCStopHook ----------------------------
(***************************************************************************)
(* A repository of four commits:                                           *)
(*                                                                         *)
(*     c0 --- c1 --- c2     the line of work; c0 is the fork point         *)
(*        \-- c1a           c1 with its message amended: c1's tree         *)
(*                                                                         *)
(* Every way HEAD can move is a pair of these: c0 to c1 (a commit), c0 to  *)
(* c2 (two commits in a turn), c1 to c1a (an amend that keeps the tree), c2*)
(* to c1a (a switch to a branch without the anchor), c2 to c0 (a reset).   *)
(***************************************************************************)
EXTENDS StopHook, TLC

CONSTANTS c0, c1, c1a, c2, h1, h2, s1, s2

MCCommits == {c0, c1, c1a, c2}
MCTrees == {"t0", "t1", "t2"}
MCTree == (c0 :> "t0") @@ (c1 :> "t1") @@ (c1a :> "t1") @@ (c2 :> "t2")
MCAncestors ==
    (c0 :> {c0}) @@ (c1 :> {c0, c1}) @@ (c1a :> {c0, c1a}) @@ (c2 :> {c0, c1, c2})
MCMergeBase == [c \in MCCommits |-> IF c = c0 THEN None ELSE c0]

\* One of them where only the wake marker matters.
Solo == {c0}
SoloTrees == {"t0"}
SoloTree == [c \in Solo |-> MCTree[c]]
SoloAncestors == [c \in Solo |-> MCAncestors[c]]
SoloMergeBase == [c \in Solo |-> None]

\* Two of them where hooks interleave.
Pair == {c0, c1}
PairTrees == {"t0", "t1"}
PairTree == [c \in Pair |-> MCTree[c]]
PairAncestors == [c \in Pair |-> MCAncestors[c]]
PairMergeBase == [c \in Pair |-> MCMergeBase[c]]

OneSession == h1 :> s1
SameSession == (h1 :> s1) @@ (h2 :> s1)
TwoSessions == (h1 :> s1) @@ (h2 :> s2)

\* With both hooks in one session they are interchangeable.
SwapHooks == {(h1 :> h2) @@ (h2 :> h1)}

\* Swapping the two hooks and their sessions together changes nothing.
Swap == {(h1 :> h2) @@ (h2 :> h1) @@ (s1 :> s2) @@ (s2 :> s1)}
=============================================================================
