----------------------------- MODULE ReviewUnit -----------------------------
(***************************************************************************)
(* The decision "has a unit of work closed since the last review?"         *)
(* (router/review-unit.ts) over the facts git answers (router/git-facts.ts).*)
(*                                                                         *)
(* A git repository is a fixed set of commits: the tree each one points at, *)
(* its ancestors (itself included) and the fork point from the default      *)
(* branch.  Which commit HEAD names and what the anchor file says are state,*)
(* and belong to the module that EXTENDS this one.                         *)
(***************************************************************************)
CONSTANTS
    Commits,     \* every commit object the repository may hold
    Trees,       \* the contents a commit can have
    Tree,        \* Tree[c]: the tree object of commit c
    Ancestors,   \* Ancestors[c]: c and every commit reachable from it
    MergeBase,   \* MergeBase[c]: merge-base of the default branch and c, or None
                 \* when c is on the default branch or nothing was resolved
    Unit,        \* the configured review unit, "commit" or "pr"
    None         \* "absent" (undefined, a missing file)

ASSUME GitAssumption ==
    /\ Tree \in [Commits -> Trees]
    /\ Ancestors \in [Commits -> SUBSET Commits]
    /\ \A c \in Commits : c \in Ancestors[c]
    /\ MergeBase \in [Commits -> Commits \cup {None}]
    /\ Unit \in {"commit", "pr"}

ASSUME NoneAssumption ==
    /\ None \notin Commits
    /\ None \notin Trees
    /\ None \notin [head : Commits, tree : Trees \cup {None}]
    /\ None \notin [from : Commits, to : Commits]

\* The anchor file: the HEAD consumed last and its tree.  An anchor written
\* before trees were stored has none, and a missing or corrupt file is None.
Anchor == [head : Commits, tree : Trees \cup {None}]

\* `<from>..<to>`, what the reviewer is shown.
RevisionRange == [from : Commits, to : Commits]

-----------------------------------------------------------------------------
(***************************************************************************)
(* What git and the anchor file answer for HEAD = `head`, HEAD^{tree} =    *)
(* `tree` (two git calls, so the two need not belong together) and a       *)
(* stored anchor.  The anchor's commit may have vanished at any time       *)
(* (rebase, force-push, fresh clone).  A call that fails or times out      *)
(* leaves its fact absent: an anchor that cannot be verified counts as     *)
(* vanished, undecided ancestry as "is an ancestor", no merge base as      *)
(* "no branch to diff".  The merge base is asked of the HEAD of that moment.*)
(***************************************************************************)
Facts(head, tree, stored) ==
    [head : {head}, tree : {tree}, stored : {stored},
     vanished : IF stored = None THEN {FALSE} ELSE BOOLEAN,
     notAncestor : IF stored = None THEN {FALSE}
                   ELSE {stored.head \notin Ancestors[head]} \cup {FALSE},
     mergeBase : IF Unit = "pr" THEN {MergeBase[c] : c \in Commits} \cup {None}
                 ELSE {None}]

(* A decision.  `range` and `to` (advanceAnchorTo) are None where the code *)
(* leaves the field undefined.                                             *)
Decision ==
    [fire : BOOLEAN,
     reason : {"not_a_git_repo", "anchor_unusable", "no_new_commit",
               "tree_unchanged", "branch_grew", "new_commit",
               "pr_fallback_to_commit"},
     range : RevisionRange \cup {None},
     to : Anchor \cup {None}]

Skip(reason, to) ==
    [fire |-> FALSE, reason |-> reason, range |-> None, to |-> to]

Fire(reason, range, to) ==
    [fire |-> TRUE, reason |-> reason, range |-> range, to |-> to]

\* No cwd, not a repository, or rev-parse failed: nothing is known or moves.
NotARepo == Skip("not_a_git_repo", None)

\* Mutant: history that moved aside is taken for "nothing new".
DecideNewerOnly(f) ==
    IF f.stored # None /\ f.notAncestor
    THEN Skip("no_new_commit", None)
    ELSE Fire("new_commit", None, [head |-> f.head, tree |-> f.tree])

\* decideReviewUnit, rule by rule in the order of the code.
Decide(f) ==
    LET here == [head |-> f.head, tree |-> f.tree] IN
    IF f.stored = None \/ f.vanished
        THEN Fire("anchor_unusable", None, here)
    ELSE IF f.head = f.stored.head
        THEN Skip("no_new_commit", None)
    ELSE IF f.tree = f.stored.tree
        THEN Skip("tree_unchanged", here)
    ELSE IF f.mergeBase # None
        THEN Fire("branch_grew", [from |-> f.mergeBase, to |-> f.head], here)
    ELSE IF f.notAncestor
        THEN Fire("anchor_unusable", None, here)
    ELSE Fire(IF Unit = "pr" THEN "pr_fallback_to_commit" ELSE "new_commit",
              [from |-> f.stored.head, to |-> f.head], here)
=============================================================================
