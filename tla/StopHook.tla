------------------------------ MODULE StopHook ------------------------------
(***************************************************************************)
(* The Stop-hook pipeline of one repository (hooks/handle-stop.ts): from   *)
(* the end of an agent turn to a reviewed, consumed unit of work.          *)
(*                                                                         *)
(* Several hook processes run at once (two sessions in one repository, or  *)
(* the daemon working for one session while the next turn ends).  They     *)
(* share three files and take no lock on any: the review anchor, the       *)
(* dedupe hashes and the wake marker.  The user commits, amends, switches  *)
(* branches and resets in between.                                         *)
(*                                                                         *)
(* A hook that stops before it has touched anything (recursion guard,      *)
(* mute, no session) is a stuttering step and has no action here.          *)
(***************************************************************************)
EXTENDS ReviewUnit, Naturals

CONSTANTS
    Hooks,       \* hook processes
    Sessions,    \* agent sessions
    SessionOf,   \* SessionOf[h]: the session whose Stop events h handles
    Contexts,    \* what a signature holds beside the unit: changed files and
                 \* the latest user message
    MaxWakes     \* bound: wake commands the user gives

\* skip-state.json: per session, the hash of a signature.
Signature == [context : Contexts, range : RevisionRange \cup {None}]
SkipState == [Sessions -> Signature \cup {None}]

ASSUME HookAssumption ==
    /\ SessionOf \in [Hooks -> Sessions]
    /\ MaxWakes \in Nat
    /\ None \notin Contexts
    /\ None \notin Signature
    /\ None \notin SkipState

VARIABLES
    head,        \* what HEAD names now
    anchor,      \* <stateBase>/review-anchor.json, or None
    skipState,   \* skip-state.json: the last committed signature per session
    wake,        \* wake.json: "none", "fresh" or "stale"
    stage,       \* where each hook is
    loc,         \* the local variables of each hook
    seen,        \* history: how each content came to be dealt with
    woken,       \* history: wake commands given
    forced       \* history: reviews forced by a wake

files   == <<anchor, skipState, wake>>
history == <<seen, woken, forced>>
vars    == <<head, files, stage, loc, history>>

-----------------------------------------------------------------------------
Stage == {"idle", "unlink", "gates", "tree", "anchor", "skip", "dedupe",
          "review", "consume", "hashRead", "hashWrite"}

\* "read": a completed review ended on it.  "torn": a gate saw it whose two
\* git reads did not belong together.  "blind": a duplicate skip adopted it
\* whose signature named no unit.
Seen == {"no", "read", "torn", "blind"}

\* The history after contents T came to be dealt with in that way.
Mark(T, how) ==
    [t \in Trees |-> IF t \in T /\ (how = "read" \/ seen[t] = "no")
                     THEN how ELSE seen[t]]

Local ==
    [context : Contexts \cup {None},       \* read from the transcript
     saw     : {"none", "fresh", "stale"}, \* the wake file as read
     bypass  : BOOLEAN,                    \* wakeBypass
     head    : Commits \cup {None},        \* rev-parse HEAD
     tree    : Trees \cup {None},          \* rev-parse HEAD^{tree}
     range   : RevisionRange \cup {None},  \* the unit under review
     to      : Anchor \cup {None},         \* what commitAnchor is to write
     dup     : BOOLEAN,                    \* the dedupe gate said "no_change"
     snap    : SkipState \cup {None}]      \* skip-state.json as commitHash read it

NoLocal ==
    [context |-> None, saw |-> "none", bypass |-> FALSE, head |-> None,
     tree |-> None, range |-> None, to |-> None, dup |-> FALSE, snap |-> None]

TypeOK ==
    /\ head \in Commits
    /\ anchor \in Anchor \cup {None}
    /\ skipState \in SkipState
    /\ wake \in {"none", "fresh", "stale"}
    /\ stage \in [Hooks -> Stage]
    /\ loc \in [Hooks -> Local]
    /\ seen \in [Trees -> Seen]
    /\ woken \in Nat /\ forced \in Nat

\* No anchor yet, or one an older version left: its commit was reviewed, its
\* tree was not recorded.
Init ==
    /\ head \in Commits
    /\ \/ anchor = None /\ seen = [t \in Trees |-> "no"]
       \/ \E c \in Commits :
             /\ anchor = [head |-> c, tree |-> None]
             /\ seen = [t \in Trees |-> IF t = Tree[c] THEN "read" ELSE "no"]
    /\ skipState = [s \in Sessions |-> None]
    /\ wake = "none"
    /\ stage = [h \in Hooks |-> "idle"]
    /\ loc = [h \in Hooks |-> NoLocal]
    /\ woken = 0 /\ forced = 0

-----------------------------------------------------------------------------
(* Steps of a hook.                                                        *)

At(h, s)  == stage[h] = s
GoTo(h, s) == stage' = [stage EXCEPT ![h] = s]
Done(h)   == /\ stage' = [stage EXCEPT ![h] = "idle"]
             /\ loc' = [loc EXCEPT ![h] = NoLocal]

\* writeAnchor swallows its errors: the file holds the new anchor or still
\* the old one.
WriteAnchor(to) ==
    IF to = None THEN anchor' = anchor ELSE anchor' \in {to, anchor}

\* A turn ended; the fire and mute gates passed.  What the transcript says
\* (changed files, latest user message) is fixed from here on.  consumeWake
\* then reads the marker.
Stop(h) ==
    /\ At(h, "idle")
    /\ \E c \in Contexts :
         loc' = [loc EXCEPT ![h] = [NoLocal EXCEPT !.context = c, !.saw = wake]]
    /\ GoTo(h, IF wake = "none" THEN "gates" ELSE "unlink")
    /\ UNCHANGED <<head, files, history>>

\* Mutant: an unlink that finds nothing still counts as the wake.
UnlinkIgnoringErrors(h) ==
    /\ At(h, "unlink")
    /\ LET won == loc[h].saw = "fresh" IN
         /\ loc' = [loc EXCEPT ![h].bypass = won, ![h].saw = "none"]
         /\ forced' = IF won THEN forced + 1 ELSE forced
    /\ wake' = "none"
    /\ GoTo(h, "gates")
    /\ UNCHANGED <<head, anchor, skipState, seen, woken>>

\* Whoever unlinks the marker owns the wake.  For a hook that comes too late
\* unlink throws, and there is no wake.
UnlinkWake(h) ==
    /\ At(h, "unlink")
    /\ LET won == wake # "none" /\ loc[h].saw = "fresh" IN
         /\ loc' = [loc EXCEPT ![h].bypass = won, ![h].saw = "none"]
         /\ forced' = IF won THEN forced + 1 ELSE forced
    /\ wake' = "none"
    /\ GoTo(h, "gates")
    /\ UNCHANGED <<head, anchor, skipState, seen, woken>>

\* Breaker, quiet hours and budget stop a turn unless a wake forces it.
PolicySkip(h) ==
    /\ At(h, "gates")
    /\ ~loc[h].bypass
    /\ Done(h)
    /\ UNCHANGED <<head, files, history>>

\* collectReviewUnitFacts: HEAD and its tree are two git processes.
ReadHead(h) ==
    /\ At(h, "gates")
    /\ loc' = [loc EXCEPT ![h].head = head]
    /\ GoTo(h, "tree")
    /\ UNCHANGED <<head, files, history>>

ReadTree(h) ==
    /\ At(h, "tree")
    /\ loc' = [loc EXCEPT ![h].tree = Tree[head]]
    /\ seen' = IF Tree[head] = Tree[loc[h].head] THEN seen
               ELSE Mark({Tree[head], Tree[loc[h].head]}, "torn")
    /\ GoTo(h, "anchor")
    /\ UNCHANGED <<head, files, woken, forced>>

\* checkReviewUnitGate once a decision d is known, and the code-change gate
\* behind it: a fired unit goes on unless the transcript shows no edit, or
\* only prose, and then it stays unconsumed.  A forced review never skips
\* here: it takes the unit only when there is one to take.
Gate(h, d) ==
    /\ \/ /\ d.fire \/ loc[h].bypass
          /\ loc' = [loc EXCEPT ![h].head = None, ![h].tree = None,
                                ![h].range = d.range,
                                ![h].to = IF d.fire THEN d.to ELSE None]
          /\ GoTo(h, "dedupe")
       \/ /\ d.fire /\ ~loc[h].bypass
          /\ Done(h)
       \/ /\ ~d.fire /\ ~loc[h].bypass
          /\ loc' = [loc EXCEPT ![h].head = None, ![h].tree = None, ![h].to = d.to]
          /\ GoTo(h, "skip")
    /\ UNCHANGED <<head, files, history>>

GitFails(h) ==
    /\ stage[h] \in {"gates", "tree"}
    /\ Gate(h, NotARepo)

\* The anchor file is read and the decision taken on what was read.  A forced
\* review with edits on disk means those edits, not the unit.
DecideUnit(h) ==
    /\ At(h, "anchor")
    /\ \/ \E f \in Facts(loc[h].head, loc[h].tree, anchor) : Gate(h, Decide(f))
       \/ loc[h].bypass /\ Gate(h, NotARepo)

\* A skip is final, so its anchor is written at once.
SkipUnit(h) ==
    /\ At(h, "skip")
    /\ WriteAnchor(loc[h].to)
    /\ Done(h)
    /\ UNCHANGED <<head, skipState, wake, history>>

\* Mutant: the signature is the unit alone.
UnitSignature(h) == loc[h].range

SignatureOf(h) == [context |-> loc[h].context, range |-> loc[h].range]

\* checkDedupeGate.  "Already said" counts as dealt with: the hash is
\* committed again and the unit is consumed.
Dedupe(h) ==
    /\ At(h, "dedupe")
    /\ LET dup == skipState[SessionOf[h]] = SignatureOf(h) IN
         /\ loc' = [loc EXCEPT ![h].dup = dup]
         /\ GoTo(h, IF dup THEN "hashRead" ELSE "review")
         /\ seen' = IF dup /\ loc[h].range = None /\ loc[h].to # None
                    THEN Mark({Tree[loc[h].to.head]}, "blind") ELSE seen
    /\ UNCHANGED <<head, files, woken, forced>>

\* The critic came back and the unit was dealt with (a review, or a policy
\* that looked and abstained).
Resolved(h) ==
    /\ At(h, "review")
    /\ seen' = IF loc[h].to = None THEN seen
               ELSE Mark({Tree[loc[h].to.head]}, "read")
    /\ GoTo(h, "consume")
    /\ UNCHANGED <<head, anchor, skipState, wake, loc, woken, forced>>

\* Mutant: a brain that failed consumes the unit.
FailedConsumes(h) ==
    /\ At(h, "review")
    /\ GoTo(h, "consume")
    /\ UNCHANGED <<head, files, loc, history>>

\* Mutant: the hash is stored before the outcome is known.
FailedStoresHash(h) ==
    /\ At(h, "review")
    /\ GoTo(h, "hashRead")
    /\ UNCHANGED <<head, files, loc, history>>

\* brainFailed, or anything thrown on the way: nothing is consumed and no
\* hash is stored, so the next Stop retries the unit.
Failed(h) ==
    /\ At(h, "review")
    /\ Done(h)
    /\ UNCHANGED <<head, files, history>>

\* commitAnchor: the last thing on a duplicate skip, the first after a review.
Consume(h) ==
    /\ At(h, "consume")
    /\ WriteAnchor(loc[h].to)
    /\ \/ loc[h].dup /\ Done(h)
       \/ /\ ~loc[h].dup
          /\ GoTo(h, "hashRead")
          /\ loc' = [loc EXCEPT ![h].to = None]
    /\ UNCHANGED <<head, skipState, wake, history>>

\* commitHash: read the whole file, write the whole file.
HashRead(h) ==
    /\ At(h, "hashRead")
    /\ loc' = [loc EXCEPT ![h].snap = skipState]
    /\ GoTo(h, "hashWrite")
    /\ UNCHANGED <<head, files, history>>

\* Entries older than the TTL are pruned (`kept` are the others), and a write
\* that fails is swallowed.
HashWrite(h) ==
    /\ At(h, "hashWrite")
    /\ \/ \E kept \in SUBSET Sessions :
            skipState' = [s \in Sessions |->
                IF s = SessionOf[h] THEN SignatureOf(h)
                ELSE IF s \in kept THEN loc[h].snap[s] ELSE None]
       \/ UNCHANGED skipState
    /\ \/ loc[h].dup /\ GoTo(h, "consume") /\ loc' = [loc EXCEPT ![h].snap = None]
       \/ ~loc[h].dup /\ Done(h)
    /\ UNCHANGED <<head, anchor, wake, history>>

\* The host kills the hook, or the process dies.
Crash(h) ==
    /\ ~At(h, "idle")
    /\ Done(h)
    /\ UNCHANGED <<head, files, history>>

-----------------------------------------------------------------------------
(* The user, git and the clock.                                            *)

\* A commit, an amend, a checkout, a reset: HEAD names another commit.
MoveHead ==
    /\ head' \in Commits \ {head}
    /\ UNCHANGED <<files, stage, loc, history>>

\* The anchor file is deleted or unreadable (readAnchor: both read as absent).
LoseAnchor ==
    /\ anchor # None
    /\ anchor' = None
    /\ UNCHANGED <<head, skipState, wake, stage, loc, history>>

\* runWake: write the marker.
Wake ==
    /\ woken < MaxWakes
    /\ woken' = woken + 1
    /\ wake' = "fresh"
    /\ UNCHANGED <<head, anchor, skipState, stage, loc, seen, forced>>

\* Five minutes pass.
WakeExpires ==
    /\ wake = "fresh"
    /\ wake' = "stale"
    /\ UNCHANGED <<head, anchor, skipState, stage, loc, history>>

Environment == MoveHead \/ LoseAnchor \/ Wake \/ WakeExpires

HookStep(h) ==
    \/ Stop(h) \/ UnlinkWake(h) \/ PolicySkip(h) \/ ReadHead(h) \/ ReadTree(h)
    \/ GitFails(h) \/ DecideUnit(h) \/ SkipUnit(h) \/ Dedupe(h)
    \/ Resolved(h) \/ Failed(h) \/ Consume(h) \/ HashRead(h) \/ HashWrite(h)
    \/ Crash(h)

Next == Environment \/ \E h \in Hooks : HookStep(h)

Spec == Init /\ [][Next]_vars

-----------------------------------------------------------------------------
(* Properties.                                                             *)

\* Content that was dealt with, or that one of the two known holes let through.
Known == {t \in Trees : seen[t] # "no"}

\* The anchor never moves past content nobody looked at: the commit it names
\* and the tree it remembers were the end of a completed review, except after
\* a gate whose two git reads straddled a HEAD move (torn) or a duplicate skip
\* whose signature had no unit (blind).  Past the anchor a diff is unreachable
\* for good, so this is what "no commit goes unread" rests on (handle-stop.ts,
\* defects [27] and [59]).
ConsumedWasRead ==
    anchor # None => /\ Tree[anchor.head] \in Known
                     /\ anchor.tree \in Known \cup {None}

\* The content that the anchor stands for, and what stored signatures name.
Consumed ==
    IF anchor = None THEN {} ELSE {Tree[anchor.head]} \cup ({anchor.tree} \ {None})
Said ==
    {Tree[skipState[s].range.to] :
        s \in {r \in Sessions : skipState[r] # None /\ skipState[r].range # None}}

Promise == INSTANCE Reviewer WITH
    Contents <- Trees, dealt <- Known, consumed <- Consumed, said <- Said

\* Look first, consume later, and never forget, whichever hook does which: no step
\* deals with content and consumes it at once, and no write of the anchor or of
\* skip-state.json by a hook that read HEAD minutes ago takes in what nobody has
\* dealt with by then (handle-stop.ts, commitAnchor and commitHash).
ImplementsReviewer == Promise!ReviewerSpec

\* Unread work is never silently over: while HEAD holds content nobody looked
\* at, the gate would fire on it, whatever anchors concurrent hooks wrote.
UnreadHeadFires ==
    Tree[head] \notin Known =>
        \A f \in Facts(head, Tree[head], anchor) : Decide(f).fire

\* A stored signature that names a unit names one that was dealt with, also
\* when two sessions overwrite each other's skip-state.json: a failed review
\* must not be answered with "no_change" on the retry.
HashNamesReadUnit ==
    \A s \in Sessions :
        skipState[s] # None =>
            (skipState[s].range # None => Tree[skipState[s].range.to] \in Known)

\* A wake forces at most one review, however many hooks see the marker.
OneReviewPerWake == forced <= woken

\* What comments and commands claim and the code does not keep.
\* handle-stop.ts:1094 says a duplicate skip "matches only a unit that was
\* already reviewed -- never a new commit".
DuplicateIsNeverANewCommit ==
    anchor # None => seen[Tree[anchor.head]] # "blind"
-----------------------------------------------------------------------------
(***************************************************************************)
(* The inductive invariant.  The three properties about content follow from*)
(* what is on disk (FilesOK), but only because every hook carries values   *)
(* that will be fit to write by the time it writes them (HookOK).  K is the*)
(* content dealt with so far; it only grows, so nothing a hook read before *)
(* others moved becomes unfit.                                             *)
(***************************************************************************)
Dealt(a, K) ==
    a # None => Tree[a.head] \in K /\ a.tree \in K \cup {None}

EntryOK(e, K) ==
    e # None => (e.range # None => Tree[e.range.to] \in K)

\* A HEAD and a tree read by one gate, in one piece or torn.
PairOK(c, t, K) == t = Tree[c] \/ (t \in K /\ Tree[c] \in K)

HookOK(st, l, K) ==
    /\ st # "idle" => l.context # None
    /\ st \in {"tree", "anchor"} => l.head # None
    /\ st = "anchor" => l.tree # None /\ PairOK(l.head, l.tree, K)
    /\ st = "skip" => Dealt(l.to, K)
    /\ st \in {"dedupe", "review"} =>
         /\ l.to # None => l.to.tree # None /\ PairOK(l.to.head, l.to.tree, K)
         /\ l.range # None => l.to # None /\ l.range.to = l.to.head
    /\ st \in {"consume", "hashRead", "hashWrite"} =>
         /\ Dealt(l.to, K)
         /\ l.range # None => Tree[l.range.to] \in K
    /\ st = "hashWrite" =>
         /\ l.snap # None
         /\ \A s \in Sessions : EntryOK(l.snap[s], K)

FilesOK ==
    /\ Dealt(anchor, Known)
    /\ \A s \in Sessions : EntryOK(skipState[s], Known)

IInv ==
    /\ TypeOK
    /\ FilesOK
    /\ \A h \in Hooks : HookOK(stage[h], loc[h], Known)

\* A wake still on disk has not forced its review yet.
WakeInv == forced + (IF wake = "none" THEN 0 ELSE 1) <= woken

=============================================================================
