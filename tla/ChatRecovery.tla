---------------------------- MODULE ChatRecovery ----------------------------
(***************************************************************************)
(* The recovery of the full-text index at the start of the daemon          *)
(* (chat/recovery.ts, over chat/fts5-index.ts and chat/jsonl-store.ts),    *)
(* with the chat that the daemon then serves as its environment (ChatFiles).*)
(*                                                                         *)
(* Messages on disk that are not indexed are inserted; rows whose file is  *)
(* gone are removed, but only when the file was missed by several passes   *)
(* and for a time: the listing of the files fails open.                    *)
(***************************************************************************)
EXTENDS ChatFiles, Naturals

CONSTANTS
    None,                       \* not a candidate
    MIN_ORPHAN_UNSEEN_PASSES,   \* passes that must miss a conversation
    ConfirmWindow               \* and the time that must pass, in ticks

ASSUME RecoveryAssumption ==
    /\ MIN_ORPHAN_UNSEEN_PASSES \in Nat \ {0, 1, 2}
    /\ ConfirmWindow \in Nat
    /\ None \notin [passes : Nat, age : Nat]

VARIABLES
    recovering,  \* the daemon is up and puts its index right
    seen,        \* the conversations the last listing returned
    recovered,   \* the last recovery came to its end
    candidate,   \* orphan_candidates: passes and age since first unseen
    oldShape,    \* the tables an older version of the program made
    unseen       \* history: passes in a row, of those that came to the
                 \* prune, that missed a conversation, and the time since
                 \* the first of them

recoveryVars == <<recovering, seen, recovered, candidate, oldShape, unseen>>
vars == <<files, recoveryVars>>

Tables == {"fts_messages", "orphan_candidates"}
Count  == [passes : Nat, age : 0 .. ConfirmWindow]
First  == [passes |-> 1, age |-> 0]

TypeOK ==
    /\ FilesTypeOK
    /\ recovering \in BOOLEAN
    /\ seen \in SUBSET Sessions /\ recovered \in BOOLEAN
    /\ candidate \in [Sessions -> Count \cup {None}]
    /\ oldShape \in SUBSET Tables
    /\ unseen \in [Sessions -> Count]

Init ==
    /\ FilesInit
    /\ recovering = FALSE
    /\ seen = {} /\ recovered = FALSE
    /\ candidate = [s \in Sessions |-> None]
    /\ oldShape \in SUBSET Tables
    /\ unseen = [s \in Sessions |-> [passes |-> 0, age |-> 0]]

Stored == {s \in Sessions : jsonl[s] # {}}
Indexed == {s \in Sessions : rows[s] # {}}

\* Passes and ages count only as far as they are compared.
Capped(n, top) == IF n > top THEN top ELSE n
Bump(c) == [c EXCEPT !.passes = Capped(@ + 1, MIN_ORPHAN_UNSEEN_PASSES)]

-----------------------------------------------------------------------------
\* openIndex drops a table of another shape; listSessions returns what it
\* finds, which may miss any conversation, or all of them.
Boot ==
    /\ ~serving /\ ~recovering /\ recovering' = TRUE
    /\ rows' = IF "fts_messages" \in oldShape THEN [s \in Sessions |-> {}] ELSE rows
    /\ candidate' = IF "orphan_candidates" \in oldShape
                    THEN [s \in Sessions |-> None] ELSE candidate
    /\ oldShape' = {}
    /\ seen' \in SUBSET Stored
    /\ recovered' = FALSE
    /\ UNCHANGED <<serving, jsonl, pending, unseen>>

\* One message that is on disk and not indexed.
Replay(s) ==
    /\ recovering /\ s \in seen
    /\ \E m \in jsonl[s] \ rows[s] : rows' = [rows EXCEPT ![s] = @ \cup {m}]
    /\ UNCHANGED <<serving, jsonl, pending, recoveryVars>>

\* Both conditions on a conversation that was a candidate before this pass.
Confirmed(s) ==
    /\ candidate[s] # None
    /\ candidate[s].age >= ConfirmWindow
    /\ candidate[s].passes + 1 >= MIN_ORPHAN_UNSEEN_PASSES

\* Mutants: one that reappeared is not cleared; each sighting stamps anew;
\* a pass counts as time.
JudgedKeepsReappeared(orphans) ==
    [s \in Sessions |->
        CASE s \notin orphans -> candidate[s]
          [] s \in orphans /\ Confirmed(s) -> None
          [] s \in orphans /\ candidate[s] = None -> First
          [] OTHER -> Bump(candidate[s])]
JudgedStampsAnew(orphans) ==
    [s \in Sessions |-> IF s \notin orphans \/ Confirmed(s) THEN None ELSE First]
JudgedByPasses(orphans) ==
    [s \in Sessions |->
        CASE s \notin orphans -> None
          [] s \in orphans /\ Confirmed(s) -> None
          [] s \in orphans /\ candidate[s] = None -> First
          [] OTHER -> [Bump(candidate[s]) EXCEPT !.age = @ + 1]]

\* What becomes of each candidate: it reappeared (or has no rows), it is
\* removed with its rows, it is new, or it is held back.
Judged(orphans) ==
    [s \in Sessions |->
        CASE s \notin orphans -> None
          [] s \in orphans /\ Confirmed(s) -> None
          [] s \in orphans /\ candidate[s] = None -> First
          [] OTHER -> Bump(candidate[s])]

\* A pass that sees nothing at all judges nothing.
Missed ==
    [s \in Sessions |->
        IF s \in seen THEN [passes |-> 0, age |-> 0]
        ELSE IF unseen[s].passes = 0 THEN First ELSE Bump(unseen[s])]

\* Mutant: every confirmed candidate is removed, back or not.
PruneCandidates ==
    /\ recovering /\ recovering' = FALSE /\ serving' = TRUE
    /\ \A s \in seen : jsonl[s] \subseteq rows[s]
    /\ recovered' = TRUE
    /\ rows' = [s \in Sessions |-> IF Confirmed(s) THEN {} ELSE rows[s]]
    /\ candidate' = Judged(Indexed \ seen)
    /\ unseen' = Missed
    /\ UNCHANGED <<jsonl, pending, seen, oldShape>>

\* The end of the recovery, in one transaction: everything seen is indexed;
\* without any conversation in sight nothing is removed.
Prune ==
    /\ recovering /\ recovering' = FALSE /\ serving' = TRUE
    /\ \A s \in seen : jsonl[s] \subseteq rows[s]
    /\ recovered' = TRUE
    /\ IF seen = {} /\ Indexed # {}
       THEN UNCHANGED <<rows, candidate, unseen>>
       ELSE LET orphans == Indexed \ seen
            IN  /\ rows' = [s \in Sessions |->
                              IF s \in orphans /\ Confirmed(s) THEN {} ELSE rows[s]]
                /\ candidate' = Judged(orphans)
                /\ unseen' = Missed
    /\ UNCHANGED <<jsonl, pending, seen, oldShape>>

\* A file that cannot be read, a database error: the daemon serves all the same.
RecoveryFails ==
    /\ recovering /\ recovering' = FALSE /\ serving' = TRUE
    /\ UNCHANGED <<jsonl, rows, pending, seen, recovered, candidate, oldShape, unseen>>

\* The daemon dies in the middle.
Die ==
    /\ recovering /\ recovering' = FALSE
    /\ UNCHANGED <<files, seen, recovered, candidate, oldShape, unseen>>

\* Time passes, or the clock jumps forward.
Tick ==
    LET older(c) == [c EXCEPT !.age = Capped(@ + 1, ConfirmWindow)]
    IN  /\ candidate' = [s \in Sessions |->
                            IF candidate[s] = None THEN None ELSE older(candidate[s])]
        /\ unseen' = [s \in Sessions |->
                            IF unseen[s].passes = 0 THEN unseen[s] ELSE older(unseen[s])]
        /\ <<candidate, unseen>> # <<candidate', unseen'>>
        /\ UNCHANGED <<files, recovering, seen, recovered, oldShape>>

Serve == Request /\ UNCHANGED recoveryVars
Exit  == Stop /\ UNCHANGED recoveryVars

Next ==
    \/ Serve \/ Exit
    \/ Boot \/ (\E s \in Sessions : Replay(s)) \/ Prune \/ RecoveryFails \/ Die
    \/ Tick

Spec == Init /\ [][Next]_vars

\* The machine is restarted from time to time and the daemon with it, a
\* recovery goes on, and time passes.
Fairness ==
    /\ WF_vars(Exit) /\ WF_vars(Boot) /\ WF_vars(Tick)
    /\ WF_vars((\E s \in Sessions : Replay(s)) \/ Prune)

FairSpec == Spec /\ Fairness

-----------------------------------------------------------------------------
\* After a recovery that ended, every message of a conversation it saw can be
\* found, whatever was lost, cut off or rebuilt before: all that is missing is
\* what a request has stored since and is about to index, or could not
\* (recovery.ts:165, fts5-index.ts:69).
EverythingIsFound ==
    serving /\ recovered =>
        \A s \in seen : \A m \in jsonl[s] \ rows[s] : <<s, m>> \in pending

\* Rows go away in two ways only: with a table of an older shape, or when
\* the passes in a row that missed the conversation, this one included, are
\* enough and the first of them is long enough ago.  A recovery that failed before
\* the prune is no such pass, not even when it saw the conversation
\* (recovery.ts:109).
PruneIsConfirmed ==
    [][ \A s \in Sessions :
          ~(rows[s] \subseteq rows'[s]) =>
              \/ "fts_messages" \in oldShape
              \/ /\ unseen[s].passes + 1 >= MIN_ORPHAN_UNSEEN_PASSES
                 /\ unseen[s].age >= ConfirmWindow ]_vars

\* A conversation that is gone for good leaves the index, as long as another
\* one can be seen at each start and not every recovery is cut off or fails
\* (recovery.ts:186, :206).
DeletedLeavesIndex ==
    \A s \in Sessions :
        <>[](jsonl[s] = {} /\ seen # {}) /\ []<>recovered => <>[](rows[s] = {})
=============================================================================
