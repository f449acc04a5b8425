---------------------------- MODULE DistilWorker ----------------------------
(***************************************************************************)
(* The deferred adjudication of critiques: the queue file                  *)
(* (memory/pending-queue.ts), the detached worker that sweeps it           *)
(* (memory/distil-worker.ts) under the process lock, and the hooks that    *)
(* append to the queue and launch workers (memory/distil-launcher.ts).     *)
(*                                                                         *)
(* A hook appends without the lock.  A worker is a process of its own that *)
(* reads the queue, calls a model for minutes and replaces the queue.      *)
(***************************************************************************)
EXTENDS ProcessLock, Naturals

CONSTANTS
    Critiques,    \* critique ids; each is parked at most once
    TTL_HOOKS,    \* sweeps a critique survives undecided
    MAX_DISTIL_ATTEMPTS,
    MaxLaunches   \* bound: workers launched

ASSUME DistilAssumption ==
    /\ TTL_HOOKS \in Nat \ {0}
    /\ MAX_DISTIL_ATTEMPTS \in Nat \ {0}
    /\ MaxLaunches \in Nat
    /\ None \notin [hooks_elapsed : Nat, distil_attempts : Nat]

VARIABLES
    queue,       \* pending-critiques.jsonl: the entry of each parked critique
    phase,       \* where each worker is
    todo,        \* the entries of its snapshot a worker has still to judge
    survivors,   \* what a worker will write back, the unjudged included
    parked,      \* history: critiques ever enqueued
    judged,      \* history: how often each was adjudicated
    distilled,   \* history: how often a rule was written from each
    aborted,     \* history: sweeps that did not write the queue back
    launches     \* history: workers launched

worker  == <<phase, todo, survivors>>
history == <<parked, judged, distilled, aborted, launches>>
vars    == <<lockVars, queue, worker, history>>

Entry == [hooks_elapsed : Nat, distil_attempts : Nat]
Queue == [Critiques -> Entry \cup {None}]
Empty == [c \in Critiques |-> None]

TypeOK ==
    /\ LockTypeOK
    /\ queue \in Queue
    /\ phase \in [Procs -> {"none", "launched", "sweep", "done"}]
    /\ todo \in [Procs -> SUBSET Critiques]
    /\ survivors \in [Procs -> Queue]
    /\ parked \in SUBSET Critiques
    /\ judged \in [Critiques -> Nat]
    /\ distilled \in [Critiques -> Nat]
    /\ aborted \in Nat /\ launches \in Nat

Init ==
    /\ LockInit
    /\ queue = Empty
    /\ phase = [p \in Procs |-> "none"]
    /\ todo = [p \in Procs |-> {}]
    /\ survivors = [p \in Procs |-> Empty]
    /\ parked = {}
    /\ judged = [c \in Critiques |-> 0]
    /\ distilled = [c \in Critiques |-> 0]
    /\ aborted = 0 /\ launches = 0

-----------------------------------------------------------------------------
(* Hooks.                                                                  *)

\* enqueuePending: one append.
Enqueue(c) ==
    /\ c \notin parked
    /\ parked' = parked \cup {c}
    /\ queue' = [queue EXCEPT ![c] = [hooks_elapsed |-> 0, distil_attempts |-> 0]]
    /\ UNCHANGED <<lockVars, worker, judged, distilled, aborted, launches>>

\* maybeLaunchDistilWorker: something is queued and isLockHeld is false.
Launch(p) ==
    /\ launches < MaxLaunches /\ launches' = launches + 1
    /\ phase[p] = "none" /\ p \in alive
    /\ queue # Empty
    /\ owner \notin alive
    /\ phase' = [phase EXCEPT ![p] = "launched"]
    /\ UNCHANGED <<lockVars, queue, todo, survivors, parked, judged, distilled, aborted>>

-----------------------------------------------------------------------------
(* The worker.                                                             *)

\* runDistilWorker: a worker that finds the lock held, or loses the race for
\* it, exits.
TakeLock(p) ==
    /\ phase[p] = "launched"
    /\ Acquire(p)
    /\ phase' = [phase EXCEPT ![p] = IF at'[p] = "out" THEN "none" ELSE "launched"]
    /\ UNCHANGED <<queue, todo, survivors, history>>

Queued == {c \in Critiques : queue[c] # None}

\* readPending, once per sweep.  A corrupt line is skipped, a file that cannot be
\* read is an empty queue: what was not seen will not be written back.
ReadPending(p) ==
    /\ Holds(p)
    /\ phase[p] = "launched"
    /\ phase' = [phase EXCEPT ![p] = "sweep"]
    /\ \E seen \in SUBSET Queued :
         /\ todo' = [todo EXCEPT ![p] = seen]
         /\ survivors' = [survivors EXCEPT ![p] =
                             [c \in Critiques |-> IF c \in seen THEN queue[c] ELSE None]]
    /\ UNCHANGED <<lockVars, queue, history>>

\* One turn of the loop: c is judged and stays as `next`, or goes for None.
Judge(p, c, next) ==
    /\ Holds(p)
    /\ phase[p] = "sweep"
    /\ c \in todo[p]
    /\ todo' = [todo EXCEPT ![p] = @ \ {c}]
    /\ survivors' = [survivors EXCEPT ![p][c] = next]
    /\ judged' = [judged EXCEPT ![c] = @ + 1]
    /\ UNCHANGED <<lockVars, queue, phase, parked, aborted, launches>>

Bumped(p, c) == [survivors[p][c] EXCEPT !.hooks_elapsed = @ + 1]

\* Acted on, and the rule is written (or found to be a duplicate).
Distil(p, c) ==
    /\ Judge(p, c, None)
    /\ distilled' = [distilled EXCEPT ![c] = @ + 1]

\* Mutant: the retry keeps the entry as it was.
DistilFailsUncounted(p, c) ==
    Judge(p, c, survivors[p][c]) /\ UNCHANGED distilled

\* Acted on, but the writer threw: another try with the next worker, until
\* the budget is gone.
DistilFails(p, c) ==
    /\ LET attempts == survivors[p][c].distil_attempts + 1 IN
         Judge(p, c, IF attempts >= MAX_DISTIL_ATTEMPTS THEN None
                     ELSE [Bumped(p, c) EXCEPT !.distil_attempts = attempts])
    /\ UNCHANGED distilled

\* Not acted on yet, or the oracle abstained or threw.
Keep(p, c) ==
    /\ Bumped(p, c).hooks_elapsed < TTL_HOOKS
    /\ Judge(p, c, Bumped(p, c))
    /\ UNCHANGED distilled

\* ... for TTL_HOOKS sweeps, or for two days, which may be over any time.
Expire(p, c) ==
    /\ Judge(p, c, None)
    /\ UNCHANGED distilled

\* Mutant: the queue keeps what was adjudicated.
WriteKeepsQueue(p) ==
    /\ Holds(p)
    /\ phase[p] = "sweep" /\ todo[p] = {}
    /\ phase' = [phase EXCEPT ![p] = "done"]
    /\ UNCHANGED <<lockVars, queue, todo, survivors, history>>

\* writePending: the survivors replace whatever the file holds now.
WritePending(p) ==
    /\ Holds(p)
    /\ phase[p] = "sweep" /\ todo[p] = {}
    /\ queue' = survivors[p]
    /\ phase' = [phase EXCEPT ![p] = "done"]
    /\ survivors' = [survivors EXCEPT ![p] = Empty]
    /\ UNCHANGED <<lockVars, todo, history>>

\* Something throws: the sweep ends without a write.
SweepThrows(p) ==
    /\ Holds(p)
    /\ phase[p] = "sweep"
    /\ phase' = [phase EXCEPT ![p] = "done"]
    /\ todo' = [todo EXCEPT ![p] = {}]
    /\ survivors' = [survivors EXCEPT ![p] = Empty]
    /\ aborted' = aborted + 1
    /\ UNCHANGED <<lockVars, queue, parked, judged, distilled, launches>>

\* The finally branch.
Unlock(p) ==
    /\ phase[p] = "done"
    /\ Release(p)
    /\ phase' = [phase EXCEPT ![p] = "none"]
    /\ UNCHANGED <<queue, todo, survivors, history>>

\* The process dies, or its heartbeat ends it.
Crash(p) ==
    /\ phase[p] # "none"
    /\ Die(p) \/ FailClosed(p)
    /\ aborted' = IF phase[p] = "sweep" THEN aborted + 1 ELSE aborted
    /\ todo' = [todo EXCEPT ![p] = {}]
    /\ survivors' = [survivors EXCEPT ![p] = Empty]
    /\ phase' = [phase EXCEPT ![p] = "none"]
    /\ UNCHANGED <<queue, parked, judged, distilled, launches>>

Hook == (\E c \in Critiques : Enqueue(c)) \/ (\E p \in Procs : Launch(p))

Sweep(p) ==
    \/ ReadPending(p)
    \/ \E c \in todo[p] : Distil(p, c) \/ DistilFails(p, c) \/ Keep(p, c) \/ Expire(p, c)
    \/ WritePending(p) \/ SweepThrows(p)

Next ==
    \/ Hook
    \/ \E p \in Procs : TakeLock(p) \/ Sweep(p) \/ Unlock(p) \/ Crash(p)

Spec == Init /\ [][Next]_vars

-----------------------------------------------------------------------------
(* Properties.                                                             *)

\* A validated critique reinforces the memory once: a second rule from the
\* same critique needs a sweep that died between the two writes, or a lock that
\* two workers held.
DistilledOnce ==
    ~raced => \A c \in Critiques : distilled[c] <= 1 + aborted

\* A critique leaves the queue: whatever the oracle and the writer answer, it is
\* adjudicated at most TTL_HOOKS times and once more per failed try.
SweptBounded ==
    ~raced => \A c \in Critiques :
        judged[c] <= TTL_HOOKS + MAX_DISTIL_ATTEMPTS - 1 + aborted

\* handle-stop.ts:1488 says "park a pending critique for deferred acted-on
\* adjudication by a later sweep".
ParkedIsSwept ==
    \A c \in parked : judged[c] = 0 => queue[c] # None

\* Every worker reads the whole queue: the file can be read, no line is corrupt.
WholeReads ==
    \A p \in Procs : phase[p] = "launched" /\ phase'[p] = "sweep" => todo'[p] = Queued

ReadableSpec == Init /\ [][Next /\ WholeReads]_vars

\* No hook appends while a worker is in its sweep.
NoLateAppend == parked' # parked => \A p \in Procs : phase[p] # "sweep"

\* The two things ParkedIsSwept lacks, and nobody enforces.
CalmSpec == Init /\ [][Next /\ WholeReads /\ NoLateAppend]_vars

-----------------------------------------------------------------------------
(* The inductive invariant.                                                *)

\* What an entry that will outlive this sweep owes: nothing was distilled from
\* it but by sweeps that died (n of them), every other adjudication is counted
\* in it, and its counters are within their budgets.
Fits(e, c, n) ==
    e # None =>
      /\ distilled[c] <= n
      /\ judged[c] <= n + e.hooks_elapsed
      /\ e.hooks_elapsed < TTL_HOOKS + e.distil_attempts
      /\ e.distil_attempts < MAX_DISTIL_ATTEMPTS

\* A critique nobody parked yet is nowhere, and what a worker has to judge is
\* in its snapshot.
Placed(c) ==
    /\ c \notin parked => queue[c] = None /\ distilled[c] = 0 /\ judged[c] = 0
    /\ \A p \in Procs :
        /\ c \notin parked => c \notin todo[p] /\ survivors[p][c] = None
        /\ c \in todo[p] => survivors[p][c] # None

\* Between sweeps the queue fits.  During one, what the worker will write back
\* fits, and the queue will fit once the sweep counts as aborted; what is not
\* judged yet is the same in both.
Counted(c) ==
    /\ distilled[c] <= 1 + aborted
    /\ judged[c] <= TTL_HOOKS + MAX_DISTIL_ATTEMPTS - 1 + aborted
    /\ (\A p \in Procs : phase[p] # "sweep") => Fits(queue[c], c, aborted)
    /\ \A p \in Procs : phase[p] = "sweep" =>
        /\ Fits(queue[c], c, aborted + 1)
        /\ Fits(survivors[p][c], c, aborted)
        /\ c \in todo[p] => queue[c] = survivors[p][c]

\* What was parked and not judged yet is in the queue, and still to be judged by
\* every worker that sweeps: no worker will write a queue without it.
Awaited ==
    \A c \in parked : judged[c] = 0 =>
        queue[c] # None /\ \A p \in Procs : phase[p] = "sweep" => c \in todo[p]

DistilIInv ==
    /\ TypeOK /\ LockIInv
    /\ \A p \in Procs : phase[p] = "sweep" => Holds(p)
    /\ \A c \in Critiques : Placed(c)
    /\ ~raced => \A c \in Critiques : Counted(c)
=============================================================================
