-------------------------- MODULE DistilWorkerProofs --------------------------
(***************************************************************************)
(* For any number of critiques, workers, sweeps and crashes, and every TTL *)
(* and budget: outside the two races of the lock a critique gives one rule *)
(* (and one more per sweep that died), and it leaves the queue.            *)
(***************************************************************************)
EXTENDS DistilWorker, ProcessLockProofs

LEMMA InitDistilIInv == Init => DistilIInv
<1> SUFFICES ASSUME Init PROVE DistilIInv
  OBVIOUS
<1>1. LockIInv
  BY InitLockIInv DEF Init
<1>2. TypeOK
  BY <1>1, DistilAssumption DEF Init, LockIInv, TypeOK, Empty, Queue
<1>3. \A c \in Critiques : Placed(c) /\ Counted(c)
  BY DistilAssumption DEF Init, Placed, Counted, Fits, Empty
<1> QED
  BY <1>1, <1>2, <1>3 DEF Init, DistilIInv

-----------------------------------------------------------------------------
(* The lock.                                                               *)

\* What a worker does to the lock is what ProcessLock lets a process do.
LEMMA LockStep == [Next]_vars => [LockNext]_lockVars
<1> SUFFICES ASSUME [Next]_vars PROVE [LockNext]_lockVars
  OBVIOUS
<1>1. CASE UNCHANGED vars \/ Hook
  BY <1>1 DEF vars, Hook, Enqueue, Launch
<1>2. ASSUME NEW p \in Procs, TakeLock(p) \/ Unlock(p) \/ Crash(p)
      PROVE  [LockNext]_lockVars
  BY <1>2 DEF TakeLock, Unlock, Crash, LockNext
<1>3. ASSUME NEW p \in Procs, Sweep(p) PROVE [LockNext]_lockVars
  BY <1>3 DEF Sweep, ReadPending, WritePending, SweepThrows,
     Distil, DistilFails, Keep, Expire, Judge
<1> QED
  BY <1>1, <1>2, <1>3 DEF Next

\* Hence the lock's own invariant holds of the workers too.
LEMMA LockIInvNext == LockIInv /\ [Next]_vars => LockIInv'
  BY LockStep, NextLockIInv

\* The workers use the lock as it is specified.
THEOREM WorkersUseLock == Spec => LockSpec
<1>1. Init => LockInit
  BY DEF Init
<1>2. [Next]_vars => [LockNext]_lockVars
  BY LockStep
<1> QED
  BY <1>1, <1>2, PTL DEF Spec, LockSpec

\* Before a race no two workers sweep.
LEMMA OneSweeps ==
    ASSUME DistilIInv, ~raced, NEW p \in Procs, NEW q \in Procs,
           phase[p] = "sweep", phase[q] = "sweep"
    PROVE  p = q
<1>1. p \in alive /\ q \in alive /\ at[p] = "held" /\ at[q] = "held"
  BY DEF DistilIInv, Holds
<1> QED
  BY <1>1 DEF DistilIInv, LockIInv

\* A process that has the lock before a race is the only one that may sweep.
LEMMA HolderSweeps ==
    ASSUME DistilIInv, ~raced, NEW p \in Procs, Holds(p),
           NEW q \in Procs, phase[q] = "sweep"
    PROVE  q = p
<1>1. q \in alive /\ at[q] = "held"
  BY DEF DistilIInv, Holds
<1> QED
  BY <1>1 DEF DistilIInv, LockIInv, Holds

-----------------------------------------------------------------------------
(* The hooks.                                                              *)

LEMMA EnqueueIInv ==
    ASSUME DistilIInv, LockIInv', NEW c \in Critiques, Enqueue(c) PROVE DistilIInv'
<1> DEFINE e == [hooks_elapsed |-> 0, distil_attempts |-> 0]
<1>1. /\ c \notin parked /\ queue' = [queue EXCEPT ![c] = e]
      /\ parked' = parked \cup {c}
      /\ UNCHANGED <<lockVars, phase, todo, survivors, judged, distilled, aborted, launches>>
  BY DEF Enqueue, worker
<1>2. TypeOK'
  BY <1>1 DEF DistilIInv, TypeOK, LockIInv, lockVars, Queue, Entry
<1>3. /\ distilled[c] = 0 /\ judged[c] = 0
      /\ \A p \in Procs : c \notin todo[p] /\ survivors[p][c] = None
  BY <1>1 DEF DistilIInv, Placed
<1>4. \A p \in Procs : phase'[p] = "sweep" => Holds(p)'
  BY <1>1 DEF DistilIInv, Holds, lockVars
<1>5. ASSUME NEW d \in Critiques PROVE Placed(d)'
  BY <1>1, <1>3 DEF DistilIInv, TypeOK, Queue, Placed
<1>6. ASSUME ~raced', NEW d \in Critiques PROVE Counted(d)'
  <2>1. Counted(d)
    BY <1>1, <1>6 DEF DistilIInv, lockVars
  <2>2. CASE d # c
    <3>1. queue'[d] = queue[d]
      BY <1>1, <2>2 DEF DistilIInv, TypeOK, Queue
    <3> QED
      BY <1>1, <2>1, <3>1 DEF Counted, Fits
  <2>3. CASE d = c
    <3>1. queue'[d] = e /\ aborted \in Nat
      BY <1>1, <2>3 DEF DistilIInv, TypeOK, Queue
    <3>2. \A n \in Nat : Fits(e, c, n)'
      BY <1>1, <1>3, DistilAssumption DEF Fits
    <3> QED
      BY <1>1, <1>3, <2>1, <2>3, <3>1, <3>2 DEF Counted, Fits
  <2> QED
    BY <2>2, <2>3
<1> QED
  BY <1>2, <1>4, <1>5, <1>6 DEF DistilIInv

\* A step that moves a worker between the phases around the sweep and changes
\* none of the files.
LEMMA QuietIInv ==
    ASSUME DistilIInv, LockIInv', NEW p \in Procs,
           NEW ph \in {"none", "launched", "done"},
           phase' = [phase EXCEPT ![p] = ph], phase[p] # "sweep", launches' \in Nat,
           ~raced' => ~raced,
           \A q \in Procs : q # p /\ Holds(q) => Holds(q)',
           UNCHANGED <<queue, todo, survivors, parked, judged, distilled, aborted>>
    PROVE  DistilIInv'
<1>1. TypeOK'
  BY DEF DistilIInv, TypeOK, LockIInv
<1>2. \A q \in Procs : phase'[q] = "sweep" <=> phase[q] = "sweep"
  BY DEF DistilIInv, TypeOK
<1>3. \A q \in Procs : phase'[q] = "sweep" => Holds(q)'
  BY <1>2 DEF DistilIInv
<1>4. \A c \in Critiques : Placed(c)'
  BY DEF DistilIInv, Placed
<1>5. ASSUME ~raced', NEW c \in Critiques PROVE Counted(c)'
  <2>1. Counted(c)
    BY <1>5 DEF DistilIInv
  <2> QED
    BY <1>2, <2>1 DEF Counted, Fits
<1> QED
  BY <1>1, <1>3, <1>4, <1>5 DEF DistilIInv

LEMMA LaunchIInv ==
    ASSUME DistilIInv, LockIInv', NEW p \in Procs, Launch(p) PROVE DistilIInv'
<1>1. /\ phase' = [phase EXCEPT ![p] = "launched"] /\ phase[p] # "sweep"
      /\ UNCHANGED <<lockVars, queue, todo, survivors, parked, judged, distilled, aborted>>
      /\ launches' \in Nat
  BY DEF Launch, DistilIInv, TypeOK
<1> QED
  BY <1>1, QuietIInv DEF lockVars, Holds

-----------------------------------------------------------------------------
(* The worker takes and releases the lock, or dies.                        *)

LEMMA TakeLockIInv ==
    ASSUME DistilIInv, LockIInv', NEW p \in Procs, TakeLock(p) PROVE DistilIInv'
<1>1. PICK ph \in {"none", "launched"} : phase' = [phase EXCEPT ![p] = ph]
  BY DEF TakeLock
<1>2. phase[p] # "sweep" /\ launches' \in Nat
  BY DEF TakeLock, history, DistilIInv, TypeOK
<1>3. ~raced' => ~raced
  BY DEF TakeLock, Acquire, Mkdir, Check, Remove, Remake, WriteOwner
<1>4. \A q \in Procs : q # p /\ Holds(q) => Holds(q)'
  BY DEF TakeLock, Acquire, Mkdir, Check, Remove, Remake, WriteOwner, Step, Holds,
     DistilIInv, LockIInv, LockTypeOK
<1>5. UNCHANGED <<queue, todo, survivors, parked, judged, distilled, aborted>>
  BY DEF TakeLock, history
<1> QED
  BY <1>1, <1>2, <1>3, <1>4, <1>5, QuietIInv

LEMMA UnlockIInv ==
    ASSUME DistilIInv, LockIInv', NEW p \in Procs, Unlock(p) PROVE DistilIInv'
<1>1. phase' = [phase EXCEPT ![p] = "none"] /\ phase[p] # "sweep" /\ launches' \in Nat
  BY DEF Unlock, history, DistilIInv, TypeOK
<1>2. ~raced' => ~raced
  BY DEF Unlock, Release
<1>3. \A q \in Procs : q # p /\ Holds(q) => Holds(q)'
  BY DEF Unlock, Release, Step, Holds, DistilIInv, LockIInv, LockTypeOK
<1>4. UNCHANGED <<queue, todo, survivors, parked, judged, distilled, aborted>>
  BY DEF Unlock, history
<1> QED
  BY <1>1, <1>2, <1>3, <1>4, QuietIInv

\* A sweep that ends without a write: it counts as aborted, and the queue it
\* leaves is the one it read.
LEMMA AbortIInv ==
    ASSUME DistilIInv, LockIInv', NEW p \in Procs,
           NEW ph \in {"none", "done"}, phase' = [phase EXCEPT ![p] = ph],
           aborted' = IF phase[p] = "sweep" THEN aborted + 1 ELSE aborted,
           todo' = [todo EXCEPT ![p] = {}],
           survivors' = [survivors EXCEPT ![p] = Empty],
           ~raced' => ~raced,
           \A q \in Procs : q # p /\ Holds(q) => Holds(q)',
           UNCHANGED <<queue, parked, judged, distilled, launches>>
    PROVE  DistilIInv'
<1>1. TypeOK'
  BY DEF DistilIInv, TypeOK, LockIInv, Queue, Empty
<1>2. \A q \in Procs : phase'[q] = "sweep" => q # p /\ phase[q] = "sweep"
  BY DEF DistilIInv, TypeOK
<1>3. \A q \in Procs : phase'[q] = "sweep" => Holds(q)'
  BY <1>2 DEF DistilIInv
<1>4. ASSUME NEW c \in Critiques PROVE Placed(c)'
  BY DEF DistilIInv, TypeOK, Placed, Empty
<1>5. ASSUME ~raced', NEW c \in Critiques PROVE Counted(c)'
  <2>1. Counted(c) /\ ~raced
    BY <1>5 DEF DistilIInv
  <2>2. CASE phase[p] = "sweep"
    <3>1. \A q \in Procs : phase'[q] # "sweep"
      BY <1>2, <2>1, <2>2, OneSweeps
    <3>2. Fits(queue[c], c, aborted + 1)
      BY <2>1, <2>2 DEF Counted
    <3>3. aborted \in Nat /\ distilled[c] \in Nat /\ judged[c] \in Nat /\ aborted' = aborted + 1
      BY <2>2 DEF DistilIInv, TypeOK
    <3> QED
      BY <2>1, <3>1, <3>2, <3>3, DistilAssumption DEF Counted, Fits
  <2>3. CASE phase[p] # "sweep"
    <3>1. aborted' = aborted
      BY <2>3
    <3>2. \A q \in Procs : phase'[q] = "sweep" <=> phase[q] = "sweep"
      BY <2>3 DEF DistilIInv, TypeOK
    <3>3. \A q \in Procs : q # p => todo'[q] = todo[q] /\ survivors'[q] = survivors[q]
      BY DEF DistilIInv, TypeOK
    <3> QED
      BY <1>2, <2>1, <3>1, <3>2, <3>3 DEF Counted, Fits
  <2> QED
    BY <2>2, <2>3
<1> QED
  BY <1>1, <1>3, <1>4, <1>5 DEF DistilIInv

LEMMA SweepThrowsIInv ==
    ASSUME DistilIInv, LockIInv', NEW p \in Procs, SweepThrows(p) PROVE DistilIInv'
<1>1. /\ phase[p] = "sweep" /\ phase' = [phase EXCEPT ![p] = "done"]
      /\ aborted' = aborted + 1
      /\ todo' = [todo EXCEPT ![p] = {}]
      /\ survivors' = [survivors EXCEPT ![p] = Empty]
      /\ UNCHANGED <<queue, parked, judged, distilled, launches>>
  BY DEF SweepThrows
<1>2. (~raced' => ~raced) /\ \A q \in Procs : q # p /\ Holds(q) => Holds(q)'
  BY DEF SweepThrows, lockVars, Holds
<1> QED
  BY <1>1, <1>2, AbortIInv

LEMMA CrashIInv ==
    ASSUME DistilIInv, LockIInv', NEW p \in Procs, Crash(p) PROVE DistilIInv'
<1>1. raced' = raced /\ at' = at /\ alive' = alive \ {p}
  BY DEF Crash, Die, FailClosed
<1> QED
  BY <1>1, AbortIInv DEF Crash, Holds

-----------------------------------------------------------------------------
(* The sweep.                                                              *)

\* The snapshot is of the queue, and nobody else sweeps; what it lacks will go, and
\* fits as nothing.
LEMMA ReadPendingIInv ==
    ASSUME DistilIInv, LockIInv', NEW p \in Procs, ReadPending(p) PROVE DistilIInv'
<1>0. PICK seen \in SUBSET Queued :
         /\ todo' = [todo EXCEPT ![p] = seen]
         /\ survivors' = [survivors EXCEPT ![p] =
                             [c \in Critiques |-> IF c \in seen THEN queue[c] ELSE None]]
  BY DEF ReadPending
<1> DEFINE kept == [c \in Critiques |-> IF c \in seen THEN queue[c] ELSE None]
<1>1. /\ phase' = [phase EXCEPT ![p] = "sweep"] /\ Holds(p) /\ phase[p] = "launched"
      /\ todo' = [todo EXCEPT ![p] = seen] /\ survivors' = [survivors EXCEPT ![p] = kept]
      /\ UNCHANGED <<dir, owner, at, saw, alive, maker, raced, queue,
                     parked, judged, distilled, aborted, launches>>
  BY <1>0 DEF ReadPending, lockVars, history
<1>2. /\ seen \subseteq Critiques /\ kept \in Queue
      /\ \A c \in seen : queue[c] # None
      /\ \A c \in Critiques : kept[c] = IF c \in seen THEN queue[c] ELSE None
  BY DEF Queued, Queue, DistilIInv, TypeOK
<1> HIDE DEF kept
<1>3. TypeOK'
  BY <1>1, <1>2 DEF DistilIInv, TypeOK, LockIInv
<1>4. \A q \in Procs : phase'[q] = "sweep" => Holds(q)'
  BY <1>1 DEF DistilIInv, TypeOK, Holds
<1>5. /\ todo'[p] = seen /\ \A q \in Procs \ {p} : todo'[q] = todo[q]
      /\ survivors'[p] = kept /\ \A q \in Procs \ {p} : survivors'[q] = survivors[q]
      /\ phase'[p] = "sweep" /\ \A q \in Procs \ {p} : phase'[q] = phase[q]
  BY <1>1 DEF DistilIInv, TypeOK
<1>6. ASSUME NEW c \in Critiques PROVE Placed(c)'
  <2>1. Placed(c) BY DEF DistilIInv
  <2> QED BY <1>1, <1>2, <1>5, <2>1 DEF Placed
<1>7. ASSUME ~raced', NEW c \in Critiques PROVE Counted(c)'
  <2>1. Counted(c) /\ ~raced
    BY <1>1, <1>7 DEF DistilIInv
  <2>2. \A q \in Procs : phase[q] # "sweep"
    BY <1>1, <2>1, HolderSweeps
  <2>3. Fits(queue[c], c, aborted)
    BY <2>1, <2>2 DEF Counted
  <2>4. /\ aborted \in Nat /\ distilled[c] \in Nat /\ judged[c] \in Nat
        /\ queue[c] \in Entry \cup {None}
    BY DEF DistilIInv, TypeOK, Queue
  <2>5. Fits(queue[c], c, aborted + 1)
    BY <2>3, <2>4 DEF Fits, Entry
  <2>6. \A q \in Procs : phase'[q] = "sweep" => q = p
    BY <1>1, <2>2 DEF DistilIInv, TypeOK
  <2>7. /\ phase'[p] = "sweep" /\ survivors'[p][c] = IF c \in seen THEN queue[c] ELSE None
        /\ todo'[p] = seen
    BY <1>2, <1>5
  <2> QED
    BY <1>1, <2>1, <2>3, <2>5, <2>6, <2>7 DEF Counted, Fits
<1> QED
  BY <1>3, <1>4, <1>6, <1>7 DEF DistilIInv

\* An adjudication: the entry goes, or it stays with the adjudication counted
\* in it and its counters within their budgets, and gave no rule.
LEMMA JudgeIInv ==
    ASSUME DistilIInv, LockIInv', NEW p \in Procs, NEW c \in Critiques,
           NEW next \in Entry \cup {None}, Judge(p, c, next),
           \/ distilled' = distilled
           \/ next = None /\ distilled' = [distilled EXCEPT ![c] = @ + 1],
           next # None /\ ~raced =>
             /\ next.hooks_elapsed = survivors[p][c].hooks_elapsed + 1
             /\ next.hooks_elapsed < TTL_HOOKS + next.distil_attempts
             /\ next.distil_attempts < MAX_DISTIL_ATTEMPTS
    PROVE  DistilIInv'
<1>1. /\ Holds(p) /\ phase[p] = "sweep" /\ c \in todo[p]
      /\ todo' = [todo EXCEPT ![p] = @ \ {c}]
      /\ survivors' = [survivors EXCEPT ![p][c] = next]
      /\ judged' = [judged EXCEPT ![c] = @ + 1]
      /\ UNCHANGED <<dir, owner, at, saw, alive, maker, raced, queue, phase,
                     parked, aborted, launches>>
  BY DEF Judge, lockVars
<1>2. TypeOK'
  BY <1>1 DEF DistilIInv, TypeOK, LockIInv, Queue
<1>3. \A q \in Procs : phase'[q] = "sweep" => Holds(q)'
  BY <1>1 DEF DistilIInv, Holds
<1>4. /\ \A q \in Procs : q # p => todo'[q] = todo[q] /\ survivors'[q] = survivors[q]
      /\ todo'[p] = todo[p] \ {c} /\ survivors'[p][c] = next
      /\ \A d \in Critiques : d # c => /\ survivors'[p][d] = survivors[p][d]
                                       /\ judged'[d] = judged[d]
                                       /\ distilled'[d] = distilled[d]
      /\ judged'[c] = judged[c] + 1
  BY <1>1 DEF DistilIInv, TypeOK, Queue
<1>5. c \in parked /\ survivors[p][c] # None
  BY <1>1 DEF DistilIInv, Placed
<1>6. ASSUME NEW d \in Critiques PROVE Placed(d)'
  <2>1. Placed(d)
    BY DEF DistilIInv
  <2>2. CASE d = c
    BY <1>1, <1>4, <1>5, <2>1, <2>2 DEF Placed
  <2>3. CASE d # c
    BY <1>1, <1>4, <2>1, <2>3 DEF Placed
  <2> QED
    BY <2>2, <2>3
<1>7. ASSUME ~raced', NEW d \in Critiques PROVE Counted(d)'
  <2>1. Counted(d) /\ ~raced
    BY <1>1, <1>7 DEF DistilIInv
  <2>2. \A q \in Procs : phase'[q] = "sweep" => q = p
    BY <1>1, <2>1, OneSweeps
  <2>3. CASE d # c
    BY <1>1, <1>4, <2>1, <2>2, <2>3 DEF Counted, Fits
  <2>4. CASE d = c
    <3>1. /\ Fits(survivors[p][c], c, aborted) /\ queue[c] = survivors[p][c]
      BY <1>1, <2>1, <2>4 DEF Counted
    <3>2. /\ aborted \in Nat /\ distilled[c] \in Nat /\ judged[c] \in Nat
          /\ survivors[p][c] \in Entry
      BY <1>5 DEF DistilIInv, TypeOK, Queue
    <3>3. /\ distilled[c] <= aborted
          /\ judged[c] <= aborted + survivors[p][c].hooks_elapsed
          /\ survivors[p][c].hooks_elapsed < TTL_HOOKS + survivors[p][c].distil_attempts
          /\ survivors[p][c].distil_attempts < MAX_DISTIL_ATTEMPTS
      BY <1>5, <3>1 DEF Fits
    <3>4. distilled'[c] <= aborted + 1 /\ (next # None => distilled'[c] = distilled[c])
      BY <3>2, <3>3 DEF DistilIInv, TypeOK
    <3>5. judged'[c] <= aborted + 1 + survivors[p][c].hooks_elapsed
      BY <1>4, <3>2, <3>3 DEF Entry
    <3>6. Fits(queue[c], c, aborted + 1)'
      BY <1>1, <3>1, <3>3, <3>4, <3>5 DEF Fits
    <3>7. Fits(next, c, aborted)'
      BY <1>1, <2>1, <3>2, <3>3, <3>4, <3>5 DEF Fits, Entry
    <3>8. judged'[c] <= TTL_HOOKS + MAX_DISTIL_ATTEMPTS - 1 + aborted
      BY <3>2, <3>3, <3>5, <1>4, DistilAssumption DEF Entry
    <3>9. phase'[p] = "sweep"
      BY <1>1
    <3> QED
      BY <1>1, <1>4, <2>2, <2>4, <3>2, <3>4, <3>6, <3>7, <3>8, <3>9 DEF Counted
  <2> QED
    BY <2>3, <2>4
<1> QED
  BY <1>2, <1>3, <1>6, <1>7 DEF DistilIInv

LEMMA LoopIInv ==
    ASSUME DistilIInv, LockIInv', NEW p \in Procs, NEW c \in todo[p],
           Distil(p, c) \/ DistilFails(p, c) \/ Keep(p, c) \/ Expire(p, c)
    PROVE  DistilIInv'
<1>1. c \in Critiques /\ Holds(p) /\ phase[p] = "sweep"
  BY DEF DistilIInv, TypeOK, Distil, DistilFails, Keep, Expire, Judge
<1>2. survivors[p][c] \in Entry
  BY <1>1 DEF DistilIInv, Placed, TypeOK, Queue
<1> DEFINE e == survivors[p][c]
           attempts == e.distil_attempts + 1
           retry == [Bumped(p, c) EXCEPT !.distil_attempts = attempts]
<1>3. /\ e.hooks_elapsed \in Nat /\ e.distil_attempts \in Nat
      /\ Bumped(p, c) = [hooks_elapsed |-> e.hooks_elapsed + 1,
                         distil_attempts |-> e.distil_attempts]
      /\ retry = [hooks_elapsed |-> e.hooks_elapsed + 1, distil_attempts |-> attempts]
  <2>1. e \in [hooks_elapsed : Nat, distil_attempts : Nat]
    BY <1>2 DEF Entry
  <2>2. Bumped(p, c) = [e EXCEPT !.hooks_elapsed = e.hooks_elapsed + 1]
    BY DEF Bumped
  <2> HIDE DEF e
  <2>3. Bumped(p, c) = [hooks_elapsed |-> e.hooks_elapsed + 1,
                        distil_attempts |-> e.distil_attempts]
    BY <2>1, <2>2
  <2> QED
    BY <2>1, <2>3
<1>4. Bumped(p, c) \in Entry /\ retry \in Entry
  BY <1>3 DEF Entry
<1>5. ~raced => /\ e.hooks_elapsed < TTL_HOOKS + e.distil_attempts
                /\ e.distil_attempts < MAX_DISTIL_ATTEMPTS
  BY <1>1, <1>2, DistilAssumption DEF DistilIInv, Counted, Fits, Entry
<1>6. CASE Distil(p, c) \/ Expire(p, c)
  BY <1>1, <1>6, JudgeIInv DEF Distil, Expire
<1>7. CASE Keep(p, c)
  BY <1>1, <1>3, <1>4, <1>5, <1>7, JudgeIInv, DistilAssumption DEF Keep
<1>8. CASE DistilFails(p, c)
  <2> DEFINE next == IF attempts >= MAX_DISTIL_ATTEMPTS THEN None ELSE retry
  <2>1. Judge(p, c, next) /\ distilled' = distilled
    BY <1>8 DEF DistilFails
  <2>2. next \in Entry \cup {None}
    BY <1>4
  <2>3. next # None /\ ~raced =>
          /\ next.hooks_elapsed = e.hooks_elapsed + 1
          /\ next.hooks_elapsed < TTL_HOOKS + next.distil_attempts
          /\ next.distil_attempts < MAX_DISTIL_ATTEMPTS
    BY <1>3, <1>5, DistilAssumption
  <2> QED
    BY <1>1, <2>1, <2>2, <2>3, JudgeIInv
<1> QED
  BY <1>6, <1>7, <1>8

\* What is written back fits, and the sweep is over.
LEMMA WritePendingIInv ==
    ASSUME DistilIInv, LockIInv', NEW p \in Procs, WritePending(p) PROVE DistilIInv'
<1>1. /\ phase[p] = "sweep" /\ phase' = [phase EXCEPT ![p] = "done"]
      /\ queue' = survivors[p] /\ survivors' = [survivors EXCEPT ![p] = Empty]
      /\ UNCHANGED <<dir, owner, at, saw, alive, maker, raced, todo,
                     parked, judged, distilled, aborted, launches>>
      /\ todo[p] = {}
  BY DEF WritePending, lockVars, history
<1>2. TypeOK'
  BY <1>1 DEF DistilIInv, TypeOK, LockIInv, Queue, Empty
<1>3. \A q \in Procs : phase'[q] = "sweep" => Holds(q)' /\ phase[q] = "sweep" /\ q # p
  BY <1>1 DEF DistilIInv, TypeOK, Holds
<1>4. ASSUME NEW c \in Critiques PROVE Placed(c)'
  BY <1>1 DEF DistilIInv, TypeOK, Placed, Empty
<1>5. ASSUME ~raced', NEW c \in Critiques PROVE Counted(c)'
  <2>1. Counted(c) /\ ~raced
    BY <1>1, <1>5 DEF DistilIInv
  <2>2. \A q \in Procs : phase'[q] # "sweep"
    BY <1>1, <1>3, <2>1, OneSweeps
  <2>3. Fits(survivors[p][c], c, aborted)
    BY <1>1, <2>1 DEF Counted
  <2>4. Fits(queue[c], c, aborted)'
    BY <1>1, <2>3 DEF Fits
  <2> QED
    BY <1>1, <2>1, <2>2, <2>4 DEF Counted
<1> QED
  BY <1>2, <1>3, <1>4, <1>5 DEF DistilIInv

-----------------------------------------------------------------------------
LEMMA NextDistilIInv == DistilIInv /\ [Next]_vars => DistilIInv'
<1> SUFFICES ASSUME DistilIInv, [Next]_vars PROVE DistilIInv'
  OBVIOUS
<1>1. LockIInv'
  BY LockIInvNext DEF DistilIInv
<1>2. CASE UNCHANGED vars
  BY <1>1, <1>2 DEF vars, lockVars, worker, history, DistilIInv, TypeOK, LockIInv,
     LockTypeOK, Holds, Placed, Counted, Fits
<1>3. CASE Hook
  BY <1>1, <1>3, EnqueueIInv, LaunchIInv DEF Hook
<1>4. ASSUME NEW p \in Procs, TakeLock(p) \/ Unlock(p) \/ Crash(p) PROVE DistilIInv'
  BY <1>1, <1>4, TakeLockIInv, UnlockIInv, CrashIInv
<1>5. ASSUME NEW p \in Procs, Sweep(p) PROVE DistilIInv'
  BY <1>1, <1>5, ReadPendingIInv, LoopIInv, WritePendingIInv, SweepThrowsIInv DEF Sweep
<1> QED
  BY <1>2, <1>3, <1>4, <1>5 DEF Next

-----------------------------------------------------------------------------
(* What holds of the sweeps.                                               *)

\* The inductive invariant: who sweeps has the lock, every critique is somewhere,
\* and the attempts and rules of each are counted in the queue, in the copy of the
\* one worker that sweeps, or in the sweeps that were cut off.
THEOREM DistilInvariant == Spec => []DistilIInv
  BY InitDistilIInv, NextDistilIInv, PTL DEF Spec

\* Every variable keeps its type, whatever throws and whoever dies.
THEOREM DistilTypeCorrect == Spec => []TypeOK
<1>1. DistilIInv => TypeOK
  BY DEF DistilIInv
<1> QED
  BY <1>1, DistilInvariant, PTL

\* Outside the races of the lock a critique gives one rule, and at most one more
\* for each sweep that was cut off.  (runDistilWorker)
THEOREM SweepsAreSound == Spec => []DistilledOnce
<1>1. DistilIInv => DistilledOnce
  BY DEF DistilIInv, Counted, DistilledOnce
<1> QED
  BY <1>1, DistilInvariant, PTL

\* Outside the races of the lock a critique is adjudicated once for each sweep of
\* its time to live, for each try of its writer that fails and for each sweep that
\* was cut off, and no more, for every time to live and budget.  (runDistilWorker)
THEOREM SweepsAreBounded == Spec => []SweptBounded
<1>1. DistilIInv => SweptBounded
  BY DEF DistilIInv, Counted, SweptBounded
<1> QED
  BY <1>1, DistilInvariant, PTL

-----------------------------------------------------------------------------
(* What the sweeps lack.                                                   *)

\* A step that judges nothing, or one critique by a worker that has it to judge:
\* what the others have still to judge stays.
LEMMA JudgeAwaited ==
    ASSUME TypeOK, Awaited, NEW p \in Procs, NEW c \in todo[p], NEW next,
           Judge(p, c, next)
    PROVE  Awaited'
<1>1. /\ judged' = [judged EXCEPT ![c] = @ + 1] /\ c \in Critiques
      /\ todo' = [todo EXCEPT ![p] = @ \ {c}]
      /\ UNCHANGED <<queue, phase, parked>>
  BY DEF Judge, TypeOK
<1>2. judged[c] \in Nat /\ judged'[c] = judged[c] + 1
  BY <1>1 DEF TypeOK
<1>3. ASSUME NEW d \in parked, judged'[d] = 0
      PROVE  queue[d] # None /\ \A q \in Procs : phase[q] = "sweep" => d \in todo'[q]
  <2>1. d # c /\ judged[d] = 0
    BY <1>1, <1>2, <1>3 DEF TypeOK
  <2> QED
    BY <1>1, <2>1 DEF Awaited, TypeOK
<1> QED
  BY <1>1, <1>3 DEF Awaited

LEMMA NextAwaited ==
    ASSUME TypeOK, Awaited, [Next]_vars, WholeReads, NoLateAppend
    PROVE  Awaited'
<1>1. CASE UNCHANGED vars
  BY <1>1 DEF vars, worker, history, Awaited
<1>2. ASSUME NEW c \in Critiques, Enqueue(c) PROVE Awaited'
  <2>1. /\ c \notin parked /\ parked' = parked \cup {c} /\ parked' # parked
        /\ queue' = [queue EXCEPT ![c] = [hooks_elapsed |-> 0, distil_attempts |-> 0]]
        /\ UNCHANGED <<phase, todo, judged>>
    BY <1>2 DEF Enqueue, worker
  <2>2. \A p \in Procs : phase'[p] # "sweep"
    BY <2>1 DEF NoLateAppend
  <2>3. [hooks_elapsed |-> 0, distil_attempts |-> 0] # None
    BY DistilAssumption
  <2> QED
    BY <2>1, <2>2, <2>3 DEF Awaited, TypeOK, Queue
<1>3. ASSUME NEW p \in Procs, Launch(p) \/ TakeLock(p) \/ Unlock(p) PROVE Awaited'
  <2>1. /\ UNCHANGED <<queue, todo, parked, judged>>
        /\ \E ph \in {"none", "launched"} : phase' = [phase EXCEPT ![p] = ph]
    BY <1>3 DEF Launch, TakeLock, Unlock, history
  <2> QED
    BY <2>1 DEF Awaited, TypeOK
<1>4. ASSUME NEW p \in Procs, SweepThrows(p) \/ Crash(p) PROVE Awaited'
  <2>1. /\ UNCHANGED <<queue, parked, judged>> /\ todo' = [todo EXCEPT ![p] = {}]
        /\ \E ph \in {"none", "done"} : phase' = [phase EXCEPT ![p] = ph]
    BY <1>4 DEF SweepThrows, Crash
  <2> QED
    BY <2>1 DEF Awaited, TypeOK
<1>5. ASSUME NEW p \in Procs, ReadPending(p) PROVE Awaited'
  <2>1. /\ UNCHANGED <<queue, parked, judged>>
        /\ phase[p] = "launched" /\ phase' = [phase EXCEPT ![p] = "sweep"]
        /\ \A q \in Procs \ {p} : todo'[q] = todo[q]
    BY <1>5 DEF ReadPending, history, TypeOK
  <2>2. todo'[p] = Queued
    BY <2>1 DEF WholeReads, TypeOK
  <2> QED
    BY <2>1, <2>2 DEF Awaited, TypeOK, Queued
<1>6. ASSUME NEW p \in Procs, WritePending(p) PROVE Awaited'
  <2>1. /\ UNCHANGED <<parked, judged>> /\ phase[p] = "sweep" /\ todo[p] = {}
    BY <1>6 DEF WritePending, history
  <2>2. \A c \in parked : judged[c] # 0
    BY <2>1 DEF Awaited
  <2> QED
    BY <2>1, <2>2 DEF Awaited
<1>7. ASSUME NEW p \in Procs, NEW c \in todo[p],
             Distil(p, c) \/ DistilFails(p, c) \/ Keep(p, c) \/ Expire(p, c)
      PROVE  Awaited'
  BY <1>7, JudgeAwaited DEF Distil, DistilFails, Keep, Expire
<1> QED
  BY <1>1, <1>2, <1>3, <1>4, <1>5, <1>6, <1>7 DEF Next, Hook, Sweep

\* Every parked critique is swept as long as no hook appends during a sweep and
\* every sweep reads the whole queue, whatever else happens: workers that die,
\* throw or race for the lock.  So a critique is lost in two ways only: by the
\* append of a hook between readPending and writePending, which the run that
\* finds ParkedIsSwept violated shows, and by a file or a line that readPending
\* could not read and writePending does not write back.
\* (pending-queue.ts:45-69)
THEOREM CalmIsSwept == CalmSpec => []ParkedIsSwept
<1>1. Init => Awaited
  BY DEF Init, Awaited
<1>2. TypeOK /\ Awaited /\ [Next /\ WholeReads /\ NoLateAppend]_vars => Awaited'
  <2>1. UNCHANGED vars => WholeReads /\ NoLateAppend
    BY DEF vars, worker, history, WholeReads, NoLateAppend
  <2> QED
    BY <2>1, NextAwaited
<1>3. [Next /\ WholeReads /\ NoLateAppend]_vars => [Next]_vars
  OBVIOUS
<1>4. Awaited => ParkedIsSwept
  BY DEF Awaited, ParkedIsSwept
<1>5. CalmSpec => Spec
  BY <1>3, PTL DEF CalmSpec, Spec
<1> QED
  BY <1>1, <1>2, <1>4, <1>5, DistilTypeCorrect, PTL DEF CalmSpec
=============================================================================
