------------------------- MODULE ProcessLockProofs -------------------------
(***************************************************************************)
(* The lock excludes for any number of processes, outside the two races.   *)
(***************************************************************************)
EXTENDS ProcessLock, TLAPS

\* No process has the lock, and none was judged stale.
LEMMA InitLockIInv == LockInit => LockIInv
  BY ProcAssumption DEF LockInit, LockIInv, LockTypeOK, At

LEMMA MkdirIInv ==
    ASSUME LockIInv, NEW p \in Procs, Mkdir(p) PROVE LockIInv'
  BY ProcAssumption DEF LockIInv, LockTypeOK, At, Mkdir, Step, MakeDir

LEMMA CheckIInv ==
    ASSUME LockIInv, NEW p \in Procs, Check(p) PROVE LockIInv'
  BY ProcAssumption DEF LockIInv, LockTypeOK, At, Check, Step

LEMMA RemoveIInv ==
    ASSUME LockIInv, NEW p \in Procs, Remove(p) PROVE LockIInv'
<1>1. LockTypeOK'
  BY ProcAssumption DEF LockIInv, LockTypeOK, At, Remove, Step, RemoveDir
<1>2. saw[p] \notin alive
  BY DEF LockIInv, Remove, Step
<1>3. ~raced' => maker \notin alive
  BY <1>2 DEF LockIInv, LockTypeOK, Remove
<1>4. ~raced' => \A q \in alive : at'[q] \notin {"own", "held"}
  BY <1>3 DEF LockIInv, LockTypeOK, Remove, Step
<1> QED
  BY <1>1, <1>4 DEF LockIInv, LockTypeOK, Remove, Step, RemoveDir

LEMMA RemakeIInv ==
    ASSUME LockIInv, NEW p \in Procs, Remake(p) PROVE LockIInv'
  BY ProcAssumption DEF LockIInv, LockTypeOK, At, Remake, Step, MakeDir

LEMMA WriteOwnerIInv ==
    ASSUME LockIInv, NEW p \in Procs, WriteOwner(p) PROVE LockIInv'
  BY ProcAssumption DEF LockIInv, LockTypeOK, At, WriteOwner, Step

LEMMA ReleaseIInv ==
    ASSUME LockIInv, NEW p \in Procs, Release(p) PROVE LockIInv'
<1>1. LockTypeOK' /\ \A q \in Procs : at'[q] = "remove" => saw'[q] \notin alive'
  BY ProcAssumption DEF LockIInv, LockTypeOK, At, Release, Step, RemoveDir
<1>2. ~raced' => \A q \in alive : at'[q] \notin {"own", "held"}
  <2>1. ~raced => maker = p
    BY DEF LockIInv, Release, Step
  <2> QED
    BY <2>1 DEF LockIInv, LockTypeOK, Release, Step
<1>3. owner' = None /\ alive' = alive
  BY DEF Release, RemoveDir
<1> QED
  BY <1>1, <1>2, <1>3 DEF LockIInv

LEMMA StopIInv ==
    ASSUME LockIInv, NEW p \in Procs, FailClosed(p) \/ Die(p) PROVE LockIInv'
<1>1. /\ alive' \subseteq alive
      /\ UNCHANGED <<dir, owner, at, saw, maker, raced>>
  BY DEF FailClosed, Die
<1>2. LockTypeOK'
  BY <1>1 DEF LockIInv, LockTypeOK
<1> QED
  BY <1>1, <1>2 DEF LockIInv, LockTypeOK

\* Every step of every process preserves the inductive invariant.
LEMMA NextLockIInv == LockIInv /\ [LockNext]_lockVars => LockIInv'
<1> SUFFICES ASSUME LockIInv, [LockNext]_lockVars PROVE LockIInv'
  OBVIOUS
<1>1. CASE UNCHANGED lockVars
  BY <1>1 DEF lockVars, LockIInv, LockTypeOK
<1>2. CASE LockNext
  BY <1>2, MkdirIInv, CheckIInv, RemoveIInv, RemakeIInv, WriteOwnerIInv,
     ReleaseIInv, StopIInv DEF LockNext, Acquire
<1> QED
  BY <1>1, <1>2

\* The types hold, and without a race a holder owns the lock alone.
THEOREM LockIsExclusive == LockSpec => [](LockTypeOK /\ HolderOwnsLock)
<1>1. LockInit => LockIInv
  BY InitLockIInv
<1>2. LockIInv /\ [LockNext]_lockVars => LockIInv'
  BY NextLockIInv
<1>3. LockIInv => LockTypeOK /\ HolderOwnsLock
  BY ProcAssumption DEF LockIInv, LockTypeOK, HolderOwnsLock, Holds
<1> QED
  BY <1>1, <1>2, <1>3, PTL DEF LockSpec

-----------------------------------------------------------------------------
(* The refinement of Mutex.                                                *)

\* Before a race there is at most one holder, and the directory is its own.
LEMMA OneHolder ==
    ASSUME LockIInv PROVE \A p \in Holders : Holders = {p} /\ maker = p
  BY ProcAssumption DEF LockIInv, Holders, Holds

\* A step that leaves every holder in its place is a stutter of the mutex, or
\* its release when it ends the promise.
LEMMA QuietStep ==
    ASSUME LockIInv, raced' \in BOOLEAN, raced => raced',
           ~raced' => Holders' = Holders
    PROVE  [Abstract!Next]_Holders
<1>1. CASE ~raced'
  BY <1>1 DEF LockIInv
<1>2. CASE raced' /\ Holders = {}
  BY <1>2 DEF Holders
<1>3. CASE raced' /\ Holders # {}
  <2>1. PICK p \in Holders : Holders = {p}
    BY <1>3, OneHolder
  <2>2. p \in Procs /\ Holders' = {}
    BY <1>3, <2>1 DEF Holders
  <2> QED
    BY <2>1, <2>2 DEF Abstract!Next, Abstract!Leave
<1> QED
  BY <1>1, <1>2, <1>3

\* The write of owner.json is the acquisition: nobody holds the lock then.
LEMMA WriteOwnerEnters ==
    ASSUME LockIInv, NEW p \in Procs, WriteOwner(p)
    PROVE  [Abstract!Next]_Holders
<1>1. CASE raced
  BY <1>1 DEF WriteOwner, Holders
<1>2. CASE ~raced
  <2>1. ~raced' /\ alive' = alive /\ p \in alive /\ at[p] = "own"
    BY <1>2 DEF WriteOwner, Step
  <2>2. maker = p
    BY <1>2, <2>1 DEF LockIInv
  <2>3. Holders = {}
    BY <2>1, <2>2, OneHolder DEF Holders, Holds
  <2>4. Holders' = {p}
    BY <1>2, <2>1, <2>3 DEF Holders, Holds, WriteOwner, Step, LockIInv, LockTypeOK
  <2> QED
    BY <2>3, <2>4 DEF Abstract!Next, Abstract!Enter, Abstract!Free
<1> QED
  BY <1>1, <1>2

\* releaseLock, and the end of a process, give the lock back if it was theirs.
LEMMA LeavingStep ==
    ASSUME LockIInv, NEW p \in Procs, Release(p) \/ FailClosed(p) \/ Die(p)
    PROVE  [Abstract!Next]_Holders
<1>1. raced' = raced
  BY DEF Release, FailClosed, Die
<1>2. CASE Holds(p) /\ ~raced
  <2>1. Holders = {p}
    BY <1>2, OneHolder DEF Holders
  <2>2. Holders' = {}
    BY <1>1, <1>2, <2>1 DEF Holders, Holds, Release, FailClosed, Die, Step, LockIInv, LockTypeOK
  <2> QED
    BY <2>1, <2>2 DEF Abstract!Next, Abstract!Leave
<1>3. CASE ~(Holds(p) /\ ~raced)
  <2>1. Holders' = Holders
    BY <1>1, <1>3 DEF Holders, Holds, Release, FailClosed, Die, Step, LockIInv, LockTypeOK
  <2> QED
    BY <2>1
<1> QED
  BY <1>2, <1>3

\* Every step of the lock is a step of the mutex, or none.
LEMMA StepRefines == LockIInv /\ [LockNext]_lockVars => [Abstract!Next]_Holders
<1> SUFFICES ASSUME LockIInv, [LockNext]_lockVars PROVE [Abstract!Next]_Holders
  OBVIOUS
<1>1. CASE UNCHANGED lockVars
  BY <1>1 DEF lockVars, Holders, Holds
<1>2. ASSUME NEW p \in Procs, Mkdir(p) \/ Check(p) \/ Remove(p) \/ Remake(p)
      PROVE  [Abstract!Next]_Holders
  <2>1. raced' \in BOOLEAN /\ (raced => raced')
    BY <1>2 DEF LockIInv, LockTypeOK, Mkdir, Check, Remove, Remake
  <2>2. alive' = alive /\ \A q \in Procs : at'[q] = "held" <=> at[q] = "held"
    BY <1>2 DEF LockIInv, LockTypeOK, Mkdir, Check, Remove, Remake, Step
  <2>3. ~raced' => Holders' = Holders
    BY <2>1, <2>2 DEF Holders, Holds
  <2> QED
    BY <2>1, <2>3, QuietStep
<1>3. CASE LockNext
  BY <1>2, <1>3, WriteOwnerEnters, LeavingStep DEF LockNext, Acquire
<1> QED
  BY <1>1, <1>3

\* The lock implements the mutex, for any number of processes.
THEOREM LockRefinesMutex == LockSpec => ImplementsMutex
<1>1. LockInit => LockIInv
  BY InitLockIInv
<1>2. LockIInv /\ [LockNext]_lockVars => LockIInv'
  BY NextLockIInv
<1>3. LockInit => Abstract!Init
  BY DEF LockInit, Abstract!Init, Abstract!Free, Holders, Holds
<1>4. LockIInv /\ [LockNext]_lockVars => [Abstract!Next]_Holders
  BY StepRefines
<1> QED
  BY <1>1, <1>2, <1>3, <1>4, PTL DEF LockSpec, ImplementsMutex, Abstract!Spec

-----------------------------------------------------------------------------
(* What a race takes.                                                      *)

\* The live maker of the directory is about to write owner.json, or holds it.
MakerOK == ~raced /\ maker \in alive => at[maker] \in {"own", "held"}

\* A process is about to remove a lock it judged stale, and another one has made the
\* directory that is there now.
Contended ==
    \E p, q \in alive :
        p # q /\ at[p] = "remove" /\ maker = q /\ at[q] \in {"own", "held"}

LEMMA NextMakerOK == LockIInv /\ MakerOK /\ [LockNext]_lockVars => MakerOK'
<1> SUFFICES ASSUME LockIInv, MakerOK, [LockNext]_lockVars PROVE MakerOK'
  OBVIOUS
<1>1. CASE UNCHANGED lockVars
  BY <1>1 DEF lockVars, MakerOK
<1>2. ASSUME NEW p \in Procs, Mkdir(p) \/ Remake(p) PROVE MakerOK'
  BY <1>2 DEF Mkdir, Remake, Step, MakeDir, MakerOK, LockIInv, LockTypeOK
<1>3. ASSUME NEW p \in Procs, Check(p) PROVE MakerOK'
  BY <1>3 DEF Check, Step, MakerOK, LockIInv, LockTypeOK
<1>4. ASSUME NEW p \in Procs, Remove(p) \/ Release(p) PROVE MakerOK'
  BY <1>4, ProcAssumption DEF Remove, Release, RemoveDir, MakerOK, LockIInv, LockTypeOK
<1>5. ASSUME NEW p \in Procs, WriteOwner(p) PROVE MakerOK'
  <2>1. /\ raced' = raced /\ alive' = alive /\ p \in alive /\ at[p] = "own"
        /\ at' = [at EXCEPT ![p] = "held"]
        /\ maker' \in {maker, p}
    BY <1>5 DEF WriteOwner, Step
  <2>2. \A q \in alive : at[q] \in {"own", "held"} => at'[q] \in {"own", "held"}
    BY <2>1 DEF LockIInv, LockTypeOK
  <2> QED
    BY <2>1, <2>2 DEF MakerOK
<1>6. ASSUME NEW p \in Procs, FailClosed(p) \/ Die(p) PROVE MakerOK'
  BY <1>6 DEF FailClosed, Die, MakerOK
<1> QED
  BY <1>1, <1>2, <1>3, <1>4, <1>5, <1>6 DEF LockNext, Acquire

\* The lock is never lost to a process on its own, nor to the dead: the first race
\* takes two live processes, of which one has made the lock and not given it back
\* while the other is between its judgement of a lock and the removal.  Hence
\* everything that is promised before a race holds as long as no process acquires
\* while another is about to remove a stale lock.  (acquireLock)
THEOREM RaceTakesTwo == LockSpec => [][~raced /\ raced' => Contended]_lockVars
<1> DEFINE I == LockIInv /\ MakerOK
<1>1. LockInit => I
  BY InitLockIInv, ProcAssumption DEF LockInit, MakerOK
<1>2. I /\ [LockNext]_lockVars => I'
  BY NextLockIInv, NextMakerOK
<1>3. I /\ [LockNext]_lockVars => [~raced /\ raced' => Contended]_lockVars
  <2> SUFFICES ASSUME I, LockNext, ~raced, raced' PROVE Contended
    BY DEF lockVars
  <2>1. PICK p \in Procs : Remove(p)
    BY DEF LockNext, Acquire, Mkdir, Check, Remake, WriteOwner, Release, FailClosed, Die
  <2>2. p \in alive /\ at[p] = "remove" /\ maker \in alive
    BY <2>1 DEF Remove, Step
  <2>3. at[maker] \in {"own", "held"}
    BY <2>2 DEF MakerOK
  <2> QED
    BY <2>2, <2>3 DEF Contended
<1> HIDE DEF I
<1> QED
  BY <1>1, <1>2, <1>3, PTL DEF LockSpec
=============================================================================
