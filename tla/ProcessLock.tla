----------------------------- MODULE ProcessLock -----------------------------
(***************************************************************************)
(* The lock between processes (utils/process-lock.ts): a directory whose   *)
(* creation is atomic, an owner.json inside it that says who made it, and  *)
(* the recovery of a lock whose owner died.  The daemon and the distil     *)
(* worker are singletons by it.                                            *)
(*                                                                         *)
(* A process is a pid; a dead one stays dead (the code notes the reuse of  *)
(* pids as a known limitation, and it is not modelled).  Every system call *)
(* is a step of its own.                                                   *)
(***************************************************************************)
CONSTANTS
    Procs,       \* pids
    None         \* no process, no file

ASSUME ProcAssumption == None \notin Procs

VARIABLES
    dir,         \* does the lock directory exist?
    owner,       \* the pid in owner.json, None without the file
    at,          \* where each process is in acquireLock
    saw,         \* the owner each process judged stale, None for no owner.json
    alive,       \* the processes that run
    maker,       \* history: who made the directory
    raced        \* history: a directory was removed that was not the one judged

lockVars == <<dir, owner, at, saw, alive, maker, raced>>

At == {"out", "check", "remove", "remake", "own", "held"}

LockTypeOK ==
    /\ dir \in BOOLEAN
    /\ owner \in Procs \cup {None}
    /\ at \in [Procs -> At]
    /\ saw \in [Procs -> Procs \cup {None}]
    /\ alive \in SUBSET Procs
    /\ maker \in Procs \cup {None}
    /\ raced \in BOOLEAN
    /\ dir = (maker # None)        \* a directory has a maker
    /\ owner # None => dir         \* owner.json is a file inside it

LockInit ==
    /\ dir = FALSE /\ owner = None /\ maker = None
    /\ at = [p \in Procs |-> "out"]
    /\ saw = [p \in Procs |-> None]
    /\ alive = Procs
    /\ raced = FALSE

-----------------------------------------------------------------------------
Step(p, from, to) ==
    /\ p \in alive
    /\ at[p] = from
    /\ at' = [at EXCEPT ![p] = to]

MakeDir(p)  == dir' = TRUE /\ owner' = None /\ maker' = p

\* Mutant: removing the directory leaves owner.json.
RemoveDirOnly == dir' = FALSE /\ maker' = None /\ owner' = owner

RemoveDir   == dir' = FALSE /\ owner' = None /\ maker' = None

\* mkdirSync: one process makes the directory, the others get EEXIST.
Mkdir(p) ==
    /\ \/ ~dir /\ Step(p, "out", "own") /\ MakeDir(p)
       \/ dir /\ Step(p, "out", "check") /\ UNCHANGED <<dir, owner, maker>>
    /\ UNCHANGED <<saw, alive, raced>>

\* Mutant: an owner.json is stale whoever wrote it.
CheckIgnoresLife(p) ==
    /\ Step(p, "check", "remove")
    /\ saw' = [saw EXCEPT ![p] = owner]
    /\ UNCHANGED <<dir, owner, alive, maker, raced>>

\* Mutant: a directory without owner.json is a lock somebody holds.
CheckNeedsOwner(p) ==
    /\ \/ /\ owner \in Procs \ alive
          /\ Step(p, "check", "remove")
          /\ saw' = [saw EXCEPT ![p] = owner]
       \/ owner \notin Procs \ alive /\ Step(p, "check", "out") /\ UNCHANGED saw
    /\ UNCHANGED <<dir, owner, alive, maker, raced>>

\* After EEXIST: a live owner means LockHeldError.  A dead one, or no
\* owner.json at all, means the lock is stale.
Check(p) ==
    /\ \/ owner \in alive /\ Step(p, "check", "out") /\ UNCHANGED saw
       \/ /\ owner \notin alive
          /\ Step(p, "check", "remove")
          /\ saw' = [saw EXCEPT ![p] = owner]
    /\ UNCHANGED <<dir, owner, alive, maker, raced>>

\* rmSync of what is there by now: not the lock that was judged when its maker
\* had not written owner.json yet, or when it changed hands since.
Remove(p) ==
    /\ Step(p, "remove", "remake")
    /\ RemoveDir
    /\ raced' = (raced \/ (maker \in alive /\ (saw[p] = None \/ saw[p] # owner)))
    /\ saw' = [saw EXCEPT ![p] = None]
    /\ UNCHANGED alive

\* Mutant: who removed a stale lock takes the directory that is there now.
RemakeAnyway(p) ==
    /\ Step(p, "remake", "own") /\ MakeDir(p)
    /\ UNCHANGED <<saw, alive, raced>>

\* The second mkdirSync throws if another process was faster.
Remake(p) ==
    /\ \/ ~dir /\ Step(p, "remake", "own") /\ MakeDir(p)
       \/ dir /\ Step(p, "remake", "out") /\ UNCHANGED <<dir, owner, maker>>
    /\ UNCHANGED <<saw, alive, raced>>

\* atomicWrite of owner.json, which also makes the directory when it is gone.
WriteOwner(p) ==
    /\ Step(p, "own", "held")
    /\ dir' = TRUE /\ owner' = p
    /\ maker' = IF dir THEN maker ELSE p
    /\ UNCHANGED <<saw, alive, raced>>

\* releaseLock removes the directory, whoever made it.
Release(p) ==
    /\ Step(p, "held", "out")
    /\ RemoveDir
    /\ UNCHANGED <<saw, alive, raced>>

\* The heartbeat finds no directory twice: the process exits, fail-closed.
FailClosed(p) ==
    /\ p \in alive /\ at[p] = "held" /\ ~dir
    /\ alive' = alive \ {p}
    /\ UNCHANGED <<dir, owner, at, saw, maker, raced>>

\* A process dies anywhere.
Die(p) ==
    /\ p \in alive
    /\ alive' = alive \ {p}
    /\ UNCHANGED <<dir, owner, at, saw, maker, raced>>

Acquire(p) == Mkdir(p) \/ Check(p) \/ Remove(p) \/ Remake(p) \/ WriteOwner(p)

LockNext == \E p \in Procs : Acquire(p) \/ Release(p) \/ FailClosed(p) \/ Die(p)

LockSpec == LockInit /\ [][LockNext]_lockVars

-----------------------------------------------------------------------------
(* Properties.                                                             *)

Holds(p) == p \in alive /\ at[p] = "held"

\* A holder has the lock: the directory is its own and says so, hence no other
\* process holds it too.  This fails only after one of the two races of the
\* stale path (process-lock.ts:103): a directory removed before its maker wrote
\* owner.json, or removed on the strength of an owner.json that is gone.
HolderOwnsLock ==
    ~raced => \A p \in Procs : Holds(p) => dir /\ maker = p /\ owner = p

\* The lock is a mutex until one of the two races: then all that is promised is
\* that it is not taken for one any more.
Holders == IF raced THEN {} ELSE {p \in Procs : Holds(p)}

Abstract == INSTANCE Mutex WITH holders <- Holders

\* Who acquires the lock finds it free: the steps of mkdir, judging, removing and
\* writing owner.json by any number of processes, dying anywhere, make up the
\* one step of a mutex.  (acquireLock, releaseLock)
ImplementsMutex == Abstract!Spec

\* Inductive: what a process that is making the lock needs to end up owning it,
\* and what a process about to remove one knows of the owner it judged.
LockIInv ==
    /\ LockTypeOK
    /\ \A p \in Procs : at[p] = "remove" => saw[p] \notin alive
    /\ ~raced =>
         /\ owner # None => owner = maker
         /\ \A p \in alive : at[p] \in {"own", "held"} => maker = p
         /\ \A p \in alive : at[p] = "held" => owner = p
=============================================================================
