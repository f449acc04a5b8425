------------------------- MODULE TaskRegistryProofs -------------------------
(***************************************************************************)
(* The task registry, for any number of runs and restarts: types, that the *)
(* lock is the running record, that a terminal is final, and that no paid  *)
(* run is written off; and tasks.json implements a log of the runs.        *)
(***************************************************************************)
EXTENDS TaskRegistry, TLAPS

Costs == {"absent", "null", "number"}
Terminals == Status \ {"running"}

\* Ids are handed out once, and everything there is of a run is of one handed out.
UsedOK ==
    \A t \in Tasks :
        mem[t] # None \/ disk[t] # None \/ child[t] # "none" \/ file[t] # "absent" => t \in used

\* A promise, a handle or a watcher is of a record in memory; a run has a
\* watcher only if this daemon did not start it.
HandlesOK ==
    \A t \in Tasks :
        /\ route[t] # "none" \/ live[t] # "none" \/ t \in watchers => up /\ mem[t] # None
        /\ route[t] # "none" => t \notin watchers
        /\ route[t] = "assembling" => child[t] = "none"
        /\ route[t] = "assembling" /\ mem[t].status = "crashed" => t \in timedOut

\* A process has been there for every handle on one and every SIGKILL timer.
TimersOK == \A t \in Tasks : t \in escalating \/ live[t] = "proc" => child[t] # "none"

\* What was ever written has one running record at most, memory knows every run
\* the disk knows, and terminals on disk are those in memory.
DiskOK ==
    /\ \A t, u \in Tasks : Running(disk[t]) /\ Running(disk[u]) => t = u
    /\ up => \A t \in Tasks :
                disk[t] # None =>
                    /\ mem[t] # None
                    /\ ~Running(disk[t]) =>
                          mem[t].status = disk[t].status /\ mem[t].cost = disk[t].cost

\* A record with a pid has had a process; if it says crashed, and neither the
\* wall clock nor a look that failed did that, the process is gone and left no result.
RecordOK(r, t) ==
    r # None /\ r.pid =>
        /\ child[t] # "none"
        /\ r.status = "crashed" /\ t \notin timedOut \cup missed =>
              child[t] = "exited" /\ file[t] # "complete"

PaidOK == \A t \in Tasks : RecordOK(mem[t], t) /\ RecordOK(disk[t], t)

IInv ==
    /\ TypeOK /\ UsedOK /\ HandlesOK /\ TimersOK /\ DiskOK /\ PaidOK
    /\ LockIsTheRunningTask

\* A write keeps every run and how it ended, unless the file is lost.
LogStep ==
    \/ disk' = NoRecords
    \/ \A t \in Tasks :
          disk[t] # None =>
              /\ disk'[t] # None
              /\ ~Running(disk[t]) =>
                    disk'[t].status = disk[t].status /\ disk'[t].cost = disk[t].cost

-----------------------------------------------------------------------------
LEMMA NoneIsNoRecord == None \notin Record /\ None \notin Tasks
    BY TaskAssumption

LEMMA PatchedIsCost ==
    ASSUME NEW old \in Costs, NEW c \in Costs
    PROVE  Patched(old, c) \in Costs
    BY DEF Patched, Costs

\* What a step makes of the registry in memory, of one run only.
Touches(t) ==
    /\ mem' \in Records /\ mem'[t] # None
    /\ \A u \in Tasks \ {t} : mem'[u] = mem[u]
    /\ disk' \in {disk, mem'}

\* The run stays as it is, or ends, and the lock with it.
EndsOrStays(t) ==
    \/ /\ Running(mem'[t]) <=> Running(mem[t])
       /\ mem'[t].status = mem[t].status /\ mem'[t].cost = mem[t].cost
       /\ activeId' = activeId
    \/ /\ Running(mem[t]) /\ ~Running(mem'[t])
       /\ activeId' = IF activeId = t THEN None ELSE activeId

\* Complete in these terms.
LEMMA CompleteTouches ==
    ASSUME TypeOK, NEW t \in Tasks, mem[t] # None, NEW s \in Terminals, NEW c \in Costs,
           Complete(t, s, c)
    PROVE  /\ Touches(t) /\ EndsOrStays(t)
           /\ mem'[t].pid = mem[t].pid
           /\ mem'[t].status \in {mem[t].status, s}
           /\ mem'[t].status # mem[t].status => Running(mem[t])
           /\ live' \in [Tasks -> {"none", "bare", "proc"}]
           /\ \A u \in Tasks : live'[u] \in {"none", live[u]}
<1>1. mem[t] \in Record BY DEF TypeOK, Records
<1>2. CASE Running(mem[t])
  <2> DEFINE new == [mem[t] EXCEPT !.status = s, !.cost = Patched(mem[t].cost, c)]
  <2>1. Patched(mem[t].cost, c) \in Costs BY <1>1, PatchedIsCost DEF Record, Costs
  <2>0. s \in Status BY DEF Terminals
  <2>2. new \in Record /\ new.status = s /\ new.pid = mem[t].pid
      BY <1>1, <2>0, <2>1 DEF Record, Costs
  <2>3. mem' = [mem EXCEPT ![t].status = s, ![t].cost = Patched(@, c)] BY <1>2 DEF Complete
  <2>4. mem' \in [Tasks -> Record \cup {None}] /\ \A u \in Tasks : mem'[u] = IF u = t THEN new ELSE mem[u]
    <3>1. \A u \in Tasks : mem'[u] = IF u = t THEN new ELSE mem[u] BY <2>3 DEF TypeOK, Records
    <3>2. mem' = [u \in Tasks |-> mem'[u]] BY <2>3 DEF TypeOK, Records
    <3>3. \A u \in Tasks : mem'[u] \in Record \cup {None} BY <2>2, <3>1 DEF TypeOK, Records
    <3> QED BY <3>1, <3>2, <3>3
  <2> HIDE DEF new
  <2>5. disk' \in {disk, mem'} /\ activeId' = (IF activeId = t THEN None ELSE activeId)
        /\ live' = [live EXCEPT ![t] = "none"]
      BY <1>2 DEF Complete, Persist, Unsaved
  <2>6. mem'[t] # None /\ ~Running(mem'[t])
      BY <2>2, <2>4, NoneIsNoRecord DEF Running, Terminals
  <2>7. Touches(t) BY <2>4, <2>5, <2>6 DEF Touches, Records
  <2>8. EndsOrStays(t) BY <1>2, <2>5, <2>6 DEF EndsOrStays
  <2> QED BY <1>2, <2>2, <2>4, <2>5, <2>7, <2>8 DEF TypeOK
<1>3. CASE ~Running(mem[t])
  <2>1. UNCHANGED <<mem, live, activeId, disk>> BY <1>3 DEF Complete
  <2> QED BY <2>1 DEF TypeOK, Touches, EndsOrStays
<1> QED BY <1>2, <1>3

\* Such a step keeps the lock and the disk right, and terminals as they are.
LEMMA TouchKeeps ==
    ASSUME IInv, up, up' = up, NEW t \in Tasks, mem[t] # None, Touches(t), EndsOrStays(t)
    PROVE  /\ LockIsTheRunningTask' /\ DiskOK' /\ LogStep
           /\ disk' \in Records /\ activeId' \in Tasks \cup {None}
<1>1. TypeOK /\ DiskOK /\ LockIsTheRunningTask BY DEF IInv
<1>2. mem' \in Records /\ mem'[t] # None /\ disk' \in {disk, mem'}
      /\ \A u \in Tasks \ {t} : mem'[u] = mem[u]
    BY DEF Touches
<1>3. LockIsTheRunningTask'
  <2>1. \A u \in Tasks : Running(mem[u]) <=> activeId = u BY <1>1 DEF LockIsTheRunningTask
  <2>2. ASSUME NEW u \in Tasks PROVE Running(mem'[u]) <=> activeId' = u
    <3>1. CASE u # t
      <4>1. Running(mem'[u]) <=> Running(mem[u]) BY <1>2, <3>1
      <4> QED BY <2>1, <3>1, <4>1, NoneIsNoRecord DEF EndsOrStays
    <3>2. CASE u = t BY <2>1, <3>2, NoneIsNoRecord DEF EndsOrStays
    <3> QED BY <3>1, <3>2
  <2> QED BY <2>2 DEF LockIsTheRunningTask, Running
<1>4. \A u \in Tasks : mem[u] # None /\ ~Running(mem[u]) =>
          mem'[u] # None /\ ~Running(mem'[u]) /\ mem'[u].status = mem[u].status /\ mem'[u].cost = mem[u].cost
  <2> SUFFICES ASSUME NEW u \in Tasks, mem[u] # None, ~Running(mem[u])
               PROVE  mem'[u] # None /\ ~Running(mem'[u]) /\ mem'[u].status = mem[u].status /\ mem'[u].cost = mem[u].cost
      OBVIOUS
  <2>1. CASE u = t BY <1>2, <2>1 DEF EndsOrStays
  <2>2. CASE u # t BY <1>2, <2>2 DEF Running
  <2> QED BY <2>1, <2>2
<1>5. \A u, v \in Tasks : Running(mem'[u]) /\ Running(mem'[v]) => u = v
    BY <1>3 DEF LockIsTheRunningTask, Running
<1>6. \A u, v \in Tasks : Running(disk'[u]) /\ Running(disk'[v]) => u = v
  <2>1. CASE disk' = disk BY <1>1, <2>1 DEF DiskOK, Running
  <2>2. CASE disk' = mem' BY <1>5, <2>2 DEF Running
  <2> QED BY <1>2, <2>1, <2>2
<1>7. ASSUME NEW u \in Tasks, disk[u] # None
      PROVE  /\ mem'[u] # None
             /\ ~Running(disk[u]) => /\ ~Running(mem'[u])
                                     /\ mem'[u].status = disk[u].status
                                     /\ mem'[u].cost = disk[u].cost
  <2>1. mem[u] # None BY <1>1, <1>7 DEF DiskOK
  <2>2. mem'[u] # None BY <1>2, <2>1
  <2>3. ASSUME ~Running(disk[u])
        PROVE  /\ ~Running(mem'[u])
               /\ mem'[u].status = disk[u].status /\ mem'[u].cost = disk[u].cost
    <3>1. mem[u].status = disk[u].status /\ mem[u].cost = disk[u].cost
        BY <1>1, <1>7, <2>3 DEF DiskOK
    <3>2. ~Running(mem[u]) BY <1>7, <2>1, <2>3, <3>1 DEF Running
    <3> QED BY <1>4, <2>1, <3>1, <3>2
  <2> QED BY <2>2, <2>3
<1>8. DiskOK'
  <2>1. CASE disk' = disk BY <1>6, <1>7, <2>1 DEF DiskOK, Running
  <2>2. CASE disk' = mem' BY <1>6, <2>2 DEF DiskOK, Running
  <2> QED BY <1>2, <2>1, <2>2
<1>9. LogStep
  <2>1. CASE disk' = disk BY <2>1 DEF LogStep
  <2>2. CASE disk' = mem' BY <1>7, <2>2 DEF LogStep
  <2> QED BY <1>2, <2>1, <2>2
<1>10. disk' \in Records /\ activeId' \in Tasks \cup {None} BY <1>1, <1>2 DEF EndsOrStays, TypeOK
<1> QED BY <1>3, <1>8, <1>9, <1>10

\* A process that is gone stays gone, and its file as it is; one that never was
\* has no record with a pid.
Calm(t) ==
    /\ \A u \in Tasks \ {t} : child'[u] = child[u] /\ file'[u] = file[u]
    /\ child[t] # "none" => child'[t] # "none"
    /\ child[t] = "exited" => child'[t] = "exited" /\ file'[t] = file[t]
    /\ timedOut \subseteq timedOut' /\ missed \subseteq missed'

LEMMA PaidKept ==
    ASSUME IInv, NEW t \in Tasks, Touches(t), Calm(t),
           mem'[t].pid => child'[t] # "none",
           mem'[t].pid /\ mem'[t].status = "crashed" /\ t \notin timedOut' \cup missed' =>
               child'[t] = "exited" /\ file'[t] # "complete"
    PROVE  PaidOK'
<1>1. \A u \in Tasks : RecordOK(mem[u], u) /\ RecordOK(disk[u], u) BY DEF IInv, PaidOK
<1>2. ASSUME NEW u \in Tasks
      PROVE  /\ disk[u] # None /\ disk[u].pid =>
                    /\ child'[u] # "none"
                    /\ disk[u].status = "crashed" /\ u \notin timedOut' \cup missed' =>
                          child'[u] = "exited" /\ file'[u] # "complete"
             /\ mem'[u] # None /\ mem'[u].pid =>
                    /\ child'[u] # "none"
                    /\ mem'[u].status = "crashed" /\ u \notin timedOut' \cup missed' =>
                          child'[u] = "exited" /\ file'[u] # "complete"
  <2>1. CASE u = t BY <1>1, <2>1 DEF RecordOK, Calm
  <2>2. CASE u # t BY <1>1, <2>2 DEF RecordOK, Calm, Touches
  <2> QED BY <2>1, <2>2
<1>3. CASE disk' = disk BY <1>2, <1>3 DEF PaidOK, RecordOK
<1>4. CASE disk' = mem' BY <1>2, <1>4 DEF PaidOK, RecordOK
<1> QED BY <1>3, <1>4 DEF Touches

\* A step that leaves the registry and the disk alone.
LEMMA UntouchedKeeps ==
    ASSUME IInv, UNCHANGED <<up, mem, disk, activeId>>, NEW t \in Tasks, Calm(t)
    PROVE  LockIsTheRunningTask' /\ DiskOK' /\ LogStep /\ PaidOK'
<1>1. LockIsTheRunningTask' BY DEF IInv, LockIsTheRunningTask, Running
<1>2. DiskOK' BY DEF IInv, DiskOK, Running
<1>3. LogStep BY DEF LogStep
<1>4. PaidOK'
  <2>1. \A u \in Tasks : RecordOK(mem[u], u) /\ RecordOK(disk[u], u) BY DEF IInv, PaidOK
  <2>2. ASSUME NEW u \in Tasks PROVE (RecordOK(mem[u], u) /\ RecordOK(disk[u], u))'
    <3>1. CASE u = t BY <2>1, <3>1 DEF RecordOK, Calm
    <3>2. CASE u # t BY <2>1, <3>2 DEF RecordOK, Calm
    <3> QED BY <3>1, <3>2
  <2> QED BY <2>2 DEF PaidOK
<1> QED BY <1>1, <1>2, <1>3, <1>4

-----------------------------------------------------------------------------
(* The route.                                                              *)

LEMMA Registering ==
    ASSUME IInv, NEW t \in Tasks, Register(t)
    PROVE  IInv' /\ LogStep
<1> DEFINE new == [status |-> "running", pid |-> FALSE, cost |-> "absent", own |-> TRUE]
<1>0. TypeOK /\ UsedOK /\ HandlesOK /\ DiskOK /\ PaidOK /\ LockIsTheRunningTask BY DEF IInv
<1>1. new \in Record /\ new # None
  <2>1. new \in Record BY DEF Record, Status
  <2> QED BY <2>1, NoneIsNoRecord
<1>2. /\ up /\ up' /\ activeId = None /\ t \notin used /\ activeId' = t
      /\ mem' \in Records /\ \A u \in Tasks : mem'[u] = IF u = t THEN new ELSE mem[u]
      /\ disk' \in {disk, mem'}
      BY <1>0, <1>1 DEF Register, TypeOK, Records, Persist, Unsaved
<1>3. \A u \in Tasks : ~Running(mem[u]) BY <1>0, <1>2, NoneIsNoRecord DEF LockIsTheRunningTask
<1>4. Running(new) BY <1>1 DEF Running
<1>5. mem[t] = None /\ disk[t] = None /\ child[t] = "none" /\ file[t] = "absent" BY <1>0, <1>2 DEF UsedOK
<1> HIDE DEF new
<1>6. TypeOK' BY <1>0, <1>2 DEF Register, TypeOK, process
<1>7. UsedOK' BY <1>0, <1>2 DEF Register, UsedOK, process
<1>8. HandlesOK'
  <2>1. route[t] = "none" /\ live[t] = "none" /\ t \notin watchers BY <1>0, <1>5 DEF HandlesOK
  <2>2. \A u \in Tasks : /\ u # t => route'[u] = route[u] /\ live'[u] = live[u]
                         /\ u \in watchers' <=> u \in watchers
      BY <1>0 DEF Register, TypeOK
  <2>3. mem'[t] # None /\ mem'[t].status # "crashed" BY <1>1, <1>2, <1>4 DEF Running
  <2> QED BY <1>0, <1>2, <1>5, <2>1, <2>2, <2>3 DEF HandlesOK, Register, process
<1>9. LockIsTheRunningTask' BY <1>2, <1>3, <1>4 DEF LockIsTheRunningTask, Running
<1>10. \A u \in Tasks : ~Running(disk[u]) \/ u # t BY <1>5 DEF Running
<1>11. DiskOK'
  <2>1. CASE disk' = disk BY <1>0, <1>2, <1>5, <2>1 DEF DiskOK, Running
  <2>2. CASE disk' = mem' BY <1>2, <1>9, <2>2 DEF DiskOK, LockIsTheRunningTask, Running
  <2> QED BY <1>2, <2>1, <2>2
<1>12. LogStep
  <2>1. CASE disk' = disk BY <2>1 DEF LogStep
  <2>2. CASE disk' = mem' BY <1>0, <1>2, <1>5, <2>2 DEF LogStep, DiskOK
  <2> QED BY <1>2, <2>1, <2>2
<1>13. PaidOK'
  <2>1. Touches(t) BY <1>1, <1>2 DEF Touches
  <2>2. Calm(t) BY DEF Register, Calm, process
  <2>3. ~mem'[t].pid BY <1>2 DEF new
  <2> QED BY <2>1, <2>2, <2>3, PaidKept
<1>14. TimersOK' BY <1>0 DEF IInv, TimersOK, Register, TypeOK, process
<1> QED BY <1>6, <1>7, <1>8, <1>9, <1>11, <1>12, <1>13, <1>14 DEF IInv

\* A run that is completed, whoever completes it, as long as its process is not
\* disturbed.
LEMMA Completing ==
    ASSUME IInv, up, NEW t \in Tasks, mem[t] # None, NEW s \in Terminals, NEW c \in Costs,
           Complete(t, s, c), up' = up, watchers' = watchers, UNCHANGED <<used, fresh>>,
           Calm(t), UNCHANGED file,
           child' \in [Tasks -> {"none", "running", "termed", "exited"}],
           child[t] = "none" => child'[t] = "none",
           s = "crashed" => t \in timedOut',
           route' \in [Tasks -> {"none", "assembling", "waiting"}],
           \A u \in Tasks : route'[u] \in {"none", route[u]},
           escalating' \in SUBSET Tasks, aborted' \in SUBSET Tasks, killed' \in SUBSET Tasks,
           \A u \in escalating' : u \in escalating \/ (u = t /\ child'[t] # "none"),
           timedOut' \in SUBSET Tasks, UNCHANGED <<leaked, missed, restarts>>
    PROVE  IInv' /\ LogStep
<1>0. TypeOK /\ UsedOK /\ HandlesOK /\ PaidOK BY DEF IInv
<1>1. /\ Touches(t) /\ EndsOrStays(t)
      /\ mem'[t].pid = mem[t].pid
      /\ mem'[t].status \in {mem[t].status, s}
      /\ mem'[t].status # mem[t].status => Running(mem[t])
      /\ live' \in [Tasks -> {"none", "bare", "proc"}]
      /\ \A u \in Tasks : live'[u] \in {"none", live[u]}
    BY <1>0, CompleteTouches
<1>2. LockIsTheRunningTask' /\ DiskOK' /\ LogStep
      /\ disk' \in Records /\ activeId' \in Tasks \cup {None}
    BY <1>1, TouchKeeps
<1>3. TypeOK' BY <1>0, <1>1, <1>2 DEF TypeOK, Touches
<1>4. UsedOK'
  <2>1. \A u \in Tasks : mem'[u] # None => u \in used BY <1>0, <1>1 DEF UsedOK, Touches
  <2>2. \A u \in Tasks : child'[u] # "none" => u \in used BY <1>0 DEF UsedOK, Calm
  <2> QED BY <1>0, <1>1, <2>1, <2>2 DEF UsedOK, Touches
<1>5. HandlesOK'
  <2>1. \A u \in Tasks : route'[u] = "assembling" => child'[u] = "none"
      BY <1>0 DEF HandlesOK, Calm, TypeOK
  <2>2. \A u \in Tasks : route'[u] = "assembling" /\ mem'[u].status = "crashed" => u \in timedOut'
      BY <1>0, <1>1 DEF HandlesOK, Calm, Touches
  <2>3. \A u \in Tasks : mem[u] # None => mem'[u] # None BY <1>1 DEF Touches
  <2> QED BY <1>0, <1>1, <2>1, <2>2, <2>3 DEF HandlesOK
<1>t. TimersOK' BY <1>0, <1>1 DEF IInv, TimersOK, Calm
<1>6. PaidOK'
  <2>1. mem'[t].pid => child'[t] # "none" BY <1>0, <1>1 DEF PaidOK, RecordOK, Calm
  <2>2. mem'[t].pid /\ mem'[t].status = "crashed" /\ t \notin timedOut' \cup missed' =>
            child'[t] = "exited" /\ file'[t] # "complete"
      BY <1>0, <1>1 DEF PaidOK, RecordOK, Calm
  <2> QED BY <1>1, <2>1, <2>2, PaidKept
<1> QED BY <1>2, <1>3, <1>4, <1>5, <1>6, <1>t DEF IInv

\* A step of a process, a timer or a promise that ends, which the registry does
\* not notice.
LEMMA Unnoticed ==
    ASSUME IInv, NEW t \in Tasks,
           UNCHANGED <<up, mem, disk, activeId, live, watchers, used, leaked, missed, restarts>>,
           Calm(t),
           child' \in [Tasks -> {"none", "running", "termed", "exited"}],
           file' \in [Tasks -> {"absent", "empty", "partial", "complete"}],
           fresh' \in SUBSET Tasks,
           child[t] = "none" => child'[t] = "none",
           file[t] = "absent" => file'[t] = "absent" \/ (t \in used /\ t \in Detached),
           route' \in [Tasks -> {"none", "assembling", "waiting"}],
           \A u \in Tasks : route'[u] \in {"none", route[u]},
           escalating' \in SUBSET Tasks, aborted' \in SUBSET Tasks, killed' \in SUBSET Tasks,
           \A u \in escalating' : u \in escalating \/ (u = t /\ child'[t] # "none"),
           timedOut' \in SUBSET Tasks
    PROVE  IInv' /\ LogStep
<1>0. TypeOK /\ UsedOK /\ HandlesOK BY DEF IInv
<1>1. LockIsTheRunningTask' /\ DiskOK' /\ LogStep /\ PaidOK' BY UntouchedKeeps
<1>2. TypeOK'
  <2>1. \A u \in Tasks \ Detached : file'[u] = "absent" BY <1>0 DEF TypeOK, Calm
  <2> QED BY <1>0, <2>1 DEF TypeOK
<1>3. UsedOK' BY <1>0 DEF UsedOK, Calm
<1>4. HandlesOK' BY <1>0 DEF HandlesOK, Calm
<1>5. TimersOK' BY DEF IInv, TimersOK, Calm
<1> QED BY <1>1, <1>2, <1>3, <1>4, <1>5 DEF IInv

LEMMA Terminal == {"done", "failed", "cancelled", "crashed"} \subseteq Terminals
    BY DEF Terminals, Status

LEMMA TermIsCalm ==
    ASSUME TypeOK, NEW t \in Tasks, Term(t), UNCHANGED <<file, missed>>, timedOut \subseteq timedOut'
    PROVE  /\ Calm(t) /\ (child[t] = "none" => child'[t] = "none")
           /\ child' \in [Tasks -> {"none", "running", "termed", "exited"}]
    BY DEF Calm, Term, TypeOK

LEMMA EndingUnspawned ==
    ASSUME IInv, NEW t \in Tasks, EndsUnspawned(t)
    PROVE  IInv' /\ LogStep
<1>0. TypeOK /\ HandlesOK BY DEF IInv
<1>1. /\ up /\ up' = up /\ mem[t] # None /\ watchers' = watchers
      /\ UNCHANGED <<escalating, aborted, child, file, fresh, used, killed, timedOut, leaked, missed, restarts>>
      /\ route' = [route EXCEPT ![t] = "none"]
    BY <1>0 DEF EndsUnspawned, HandlesOK, process, history
<1>2. Calm(t) BY <1>1 DEF Calm
<1>3. route' \in [Tasks -> {"none", "assembling", "waiting"}] /\ \A u \in Tasks : route'[u] \in {"none", route[u]}
    BY <1>0, <1>1 DEF TypeOK
<1>4. \E s \in {"done", "failed"}, c \in Costs : Complete(t, s, c) BY DEF EndsUnspawned, Costs
<1>5. PICK s \in {"done", "failed"}, c \in Costs : Complete(t, s, c) BY <1>4
<1>6. s \in Terminals /\ s # "crashed" BY Terminal
<1> QED BY <1>0, <1>1, <1>2, <1>3, <1>5, <1>6, Completing DEF TypeOK

LEMMA FailingStdin ==
    ASSUME IInv, NEW t \in Tasks, StdinFails(t)
    PROVE  IInv' /\ LogStep
<1>0. TypeOK /\ HandlesOK BY DEF IInv
<1>1. /\ up /\ up' = up /\ mem[t] # None /\ watchers' = watchers /\ Term(t)
      /\ UNCHANGED <<escalating, aborted, file, fresh, used, killed, timedOut, leaked, missed, restarts>>
      /\ route' = [route EXCEPT ![t] = "none"]
    BY <1>0 DEF StdinFails, HandlesOK, history
<1>2. /\ Calm(t) /\ (child[t] = "none" => child'[t] = "none")
      /\ child' \in [Tasks -> {"none", "running", "termed", "exited"}]
    BY <1>0, <1>1, TermIsCalm
<1>3. route' \in [Tasks -> {"none", "assembling", "waiting"}] /\ \A u \in Tasks : route'[u] \in {"none", route[u]}
    BY <1>0, <1>1 DEF TypeOK
<1>4. CASE t \in aborted
  <2>1. UNCHANGED <<mem, live, activeId, disk>> BY <1>4 DEF StdinFails
  <2> QED BY <1>0, <1>1, <1>2, <1>3, <2>1, Unnoticed DEF TypeOK
<1>5. CASE t \notin aborted
  <2>1. Complete(t, "failed", "absent") BY <1>5 DEF StdinFails
  <2>2. "failed" \in Terminals /\ "absent" \in Costs BY Terminal DEF Costs
  <2> QED BY <1>0, <1>1, <1>2, <1>3, <2>1, <2>2, Completing DEF TypeOK
<1> QED BY <1>4, <1>5

LEMMA Returning ==
    ASSUME IInv, NEW t \in Tasks, Returns(t)
    PROVE  IInv' /\ LogStep
<1>0. TypeOK /\ HandlesOK BY DEF IInv
<1>1. /\ up /\ up' = up /\ mem[t] # None /\ watchers' = watchers
      /\ UNCHANGED <<escalating, aborted, child, file, fresh, used, killed, timedOut, leaked, missed, restarts>>
      /\ route' = [route EXCEPT ![t] = "none"]
    BY <1>0 DEF Returns, HandlesOK, process, history
<1>2. Calm(t) BY <1>1 DEF Calm
<1>3. route' \in [Tasks -> {"none", "assembling", "waiting"}] /\ \A u \in Tasks : route'[u] \in {"none", route[u]}
    BY <1>0, <1>1 DEF TypeOK
<1>4. \/ \E s \in {"done", "failed"}, c \in Costs : Complete(t, s, c)
      \/ UNCHANGED <<mem, live, activeId, disk>>
    BY DEF Returns, Costs
<1>5. CASE UNCHANGED <<mem, live, activeId, disk>> BY <1>0, <1>1, <1>2, <1>3, <1>5, Unnoticed DEF TypeOK
<1>6. CASE \E s \in {"done", "failed"}, c \in Costs : Complete(t, s, c)
  <2>1. PICK s \in {"done", "failed"}, c \in Costs : Complete(t, s, c) BY <1>6
  <2>2. s \in Terminals /\ s # "crashed" BY Terminal
  <2> QED BY <1>0, <1>1, <1>2, <1>3, <2>1, <2>2, Completing DEF TypeOK
<1> QED BY <1>4, <1>5, <1>6

\* The kill chain, by a cancel or by the wall clock.
LEMMA Killing ==
    ASSUME IInv, up, NEW t \in Tasks, mem[t] # None, NEW s \in {"cancelled", "crashed"},
           KillLive(t, s), timedOut' \in SUBSET Tasks, timedOut \subseteq timedOut',
           s = "crashed" => t \in timedOut',
           UNCHANGED <<up, watchers, route, file, fresh, used, leaked, missed, restarts>>
    PROVE  IInv' /\ LogStep
<1>0. TypeOK BY DEF IInv
<1>1. /\ Calm(t) /\ (child[t] = "none" => child'[t] = "none")
      /\ child' \in [Tasks -> {"none", "running", "termed", "exited"}]
    BY <1>0, TermIsCalm DEF KillLive
<1>2. /\ Complete(t, s, "null")
      /\ escalating' \in SUBSET Tasks /\ aborted' \in SUBSET Tasks /\ killed' \in SUBSET Tasks
    BY <1>0 DEF KillLive, TypeOK
<1>3. s \in Terminals /\ "null" \in Costs BY Terminal DEF Costs
<1>4. \A u \in escalating' : u \in escalating \/ (u = t /\ child'[t] # "none")
  <2>1. CASE live[t] = "proc" \/ (live[t] = "none" /\ Running(mem[t]) /\ mem[t].pid)
    <3>1. child[t] # "none" BY <2>1 DEF IInv, TimersOK, PaidOK, RecordOK
    <3> QED BY <1>1, <3>1 DEF KillLive, Calm
  <2>2. CASE ~(live[t] = "proc" \/ (live[t] = "none" /\ Running(mem[t]) /\ mem[t].pid))
      BY <2>2 DEF KillLive
  <2> QED BY <2>1, <2>2
<1> QED BY <1>0, <1>1, <1>2, <1>3, <1>4, Completing DEF TypeOK

LEMMA Cancelling ==
    ASSUME IInv, NEW t \in Tasks, Cancel(t)
    PROVE  IInv' /\ LogStep
<1>0. TypeOK /\ LockIsTheRunningTask BY DEF IInv
<1>1. up /\ mem[t] # None BY <1>0 DEF Cancel, LockIsTheRunningTask, Running
<1> QED BY <1>0, <1>1, Killing DEF Cancel, TypeOK

LEMMA TimingOut ==
    ASSUME IInv, NEW t \in Tasks, TimeoutKill(t)
    PROVE  IInv' /\ LogStep
<1>0. TypeOK /\ HandlesOK BY DEF IInv
<1>1. up /\ mem[t] # None BY <1>0 DEF TimeoutKill, HandlesOK
<1> QED BY <1>0, <1>1, Killing DEF TimeoutKill, TypeOK

LEMMA Escalating ==
    ASSUME IInv, NEW t \in Tasks, Escalate(t)
    PROVE  IInv' /\ LogStep
<1>0. TypeOK /\ TimersOK BY DEF IInv
<1>1. /\ UNCHANGED <<up, mem, disk, activeId, live, watchers, route, aborted, file, fresh>>
      /\ UNCHANGED <<used, killed, timedOut, leaked, missed, restarts>>
      /\ child' = [child EXCEPT ![t] = "exited"] /\ escalating' = escalating \ {t}
      /\ child[t] # "none"
    BY <1>0 DEF Escalate, registry, history, TimersOK
<1>2. Calm(t) /\ child' \in [Tasks -> {"none", "running", "termed", "exited"}]
    BY <1>0, <1>1 DEF Calm, TypeOK
<1> QED BY <1>0, <1>1, <1>2, Unnoticed DEF TypeOK

\* The child by itself: it writes, it ends, its file is left alone.
LEMMA ChildSteps ==
    ASSUME IInv, NEW t \in Tasks, ChildWrites(t) \/ ChildExits(t) \/ Age(t)
    PROVE  IInv' /\ LogStep
<1>0. TypeOK /\ UsedOK BY DEF IInv
<1>1. /\ UNCHANGED <<up, mem, disk, activeId, live, watchers, route, aborted, escalating>>
      /\ UNCHANGED <<used, killed, timedOut, leaked, missed, restarts>>
    BY DEF ChildWrites, ChildExits, Age, registry, history
<1>2. CASE ChildWrites(t)
  <2>1. Calm(t) BY <1>0, <1>1, <1>2 DEF ChildWrites, Calm, Alive, TypeOK
  <2> QED BY <1>0, <1>1, <1>2, <2>1, Unnoticed DEF ChildWrites, Alive, TypeOK
<1>3. CASE ChildExits(t)
  <2>1. Calm(t) BY <1>0, <1>1, <1>3 DEF ChildExits, Calm, Alive, TypeOK
  <2>2. t \in used BY <1>0, <1>3 DEF ChildExits, Alive, UsedOK
  <2>3. /\ child' \in [Tasks -> {"none", "running", "termed", "exited"}]
        /\ file' \in [Tasks -> {"absent", "empty", "partial", "complete"}]
        /\ fresh' \in SUBSET Tasks /\ child[t] # "none"
        /\ file[t] = "absent" => file'[t] = "absent" \/ t \in Detached
      BY <1>0, <1>3 DEF ChildExits, Alive, TypeOK
  <2> QED BY <1>0, <1>1, <2>1, <2>2, <2>3, Unnoticed DEF TypeOK
<1>4. CASE Age(t)
  <2>1. Calm(t) BY <1>1, <1>4 DEF Age, Calm
  <2> QED BY <1>0, <1>1, <1>4, <2>1, Unnoticed DEF Age, TypeOK
<1> QED BY <1>2, <1>3, <1>4

\* A child comes to be, of a run that had none.
LEMMA SpawnedTypes ==
    ASSUME TypeOK, NEW t \in Tasks, Spawned(t)
    PROVE  /\ file' \in [Tasks -> {"absent", "empty", "partial", "complete"}]
           /\ fresh' \in SUBSET Tasks
           /\ \A u \in Tasks \ Detached : file'[u] = "absent"
           /\ \A u \in Tasks \ {t} : file'[u] = file[u]
    BY DEF Spawned, TypeOK

LEMMA Spawning ==
    ASSUME IInv, NEW t \in Tasks, Spawn(t)
    PROVE  IInv' /\ LogStep
<1>0. TypeOK /\ UsedOK /\ HandlesOK /\ TimersOK BY DEF IInv
<1>1. PICK ps \in BOOLEAN : mem' = [mem EXCEPT ![t].pid = ps] BY DEF Spawn
<1>2. /\ up /\ up' = up /\ mem[t] # None /\ mem[t] \in Record /\ child[t] = "none" /\ t \notin watchers
      /\ mem[t].status = "crashed" => t \in timedOut
    BY <1>0 DEF Spawn, HandlesOK, TypeOK, Records
<1>3. /\ mem' \in [Tasks -> Record \cup {None}] /\ \A u \in Tasks \ {t} : mem'[u] = mem[u]
      /\ mem'[t] \in Record /\ mem'[t].status = mem[t].status /\ mem'[t].cost = mem[t].cost
  <2> DEFINE new == [mem[t] EXCEPT !.pid = ps]
  <2>1. new \in Record /\ new.status = mem[t].status /\ new.cost = mem[t].cost BY <1>2 DEF Record
  <2>2. mem' = [mem EXCEPT ![t] = new] BY <1>1
  <2> HIDE DEF new
  <2> QED BY <1>0, <2>1, <2>2 DEF TypeOK, Records
<1>4. Touches(t) /\ EndsOrStays(t)
    BY <1>2, <1>3, NoneIsNoRecord DEF Touches, EndsOrStays, Records, Spawn, Persist, Running
<1>5. LockIsTheRunningTask' /\ DiskOK' /\ LogStep
      /\ disk' \in Records /\ activeId' \in Tasks \cup {None}
    BY <1>2, <1>4, TouchKeeps
<1>6. /\ file' \in [Tasks -> {"absent", "empty", "partial", "complete"}]
      /\ fresh' \in SUBSET Tasks
      /\ \A u \in Tasks \ Detached : file'[u] = "absent"
      /\ \A u \in Tasks \ {t} : file'[u] = file[u]
    BY <1>0, SpawnedTypes DEF Spawn
<1>7. /\ UNCHANGED <<watchers, aborted, used, killed, timedOut, leaked, missed, restarts>>
      /\ route' = [route EXCEPT ![t] = "waiting"]
      /\ live' \in [Tasks -> {"none", "bare", "proc"}]
      /\ child' \in [Tasks -> {"none", "running", "termed", "exited"}]
      /\ escalating' \in SUBSET Tasks
      /\ child'[t] # "none"
      /\ \A u \in Tasks \ {t} : /\ child'[u] = child[u] /\ live'[u] = live[u]
                                /\ u \in escalating' => u \in escalating
    BY <1>0 DEF Spawn, TypeOK, history
<1>8. TypeOK' BY <1>0, <1>2, <1>3, <1>5, <1>6, <1>7 DEF TypeOK, Records
<1>9. t \in used BY <1>0, <1>2 DEF UsedOK
<1>10. UsedOK'
  <2>1. \A u \in Tasks \ {t} : mem'[u] # None \/ disk'[u] # None \/ child'[u] # "none" \/ file'[u] # "absent" => u \in used
      BY <1>0, <1>3, <1>4, <1>6, <1>7 DEF UsedOK, Touches
  <2> QED BY <1>7, <1>9, <2>1 DEF UsedOK
<1>11. HandlesOK'
  <2>1. \A u \in Tasks : /\ u # t => route'[u] = route[u]
                         /\ u = t => route'[u] = "waiting"
      BY <1>0, <1>7 DEF TypeOK
  <2> QED BY <1>0, <1>2, <1>3, <1>4, <1>7, <2>1 DEF HandlesOK, Touches
<1>12. TimersOK' BY <1>0, <1>7 DEF TimersOK
<1>13. Calm(t) BY <1>2, <1>6, <1>7 DEF Calm
<1>14. PaidOK' BY <1>2, <1>3, <1>4, <1>7, <1>13, PaidKept
<1> QED BY <1>5, <1>8, <1>10, <1>11, <1>12, <1>14 DEF IInv

LEMMA SpawningUnsaved ==
    ASSUME IInv, NEW t \in Tasks, SpawnUnsaved(t)
    PROVE  IInv' /\ LogStep
<1>0. TypeOK /\ UsedOK /\ HandlesOK /\ TimersOK /\ LockIsTheRunningTask BY DEF IInv
<1>1. /\ up /\ up' = up /\ mem[t] # None /\ mem[t] \in Record /\ child[t] = "none" /\ t \notin watchers
      /\ mem[t].status = "crashed" => t \in timedOut
    BY <1>0 DEF SpawnUnsaved, HandlesOK, TypeOK, Records
<1>2. /\ mem' \in [Tasks -> Record \cup {None}] /\ \A u \in Tasks \ {t} : mem'[u] = mem[u]
      /\ mem'[t] \in Record /\ mem'[t].cost = mem[t].cost
      /\ mem'[t].status = IF mem[t].status = "running" THEN "failed" ELSE mem[t].status
  <2> DEFINE status == IF mem[t].status = "running" THEN "failed" ELSE mem[t].status
             new == [mem[t] EXCEPT !.pid = TRUE, !.status = status]
  <2>1. status \in Status BY <1>1 DEF Record, Status
  <2> HIDE DEF status
  <2>2. new \in Record /\ new.status = status /\ new.cost = mem[t].cost BY <1>1, <2>1 DEF Record
  <2>3. \A u \in Tasks : mem'[u] = IF u = t THEN new ELSE mem[u]
      BY <1>0, <1>1 DEF SpawnUnsaved, TypeOK, Records, status
  <2>4. mem' = [u \in Tasks |-> mem'[u]] BY <1>0 DEF SpawnUnsaved, TypeOK, Records
  <2> HIDE DEF new
  <2>5. \A u \in Tasks : mem'[u] \in Record \cup {None} BY <1>0, <2>2, <2>3 DEF TypeOK, Records
  <2>6. mem'[t].status = status BY <2>2, <2>3
  <2> QED BY <2>2, <2>3, <2>4, <2>5, <2>6 DEF status
<1>3. Touches(t)
    BY <1>2, NoneIsNoRecord DEF Touches, Records, SpawnUnsaved, Persist, Unsaved
<1>4. EndsOrStays(t)
  <2>1. activeId' = IF activeId = t THEN None ELSE activeId BY DEF SpawnUnsaved
  <2>2. Running(mem[t]) <=> activeId = t BY <1>0, <1>1 DEF LockIsTheRunningTask
  <2> QED BY <1>1, <1>2, <1>3, <2>1, <2>2 DEF Touches, EndsOrStays, Running
<1>5. LockIsTheRunningTask' /\ DiskOK' /\ LogStep
      /\ disk' \in Records /\ activeId' \in Tasks \cup {None}
    BY <1>1, <1>3, <1>4, TouchKeeps
<1>6. /\ file' \in [Tasks -> {"absent", "empty", "partial", "complete"}]
      /\ fresh' \in SUBSET Tasks
      /\ \A u \in Tasks \ Detached : file'[u] = "absent"
      /\ \A u \in Tasks \ {t} : file'[u] = file[u]
    BY <1>0, SpawnedTypes DEF SpawnUnsaved
<1>7. /\ UNCHANGED <<watchers, escalating, aborted, used, killed, timedOut, missed, restarts>>
      /\ route' = [route EXCEPT ![t] = "none"]
      /\ live' = [live EXCEPT ![t] = "none"]
      /\ child' = [child EXCEPT ![t] = "running"]
      /\ leaked' = leaked \cup {t}
    BY DEF SpawnUnsaved
<1>8. TypeOK' BY <1>0, <1>1, <1>2, <1>5, <1>6, <1>7 DEF TypeOK, Records
<1>9. t \in used BY <1>0, <1>1 DEF UsedOK
<1>10. UsedOK'
  <2>1. \A u \in Tasks \ {t} : mem'[u] # None \/ disk'[u] # None \/ child'[u] # "none" \/ file'[u] # "absent" => u \in used
      BY <1>0, <1>2, <1>3, <1>6, <1>7 DEF UsedOK, Touches, TypeOK
  <2> QED BY <1>7, <1>9, <2>1 DEF UsedOK
<1>11. HandlesOK'
  <2>1. \A u \in Tasks : /\ u # t => route'[u] = route[u] /\ live'[u] = live[u] /\ child'[u] = child[u]
                         /\ u = t => route'[u] = "none" /\ live'[u] = "none"
      BY <1>0, <1>7 DEF TypeOK
  <2> QED BY <1>0, <1>1, <1>2, <1>3, <1>7, <2>1 DEF HandlesOK, Touches
<1>12. TimersOK' BY <1>0, <1>7 DEF TimersOK, TypeOK
<1>13. Calm(t) BY <1>0, <1>1, <1>6, <1>7 DEF Calm, TypeOK
<1>14. PaidOK'
  <2>1. child'[t] # "none" BY <1>0, <1>7 DEF TypeOK
  <2>2. mem'[t].status = "crashed" => t \in timedOut' BY <1>1, <1>2, <1>7
  <2> QED BY <1>3, <1>13, <2>1, <2>2, PaidKept
<1> QED BY <1>5, <1>8, <1>10, <1>11, <1>12, <1>14 DEF IInv

-----------------------------------------------------------------------------
(* The result file, and the daemon that comes and goes.                    *)

\* What the oracle and reconcileDead can say: a result that is read makes a run done.
LEMMA VerdictIs ==
    ASSUME TypeOK, NEW t \in Tasks, NEW unread, NEW v \in Verdict(t, unread)
    PROVE  /\ Final(v[1]) \in Terminals
           /\ v[2] \in Costs
           /\ file[t] = "complete" /\ t \notin unread => Final(v[1]) = "done"
<1>1. file[t] \in {"absent", "empty", "partial", "complete"} BY DEF TypeOK
<1>2. v \in {<<"done", "number">>, <<"running", "null">>, <<"crashed", "null">>} BY <1>1 DEF Verdict
<1>3. file[t] = "complete" /\ t \notin unread => v = <<"done", "number">> BY DEF Verdict
<1> QED BY <1>2, <1>3 DEF Final, Terminals, Status, Costs

LEMMA Watching ==
    ASSUME IInv, NEW t \in Tasks, Watch(t)
    PROVE  IInv' /\ LogStep
<1>0. TypeOK /\ UsedOK /\ HandlesOK /\ TimersOK /\ PaidOK /\ LockIsTheRunningTask BY DEF IInv
<1>1. /\ up /\ up' = up /\ mem[t] # None /\ mem[t] \in Record /\ route[t] = "none" /\ ~Alive(t)
      /\ watchers' = watchers \ {t}
      /\ UNCHANGED <<live, escalating, route, aborted, child, file, fresh>>
      /\ UNCHANGED <<used, killed, timedOut, leaked, restarts>>
      /\ activeId' = IF activeId = t THEN None ELSE activeId
    BY <1>0 DEF Watch, HandlesOK, TypeOK, Records, process, history
<1>2. missed \subseteq missed' /\ missed' \in SUBSET Tasks
    BY <1>0 DEF Watch, Unreadable, TypeOK
<1>calm. Calm(t) BY <1>1, <1>2 DEF Calm
<1>3. Running(mem[t]) <=> activeId = t BY <1>0, <1>1 DEF LockIsTheRunningTask
<1>4. CASE ~Running(mem[t])
  <2>1. UNCHANGED <<mem, disk, activeId>> BY <1>1, <1>3, <1>4 DEF Watch
  <2>2. LockIsTheRunningTask' /\ DiskOK' /\ LogStep /\ PaidOK' BY <1>1, <1>calm, <2>1, UntouchedKeeps
  <2>3. TypeOK' BY <1>0, <1>1, <1>2, <2>1 DEF TypeOK
  <2>4. UsedOK' /\ HandlesOK' /\ TimersOK' BY <1>0, <1>1, <2>1 DEF UsedOK, HandlesOK, TimersOK
  <2> QED BY <2>2, <2>3, <2>4 DEF IInv
<1>5. CASE Running(mem[t])
  <2>0. PICK unread \in SUBSET Tasks :
            /\ \E v \in Verdict(t, unread) :
                  mem' = [mem EXCEPT ![t].status = Final(v[1]), ![t].cost = Booked(@, v[2])]
            /\ missed' = missed \cup unread
      BY <1>5 DEF Watch, Unreadable
  <2>1. PICK v \in Verdict(t, unread) :
            mem' = [mem EXCEPT ![t].status = Final(v[1]), ![t].cost = Booked(@, v[2])]
      BY <2>0
  <2>2. /\ Final(v[1]) \in Terminals /\ v[2] \in Costs
        /\ file[t] = "complete" /\ t \notin unread => Final(v[1]) = "done"
      BY <1>0, VerdictIs
  <2> DEFINE cost == Booked(mem[t].cost, v[2])
             new == [mem[t] EXCEPT !.status = Final(v[1]), !.cost = cost]
  <2>3. cost \in {"absent", "null", "number"} BY <1>1, <2>2 DEF Booked, Record
  <2>4. Final(v[1]) \in Status /\ Final(v[1]) # "running" BY <2>2 DEF Terminals
  <2>5. \A u \in Tasks : mem'[u] = IF u = t THEN new ELSE mem[u] BY <1>0, <2>1 DEF TypeOK, Records
  <2>6. mem' = [u \in Tasks |-> mem'[u]] BY <1>0, <2>1 DEF TypeOK, Records
  <2> HIDE DEF cost
  <2>7. new \in Record /\ new.status = Final(v[1]) /\ new.pid = mem[t].pid
      BY <1>1, <2>3, <2>4 DEF Record
  <2> HIDE DEF new
  <2>8. mem' \in Records
    <3>1. \A u \in Tasks : mem'[u] \in Record \cup {None} BY <1>0, <2>5, <2>7 DEF TypeOK, Records
    <3> QED BY <2>6, <3>1 DEF Records
  <2>9. Touches(t)
      BY <1>5, <2>5, <2>7, <2>8, NoneIsNoRecord DEF Touches, Watch, Persist, Unsaved
  <2>10. EndsOrStays(t) BY <1>1, <1>5, <2>4, <2>5, <2>7 DEF EndsOrStays, Running
  <2>11. LockIsTheRunningTask' /\ DiskOK' /\ LogStep
         /\ disk' \in Records /\ activeId' \in Tasks \cup {None}
      BY <1>1, <2>9, <2>10, TouchKeeps
  <2>12. TypeOK' BY <1>0, <1>1, <1>2, <2>8, <2>11 DEF TypeOK
  <2>13. UsedOK' BY <1>0, <1>1, <2>9 DEF UsedOK, Touches
  <2>14. HandlesOK' BY <1>0, <1>1, <2>5, <2>9 DEF HandlesOK, Touches
  <2>15. TimersOK' BY <1>0, <1>1 DEF TimersOK
  <2>16. PaidOK'
    <3>1. mem'[t].pid => child[t] # "none" BY <1>0, <1>1, <2>5, <2>7 DEF PaidOK, RecordOK
    <3>2. mem'[t].pid => child[t] = "exited" BY <1>0, <1>1, <3>1 DEF Alive, TypeOK
    <3>3. mem'[t].status = "crashed" /\ t \notin missed' => file[t] # "complete"
        BY <2>0, <2>2, <2>5, <2>7
    <3> QED BY <1>1, <1>calm, <2>9, <3>1, <3>2, <3>3, PaidKept
  <2> QED BY <2>11, <2>12, <2>13, <2>14, <2>15, <2>16 DEF IInv
<1> QED BY <1>4, <1>5

\* The daemon is gone, whatever its end did to the one process it was about.
LEMMA GoingDown ==
    ASSUME IInv, Down, NEW t \in Tasks,
           \/ t \in used /\ child[t] = "none" /\ child'[t] = "running"
           \/ (child[t] # "none" <=> child'[t] # "none") /\ (child[t] = "exited" => child'[t] = "exited") /\ file'[t] = file[t],
           \A u \in Tasks \ {t} : child'[u] = child[u] /\ file'[u] = file[u],
           child' \in [Tasks -> {"none", "running", "termed", "exited"}],
           file' \in [Tasks -> {"absent", "empty", "partial", "complete"}],
           \A u \in Tasks \ Detached : file'[u] = "absent",
           fresh' \in SUBSET Tasks, timedOut' \in SUBSET Tasks, timedOut \subseteq timedOut'
    PROVE  IInv' /\ LogStep
<1>0. TypeOK /\ UsedOK /\ DiskOK /\ PaidOK BY DEF IInv
<1>1. NoRecords \in Records /\ \A u \in Tasks : NoRecords[u] = None BY DEF NoRecords, Records
<1>2. /\ up' = FALSE /\ mem' = NoRecords /\ activeId' = None
      /\ live' = [u \in Tasks |-> "none"] /\ route' = [u \in Tasks |-> "none"]
      /\ watchers' = {} /\ escalating' = {} /\ aborted' = {} /\ killed' = {}
      /\ UNCHANGED <<disk, used, leaked, missed>>
      /\ restarts < MaxRestarts /\ restarts' = restarts + 1
    BY DEF Down
<1>3. restarts' \in 0..MaxRestarts BY <1>0, <1>2, TaskAssumption DEF TypeOK
<1>4. TypeOK' BY <1>0, <1>1, <1>2, <1>3 DEF TypeOK
<1>5. UsedOK' BY <1>0, <1>1, <1>2 DEF UsedOK
<1>6. HandlesOK' /\ TimersOK' BY <1>1, <1>2 DEF HandlesOK, TimersOK
<1>7. DiskOK' BY <1>0, <1>2 DEF DiskOK, Running
<1>8. LogStep BY <1>2 DEF LogStep
<1>9. PaidOK' BY <1>0, <1>1, <1>2 DEF PaidOK, RecordOK
<1>10. LockIsTheRunningTask' BY <1>2 DEF LockIsTheRunningTask
<1> QED BY <1>4, <1>5, <1>6, <1>7, <1>8, <1>9, <1>10 DEF IInv

LEMMA Ending ==
    ASSUME IInv, NEW t \in Tasks, Stop \/ TimeoutThrows(t) \/ CrashAtSpawn(t)
    PROVE  IInv' /\ LogStep
<1>0. TypeOK /\ UsedOK /\ HandlesOK BY DEF IInv
<1>1. CASE Stop BY <1>0, <1>1, GoingDown DEF Stop, TypeOK, process
<1>2. CASE TimeoutThrows(t)
  <2>1. /\ (child[t] # "none" <=> child'[t] # "none") /\ (child[t] = "exited" => child'[t] = "exited")
        /\ file' = file /\ \A u \in Tasks \ {t} : child'[u] = child[u]
        /\ child' \in [Tasks -> {"none", "running", "termed", "exited"}]
      BY <1>0, <1>2 DEF TimeoutThrows, Term, TypeOK
  <2> QED BY <1>0, <1>2, <2>1, GoingDown DEF TimeoutThrows, TypeOK
<1>3. CASE CrashAtSpawn(t)
  <2>1. t \in used /\ child[t] = "none" BY <1>0, <1>3 DEF CrashAtSpawn, HandlesOK, UsedOK
  <2>2. /\ child'[t] = "running" /\ \A u \in Tasks \ {t} : child'[u] = child[u]
        /\ child' \in [Tasks -> {"none", "running", "termed", "exited"}]
      BY <1>0, <1>3 DEF CrashAtSpawn, TypeOK
  <2>3. /\ file' \in [Tasks -> {"absent", "empty", "partial", "complete"}]
        /\ fresh' \in SUBSET Tasks
        /\ \A u \in Tasks \ Detached : file'[u] = "absent"
        /\ \A u \in Tasks \ {t} : file'[u] = file[u]
      BY <1>0, <1>3, SpawnedTypes DEF CrashAtSpawn
  <2> QED BY <1>0, <1>3, <2>1, <2>2, <2>3, GoingDown DEF CrashAtSpawn, TypeOK
<1> QED BY <1>1, <1>2, <1>3

\* A lost tasks.json: nothing was ever written.
LEMMA Losing ==
    ASSUME IInv, LoseCache
    PROVE  IInv' /\ LogStep
<1>0. TypeOK /\ UsedOK /\ HandlesOK /\ TimersOK /\ DiskOK /\ PaidOK /\ LockIsTheRunningTask BY DEF IInv
<1>1. /\ ~up /\ up' = up /\ disk' = NoRecords
      /\ UNCHANGED <<mem, activeId, live, watchers, escalating, route, aborted, child, file, fresh>>
      /\ UNCHANGED <<used, killed, timedOut, leaked, missed, restarts>>
    BY DEF LoseCache, registry, process, history
<1>2. NoRecords \in Records /\ \A u \in Tasks : NoRecords[u] = None BY DEF NoRecords, Records
<1>3. TypeOK' BY <1>0, <1>1, <1>2 DEF TypeOK
<1>4. UsedOK' BY <1>0, <1>1, <1>2 DEF UsedOK
<1>5. HandlesOK' /\ TimersOK' /\ LockIsTheRunningTask'
    BY <1>0, <1>1 DEF HandlesOK, TimersOK, LockIsTheRunningTask
<1>6. DiskOK' /\ LogStep BY <1>1, <1>2 DEF DiskOK, Running, LogStep
<1>7. PaidOK' BY <1>0, <1>1, <1>2 DEF PaidOK, RecordOK
<1> QED BY <1>3, <1>4, <1>5, <1>6, <1>7 DEF IInv

\* What load makes of one run: an adopted run keeps its record, a terminal stays,
\* and a result that is there makes a run done, unless its process or
\* its result was missed.
LEMMA LoadedIs ==
    ASSUME IInv, NEW t \in Tasks, NEW blind, NEW unread,
           NEW r \in Loaded(t, blind, unread)
    PROVE  /\ r \in Record \cup {None}
           /\ r # None => disk[t] # None \/ file[t] # "absent"
           /\ disk[t] # None => r # None
           /\ Running(r) => Running(disk[t])
           /\ disk[t] # None /\ ~Running(disk[t]) => r = disk[t]
           /\ r # None /\ r.pid =>
                 /\ child[t] # "none"
                 /\ r.status = "crashed" /\ t \notin timedOut \cup missed \cup blind \cup unread =>
                       child[t] = "exited" /\ file[t] # "complete"
<1>0. TypeOK /\ PaidOK BY DEF IInv
<1>1. disk[t] \in Record \cup {None} BY <1>0 DEF TypeOK, Records
<1>2. CASE r = disk[t] BY <1>0, <1>1, <1>2 DEF PaidOK, RecordOK
<1>3. CASE Running(disk[t]) /\ r # disk[t]
  <2>0. Loaded(t, blind, unread) =
            IF Adoptable(t) /\ t \notin blind THEN {disk[t]} ELSE Reconciled(t, unread)
    <3>1. disk[t] # None BY <1>3 DEF Running
    <3> QED BY <1>3, <3>1 DEF Loaded
  <2>1. r \in Reconciled(t, unread) /\ (Adoptable(t) => t \in blind) BY <1>3, <2>0
  <2>2. disk[t] \in Record /\ disk[t] # None BY <1>1, <1>3 DEF Running
  <2>3. PICK v \in Verdict(t, unread) :
            r = [disk[t] EXCEPT !.status = Final(v[1]), !.cost = Booked(disk[t].cost, v[2])]
      BY <2>1 DEF Reconciled
  <2>4. /\ Final(v[1]) \in Terminals /\ v[2] \in Costs
        /\ file[t] = "complete" /\ t \notin unread => Final(v[1]) = "done"
      BY <1>0, VerdictIs
  <2>5. Booked(disk[t].cost, v[2]) \in {"absent", "null", "number"} BY <2>2, <2>4 DEF Booked, Record
  <2>6. Final(v[1]) \in Status /\ Final(v[1]) # "running" BY <2>4 DEF Terminals
  <2>7. r \in Record /\ r.status = Final(v[1]) /\ r.pid = disk[t].pid
      BY <2>2, <2>3, <2>5, <2>6 DEF Record
  <2>8. r.pid => child[t] # "none" BY <1>0, <2>2, <2>7 DEF PaidOK, RecordOK
  <2>9. r.pid /\ t \notin blind => child[t] = "exited"
      BY <1>0, <1>3, <2>1, <2>7, <2>8 DEF Adoptable, Alive, TypeOK
  <2> QED BY <1>3, <2>2, <2>4, <2>6, <2>7, <2>8, <2>9, NoneIsNoRecord DEF Running
<1>4. CASE ~Running(disk[t]) /\ r # disk[t]
  <2>1. r \in Scavenged(t, unread) /\ disk[t] = None /\ file[t] # "absent" BY <1>4 DEF Loaded
  <2>2. PICK v \in Verdict(t, unread) :
            r = [status |-> Final(v[1]), pid |-> FALSE, cost |-> v[2], own |-> FALSE]
      BY <2>1 DEF Scavenged
  <2>3. Final(v[1]) \in Terminals /\ v[2] \in Costs BY <1>0, VerdictIs
  <2>4. Final(v[1]) \in Status /\ Final(v[1]) # "running" BY <2>3 DEF Terminals
  <2>5. r \in Record /\ ~r.pid /\ r.status # "running" BY <2>2, <2>3, <2>4 DEF Record, Costs
  <2> QED BY <2>1, <2>5 DEF Running
<1> QED BY <1>2, <1>3, <1>4

LEMMA Starting ==
    ASSUME IInv, Start
    PROVE  IInv' /\ LogStep
<1>0. TypeOK /\ UsedOK /\ HandlesOK /\ TimersOK /\ DiskOK /\ PaidOK BY DEF IInv
<1>1. PICK blind \in SUBSET Tasks, unread \in SUBSET Tasks :
        /\ mem' \in {m \in [Tasks -> UNION {Loaded(t, blind, unread) : t \in Tasks}] :
                          \A t \in Tasks : m[t] \in Loaded(t, blind, unread)}
        /\ missed' = missed \cup blind \cup unread
    BY DEF Start, Unreadable
<1> DEFINE adopted == {t \in Tasks : Running(mem'[t])}
<1>2. /\ ~up /\ up' = TRUE /\ disk' = mem' /\ watchers' = adopted
      /\ activeId' \in IF adopted = {} THEN {None} ELSE adopted
      /\ UNCHANGED <<live, escalating, route, aborted, child, file, fresh>>
      /\ UNCHANGED <<used, killed, timedOut, leaked, restarts>>
    BY DEF Start, Persist, process
<1>3. ASSUME NEW t \in Tasks
      PROVE  /\ mem'[t] \in Record \cup {None}
             /\ mem'[t] # None => disk[t] # None \/ file[t] # "absent"
             /\ disk[t] # None => mem'[t] # None
             /\ Running(mem'[t]) => Running(disk[t])
             /\ disk[t] # None /\ ~Running(disk[t]) => mem'[t] = disk[t]
             /\ mem'[t] # None /\ mem'[t].pid =>
                   /\ child[t] # "none"
                   /\ mem'[t].status = "crashed" /\ t \notin timedOut \cup missed \cup blind \cup unread =>
                         child[t] = "exited" /\ file[t] # "complete"
  <2>1. mem'[t] \in Loaded(t, blind, unread) BY <1>1
  <2> QED BY <2>1, LoadedIs
<1>4. mem' \in Records
  <2>1. mem' = [t \in Tasks |-> mem'[t]] BY <1>1
  <2> QED BY <1>3, <2>1 DEF Records
<1>5. \A t, u \in adopted : t = u BY <1>0, <1>3 DEF DiskOK
<1>6. LockIsTheRunningTask'
  <2>1. \A t \in Tasks : Running(mem'[t]) <=> activeId' = t
    <3>1. CASE adopted = {} BY <1>2, <3>1, NoneIsNoRecord
    <3>2. CASE adopted # {} BY <1>2, <1>5, <3>2
    <3> QED BY <3>1, <3>2
  <2> QED BY <2>1 DEF LockIsTheRunningTask, Running
<1>7. TypeOK'
  <2>1. activeId' \in Tasks \cup {None} BY <1>2
  <2>2. missed' \in SUBSET Tasks BY <1>0, <1>1 DEF TypeOK
  <2> QED BY <1>0, <1>2, <1>4, <2>1, <2>2 DEF TypeOK
<1>8. UsedOK' BY <1>0, <1>2, <1>3 DEF UsedOK
<1>9. HandlesOK'
  <2>1. \A t \in Tasks : route[t] = "none" /\ live[t] = "none" BY <1>0, <1>2 DEF HandlesOK
  <2>2. \A t \in adopted : mem'[t] # None BY DEF Running
  <2> QED BY <1>2, <2>1, <2>2 DEF HandlesOK
<1>10. TimersOK' BY <1>0, <1>2 DEF TimersOK
<1>11. DiskOK'
  <2>1. \A t, u \in Tasks : Running(mem'[t]) /\ Running(mem'[u]) => t = u BY <1>5
  <2> QED BY <1>2, <2>1 DEF DiskOK, Running
<1>12. PaidOK' BY <1>1, <1>2, <1>3 DEF PaidOK, RecordOK
<1>13. LogStep BY <1>2, <1>3 DEF LogStep
<1> QED BY <1>6, <1>7, <1>8, <1>9, <1>10, <1>11, <1>12, <1>13 DEF IInv

-----------------------------------------------------------------------------
LEMMA Initially == Init => IInv
<1> SUFFICES ASSUME Init PROVE IInv OBVIOUS
<1>1. NoRecords \in Records /\ \A t \in Tasks : NoRecords[t] = None BY DEF NoRecords, Records
<1>2. TypeOK BY <1>1, TaskAssumption DEF Init, TypeOK
<1>3. UsedOK /\ HandlesOK /\ TimersOK BY <1>1 DEF Init, UsedOK, HandlesOK, TimersOK
<1>4. DiskOK /\ PaidOK BY <1>1 DEF Init, DiskOK, PaidOK, RecordOK, Running
<1>5. LockIsTheRunningTask BY <1>1, NoneIsNoRecord DEF Init, LockIsTheRunningTask, Running
<1> QED BY <1>2, <1>3, <1>4, <1>5 DEF IInv

LEMMA Inductive == IInv /\ [Next]_vars => IInv' /\ LogStep
<1> SUFFICES ASSUME IInv, [Next]_vars PROVE IInv' /\ LogStep OBVIOUS
<1>1. ASSUME NEW t \in Tasks, Daemon(t) PROVE IInv' /\ LogStep
    BY <1>1, Registering, EndingUnspawned, Spawning, SpawningUnsaved, FailingStdin, Returning,
       Cancelling, TimingOut, Escalating, Watching DEF Daemon
<1>2. ASSUME NEW t \in Tasks, CrashAtSpawn(t) \/ TimeoutThrows(t) PROVE IInv' /\ LogStep
    BY <1>2, Ending
<1>3. ASSUME NEW t \in Tasks, ChildWrites(t) \/ ChildExits(t) \/ Age(t) PROVE IInv' /\ LogStep
    BY <1>3, ChildSteps
<1>4. CASE Stop
  <2>1. CASE Tasks = {}
    <3>1. restarts' \in 0..MaxRestarts BY <1>4, TaskAssumption DEF IInv, TypeOK, Stop, Down
    <3>2. NoRecords \in Records BY DEF NoRecords, Records
    <3>3. TypeOK' BY <1>4, <2>1, <3>1, <3>2 DEF IInv, TypeOK, Stop, Down, process
    <3>4. (UsedOK /\ HandlesOK /\ TimersOK /\ DiskOK /\ PaidOK /\ LockIsTheRunningTask)' /\ LogStep
        BY <2>1 DEF UsedOK, HandlesOK, TimersOK, DiskOK, PaidOK, LockIsTheRunningTask, LogStep
    <3> QED BY <3>3, <3>4 DEF IInv
  <2>2. CASE Tasks # {}
    <3>1. PICK t \in Tasks : TRUE BY <2>2
    <3> QED BY <1>4, <3>1, Ending
  <2> QED BY <2>1, <2>2
<1>5. CASE Start BY <1>5, Starting
<1>6. CASE LoseCache BY <1>6, Losing
<1>7. CASE UNCHANGED vars
    BY <1>7 DEF IInv, TypeOK, UsedOK, HandlesOK, TimersOK, DiskOK, PaidOK, RecordOK,
                LockIsTheRunningTask, LogStep, Running, vars, registry, process, history
<1> QED BY <1>1, <1>2, <1>3, <1>4, <1>5, <1>6, <1>7 DEF Next

\* The inductive invariant of the registry, its file and the processes.
THEOREM RegistryInvariant == Spec => []IInv
<1>1. Init => IInv BY Initially
<1>2. IInv /\ [Next]_vars => IInv' BY Inductive
<1> QED BY <1>1, <1>2, PTL DEF Spec

\* Every variable keeps its type, through restarts, adoptions and failing writes.
THEOREM RegistryTypeCorrect == Spec => []TypeOK
<1>1. IInv => TypeOK BY DEF IInv
<1> QED BY <1>1, RegistryInvariant, PTL

\* The lock is held by the running record and by no other, for any number of runs
\* and through restarts, adoptions and failing writes.  (register, complete, load)
THEOREM LockIsTheRun == Spec => []LockIsTheRunningTask
<1>1. IInv => LockIsTheRunningTask BY DEF IInv
<1> QED BY <1>1, RegistryInvariant, PTL

\* No run whose process was recorded and whose result is there is written off as
\* crashed, but one that the wall clock killed, that ps did not show, or whose
\* result could not be read by the daemon that judged it.
\* (load, the finalize watcher)
THEOREM RunsAreBooked == Spec => []PaidRunIsNotWrittenOff
<1>1. IInv => PaidRunIsNotWrittenOff
    BY DEF IInv, PaidOK, RecordOK, PaidRunIsNotWrittenOff
<1> QED BY <1>1, RegistryInvariant, PTL

\* tasks.json is a log of the paid runs, whichever writes fail, daemons die or
\* children outlive them: it keeps every run and how it ended, shows at most one
\* as running, and starts over only when the file is lost.  (persist, load)
THEOREM RegistryRefinesLog == Spec => ImplementsRunLog
<1> DEFINE view == [t \in Tasks |-> Ended(disk[t])]
<1>1. Init => Log!LogInit
  BY DEF Init, Log!LogInit, Log!NoLog, NoRecords, Ended
<1>2. IInv /\ IInv' /\ LogStep => Log!LogNext
  <2> SUFFICES ASSUME IInv, IInv', LogStep PROVE Log!LogNext
    OBVIOUS
  <2>1. CASE disk' = NoRecords
    BY <2>1 DEF Log!LogNext, Log!Lose, Log!NoLog, NoRecords, Ended
  <2>2. CASE disk' # NoRecords
    <3>1. \A t \in Tasks : disk[t] \in Record \cup {None} /\ disk'[t] \in Record \cup {None}
      BY DEF IInv, TypeOK, Records
    <3>2. ASSUME NEW t \in Tasks
          PROVE  /\ view'[t] = Ended(disk[t])'
                 /\ view'[t] \in [status : Status, cost : Costs] \cup {None}
      BY <3>1 DEF Ended, Record, Costs
    <3>3. view' \in Log!Logs
      BY <3>2 DEF Log!Logs, Costs, Status
    <3>4. ASSUME NEW t \in Tasks, view[t] # None
          PROVE  /\ view'[t] # None
                 /\ ~Log!Open(view[t]) => view'[t] = view[t]
      <4>1. disk[t] # None /\ disk[t] \in Record
        BY <3>1, <3>4 DEF Ended
      <4>2. disk'[t] # None /\ disk'[t] \in Record
        BY <2>2, <3>1, <4>1 DEF LogStep
      <4>3. /\ view[t] = [status |-> disk[t].status, cost |-> disk[t].cost]
            /\ view'[t] = [status |-> disk'[t].status, cost |-> disk'[t].cost]
        BY <4>1, <4>2 DEF Ended
      <4>4. view'[t] # None
        BY <4>2, <4>3, TaskAssumption DEF Record
      <4>5. Log!Open(view[t]) \/ view'[t] = view[t]
        BY <2>2, <3>4, <4>1, <4>3 DEF LogStep, Log!Open, Running
      <4> QED
        BY <4>4, <4>5
    <3>5. ASSUME NEW t \in Tasks, Log!Open(view'[t]) PROVE Running(disk'[t])
      BY <3>1, <3>5 DEF Log!Open, Ended, Running
    <3>6. \A t, u \in Tasks : Running(disk'[t]) /\ Running(disk'[u]) => t = u
      BY DEF IInv, DiskOK, Running
    <3>7. Log!Write
      <4> HIDE DEF view
      <4>1. \A t, u \in Tasks : Log!Open(view'[t]) /\ Log!Open(view'[u]) => t = u
        BY <3>5, <3>6
      <4> QED
        BY <3>3, <3>4, <4>1 DEF Log!Write, view
    <3> QED
      BY <3>7 DEF Log!LogNext
  <2> QED
    BY <2>1, <2>2
<1>3. IInv /\ [Next]_vars => IInv' /\ LogStep
  BY Inductive
<1> QED
  BY <1>1, <1>2, <1>3, RegistryInvariant, PTL DEF Spec, ImplementsRunLog, Log!LogSpec

=============================================================================
