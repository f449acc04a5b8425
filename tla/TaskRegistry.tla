---------------------------- MODULE TaskRegistry ----------------------------
(***************************************************************************)
(* The paid runs the daemon starts (daemon/task-registry.ts, with the route*)
(* daemon/routes/repo-graph.tsx that drives them): one at a time, in a     *)
(* subprocess that may outlive the daemon, whose cost must be booked once. *)
(*                                                                         *)
(* Three things remember a run: the registry in memory, tasks.json, which  *)
(* every change rewrites, and the result file into which the kernel writes *)
(* the child's output.  A write of tasks.json may fail (disk full): memory *)
(* is then ahead of the disk, and what the exception does depends on where *)
(* it is thrown.                                                           *)
(***************************************************************************)
EXTENDS Naturals, FiniteSets

CONSTANTS
    Tasks,       \* task ids; each is used once
    Detached,    \* the runs that write a result file and survive the daemon
    None,        \* no record, no task
    MaxRestarts  \* bound: daemon deaths

Status == {"running", "done", "failed", "cancelled", "crashed"}

\* `pid` says whether pid and start time are recorded; `cost` is absent, null
\* or a number; `own` is false for a record the scavenger made up.
Record == [status : Status, pid : BOOLEAN, cost : {"absent", "null", "number"},
           own : BOOLEAN]

ASSUME TaskAssumption ==
    /\ Detached \subseteq Tasks
    /\ None \notin Tasks
    /\ MaxRestarts \in Nat
    /\ None \notin Record
    /\ None \notin [status : Status, cost : {"absent", "null", "number"}]

VARIABLES
    up,          \* is the daemon running?
    mem,         \* records: the registry in memory
    disk,        \* tasks.json
    activeId,    \* the one-at-a-time lock
    live,        \* live handles: "none", "bare" (no process yet) or "proc"
    watchers,    \* adopted runs a finalize watcher polls
    escalating,  \* runs with a SIGKILL timer
    route,       \* the floating promise: "none", "assembling" or "waiting"
    aborted,     \* runs whose AbortController was triggered
    child,       \* the subprocess
    file,        \* <id>.out
    fresh,       \* result files written within the freshness window
    used,        \* history: ids handed out
    killed,      \* history: runs this daemon was told to kill
    timedOut,    \* history: runs killed by the wall clock
    leaked,      \* history: runs whose process could not be recorded
    missed,      \* history: runs judged by a look that failed: at the process
                 \* of a live one (ps), or at a result that is there
    restarts     \* history: daemon deaths

registry == <<mem, activeId, live, watchers>>
process  == <<child, file, fresh>>
history  == <<used, killed, timedOut, leaked, missed, restarts>>
vars     == <<up, registry, disk, escalating, route, aborted, process, history>>

Records == [Tasks -> Record \cup {None}]
NoRecords == [t \in Tasks |-> None]

Running(r) == r # None /\ r.status = "running"
Alive(t)   == child[t] \in {"running", "termed"}

TypeOK ==
    /\ up \in BOOLEAN
    /\ mem \in Records /\ disk \in Records
    /\ activeId \in Tasks \cup {None}
    /\ live \in [Tasks -> {"none", "bare", "proc"}]
    /\ watchers \in SUBSET Tasks
    /\ escalating \in SUBSET Tasks
    /\ route \in [Tasks -> {"none", "assembling", "waiting"}]
    /\ aborted \in SUBSET Tasks
    /\ child \in [Tasks -> {"none", "running", "termed", "exited"}]
    /\ file \in [Tasks -> {"absent", "empty", "partial", "complete"}]
    /\ fresh \in SUBSET Tasks
    /\ used \in SUBSET Tasks /\ killed \in SUBSET Tasks
    /\ timedOut \in SUBSET Tasks /\ leaked \in SUBSET Tasks
    /\ missed \in SUBSET Tasks
    /\ restarts \in 0..MaxRestarts
    /\ \A t \in Tasks \ Detached : file[t] = "absent"
    /\ ~up => mem = NoRecords

Init ==
    /\ up = TRUE
    /\ mem = NoRecords /\ disk = NoRecords
    /\ activeId = None
    /\ live = [t \in Tasks |-> "none"]
    /\ watchers = {} /\ escalating = {} /\ aborted = {}
    /\ route = [t \in Tasks |-> "none"]
    /\ child = [t \in Tasks |-> "none"]
    /\ file = [t \in Tasks |-> "absent"]
    /\ fresh = {} /\ used = {} /\ killed = {} /\ timedOut = {} /\ leaked = {} /\ missed = {}
    /\ restarts = 0

-----------------------------------------------------------------------------
(* Ending a run.                                                           *)

Persist == disk' = mem'
Unsaved == disk' = disk      \* the write of tasks.json throws

\* A null patch does not erase a number; an absent one leaves the field alone.
Patched(old, cost) ==
    IF cost = "absent" \/ (cost = "null" /\ old = "number") THEN old ELSE cost

\* Mutant: the lock outlives the run.
CompleteHoldsLock(t, status, cost) ==
    /\ mem' = [mem EXCEPT ![t].status = status, ![t].cost = Patched(@, cost)]
    /\ live' = [live EXCEPT ![t] = "none"]
    /\ UNCHANGED activeId
    /\ Persist \/ Unsaved

\* Mutant: the lock is released after the write, and so not when it throws.
CompleteWritesFirst(t, status, cost) ==
    IF Running(mem[t])
    THEN /\ mem' = [mem EXCEPT ![t].status = status, ![t].cost = Patched(@, cost)]
         /\ live' = [live EXCEPT ![t] = "none"]
         /\ \/ Persist /\ activeId' = IF activeId = t THEN None ELSE activeId
            \/ Unsaved /\ UNCHANGED activeId
    ELSE UNCHANGED <<mem, live, activeId, disk>>

\* complete: the first terminal wins, takes the handle with its timer away and
\* releases the lock, all before the write that may throw; the route and the
\* cancel swallow that.
Complete(t, status, cost) ==
    IF Running(mem[t])
    THEN /\ mem' = [mem EXCEPT ![t].status = status, ![t].cost = Patched(@, cost)]
         /\ live' = [live EXCEPT ![t] = "none"]
         /\ activeId' = IF activeId = t THEN None ELSE activeId
         /\ Persist \/ Unsaved
    ELSE UNCHANGED <<mem, live, activeId, disk>>

Term(t) == child' = [child EXCEPT ![t] = IF @ = "running" THEN "termed" ELSE @]

\* killLive: SIGTERM through the controller or, for an adopted run, to the
\* pid; a SIGKILL timer where a pid is known; then the terminal.
KillLive(t, status) ==
    /\ LET pid == live[t] = "proc" \/ (live[t] = "none" /\ Running(mem[t]) /\ mem[t].pid)
       IN  escalating' = IF pid THEN escalating \cup {t} ELSE escalating
    /\ aborted' = IF live[t] # "none" THEN aborted \cup {t} ELSE aborted
    /\ Term(t)
    /\ killed' = killed \cup {t}
    /\ Complete(t, status, "null")

-----------------------------------------------------------------------------
(* The route: one run from the request to its terminal.                    *)

\* register: refused while a run is active.  When the write throws, the lock is
\* held for a run that nobody drives, until the wall clock ends it.
Register(t) ==
    /\ up /\ activeId = None /\ t \notin used
    /\ used' = used \cup {t}
    /\ mem' = [mem EXCEPT ![t] = [status |-> "running", pid |-> FALSE,
                                  cost |-> "absent", own |-> TRUE]]
    /\ live' = [live EXCEPT ![t] = "bare"]
    /\ activeId' = t
    /\ \/ Persist /\ route' = [route EXCEPT ![t] = "assembling"]
       \/ Unsaved /\ UNCHANGED route
    /\ UNCHANGED <<up, watchers, escalating, aborted, process, killed, timedOut, leaked, missed, restarts>>

\* The model is cached, the pre-check fails, or the spawn throws: no child.
EndsUnspawned(t) ==
    /\ up /\ route[t] = "assembling"
    /\ route' = [route EXCEPT ![t] = "none"]
    /\ \/ \E cost \in {"null", "number"} : Complete(t, "done", cost)
       \/ Complete(t, "failed", "absent")
    /\ UNCHANGED <<up, watchers, escalating, aborted, process, history>>

\* Mutant: every run tees its output into a result file.
SpawnedWithFile(t) ==
    /\ file' = [file EXCEPT ![t] = "empty"]
    /\ fresh' = fresh \cup {t}

\* The result file exists from the spawn on.
Spawned(t) ==
    /\ file' = [file EXCEPT ![t] = IF t \in Detached THEN "empty" ELSE "absent"]
    /\ fresh' = IF t \in Detached THEN fresh \cup {t} ELSE fresh

\* Mutant: a process that arrives after the cancel is only recorded.
SpawnForgetsCancel(t) ==
    /\ up /\ route[t] = "assembling"
    /\ route' = [route EXCEPT ![t] = "waiting"]
    /\ Spawned(t)
    /\ mem' = [mem EXCEPT ![t].pid = TRUE]
    /\ Persist
    /\ live' = [live EXCEPT ![t] = IF @ = "none" THEN "none" ELSE "proc"]
    /\ child' = [child EXCEPT ![t] = "running"]
    /\ UNCHANGED <<up, activeId, watchers, escalating, aborted, history>>

\* spawnArchToFile and attachProc, in one turn of the event loop.  A run that
\* was cancelled before it had a process is killed now.  Where ps fails there is
\* no start time to record.
Spawn(t) ==
    /\ up /\ route[t] = "assembling"
    /\ route' = [route EXCEPT ![t] = "waiting"]
    /\ Spawned(t)
    /\ \E ps \in BOOLEAN : mem' = [mem EXCEPT ![t].pid = ps]
    /\ Persist
    /\ \/ /\ live[t] # "none"
          /\ live' = [live EXCEPT ![t] = "proc"]
          /\ child' = [child EXCEPT ![t] = "running"]
          /\ UNCHANGED escalating
       \/ /\ live[t] = "none"
          /\ child' = [child EXCEPT ![t] = "termed"]
          /\ escalating' = escalating \cup {t}
          /\ UNCHANGED live
    /\ UNCHANGED <<up, activeId, watchers, aborted, history>>

\* attachProc's write throws: the run fails, a late cancel is not acted upon, and
\* the child is left alone without its prompt.
SpawnUnsaved(t) ==
    /\ up /\ route[t] = "assembling"
    /\ route' = [route EXCEPT ![t] = "none"]
    /\ Spawned(t)
    /\ child' = [child EXCEPT ![t] = "running"]
    /\ leaked' = leaked \cup {t}
    /\ mem' = [mem EXCEPT ![t].pid = TRUE,
                          ![t].status = IF @ = "running" THEN "failed" ELSE @]
    /\ live' = [live EXCEPT ![t] = "none"]
    /\ activeId' = IF activeId = t THEN None ELSE activeId
    /\ IF Running(mem[t]) THEN Persist \/ Unsaved ELSE Unsaved
    /\ UNCHANGED <<up, watchers, escalating, aborted, used, killed, timedOut, missed, restarts>>

\* The prompt cannot be written: one SIGTERM and a failed run.
StdinFails(t) ==
    /\ up /\ route[t] = "waiting"
    /\ route' = [route EXCEPT ![t] = "none"]
    /\ Term(t)
    /\ IF t \in aborted THEN UNCHANGED <<mem, live, activeId, disk>>
       ELSE Complete(t, "failed", "absent")
    /\ UNCHANGED <<up, watchers, escalating, aborted, file, fresh, history>>

\* The child is gone.  Its output makes the run done; anything else fails it,
\* unless the kill chain already said what it was.
Returns(t) ==
    /\ up /\ route[t] = "waiting" /\ child[t] = "exited"
    /\ route' = [route EXCEPT ![t] = "none"]
    /\ \/ /\ t \in Detached => file[t] = "complete"
          /\ \E cost \in {"null", "number"} : Complete(t, "done", cost)
       \/ t \notin aborted /\ Complete(t, "failed", "absent")
       \/ t \in aborted /\ UNCHANGED <<mem, live, activeId, disk>>
    /\ UNCHANGED <<up, watchers, escalating, aborted, process, history>>

\* POST /arch/cancel cancels whatever is active.
Cancel(t) ==
    /\ up /\ activeId = t
    /\ KillLive(t, "cancelled")
    /\ UNCHANGED <<up, watchers, route, file, fresh, used, timedOut, leaked, missed, restarts>>

\* The wall clock: only a run of this daemon has a timer.
TimeoutKill(t) ==
    /\ up /\ live[t] # "none"
    /\ KillLive(t, "crashed")
    /\ Persist
    /\ timedOut' = timedOut \cup {t}
    /\ UNCHANGED <<up, watchers, route, file, fresh, used, leaked, missed, restarts>>

\* The SIGKILL timer: whatever is still alive dies.
Escalate(t) ==
    /\ up /\ t \in escalating
    /\ escalating' = escalating \ {t}
    /\ child' = [child EXCEPT ![t] = "exited"]
    /\ UNCHANGED <<up, registry, disk, route, aborted, file, fresh, history>>

-----------------------------------------------------------------------------
(* The result-file oracle and what relies on it.                           *)

\* The results whose read may fail and would have said more than the failure.
Unreadable(S) == SUBSET {t \in S : file[t] = "complete"}

\* classifyResultFile.  Truncated output still counts as being written while
\* it is fresh; later a usage tail may be found in it, or not.  A file that
\* cannot be read counts as an empty one.
Verdict(t, unread) ==
    CASE file[t] = "complete" /\ t \notin unread -> {<<"done", "number">>}
      [] file[t] = "partial" /\ t \in fresh -> {<<"running", "null">>}
      [] file[t] = "partial" /\ t \notin fresh -> {<<"done", "number">>, <<"crashed", "null">>}
      [] OTHER -> {<<"crashed", "null">>}

\* With no process behind it, a run that "is being written" has crashed.
Final(status) == IF status = "running" THEN "crashed" ELSE status

\* recordCost and its callers: only a number is booked, and only once.
Booked(old, cost) == IF cost = "number" THEN "number" ELSE old

\* Mutant: the watcher writes its verdict over any record.
WatchOverwrites(t) ==
    /\ up /\ t \in watchers /\ ~Alive(t)
    /\ watchers' = watchers \ {t}
    /\ \E v \in Verdict(t, {}) :
         mem' = [mem EXCEPT ![t].status = Final(v[1]), ![t].cost = Booked(@, v[2])]
    /\ Persist
    /\ activeId' = IF activeId = t THEN None ELSE activeId
    /\ UNCHANGED <<up, live, escalating, route, aborted, process, history>>

\* The finalize watcher of an adopted run: the lock goes, written or not.
Watch(t) ==
    /\ up /\ t \in watchers /\ ~Alive(t)
    /\ watchers' = watchers \ {t}
    /\ IF Running(mem[t])
       THEN /\ \E unread \in Unreadable({t}) :
                 /\ \E v \in Verdict(t, unread) :
                      mem' = [mem EXCEPT ![t].status = Final(v[1]),
                                         ![t].cost = Booked(@, v[2])]
                 /\ missed' = missed \cup unread
            /\ Persist \/ Unsaved
       ELSE UNCHANGED <<mem, disk, missed>>
    /\ activeId' = IF activeId = t THEN None ELSE activeId
    /\ UNCHANGED <<up, live, escalating, route, aborted, process,
                   used, killed, timedOut, leaked, restarts>>

\* reconcileDead: a running record without a process is judged by its file.
Reconciled(t, unread) ==
    {[disk[t] EXCEPT !.status = Final(v[1]), !.cost = Booked(@, v[2])] : v \in Verdict(t, unread)}

\* scavenge: a file without a record gets one.
Scavenged(t, unread) ==
    {[status |-> Final(v[1]), pid |-> FALSE, cost |-> v[2], own |-> FALSE] :
        v \in Verdict(t, unread)}

Adoptable(t) == Running(disk[t]) /\ disk[t].pid /\ Alive(t)

\* Mutant: a run that was running when the daemon died has crashed.
LoadedWithoutAdoption(t, blind, unread) ==
    IF Running(disk[t]) THEN {[disk[t] EXCEPT !.status = "crashed"]} ELSE {disk[t]}

\* What load makes of t: a live one is adopted, unless ps fails on it (`blind').
Loaded(t, blind, unread) ==
    CASE Running(disk[t]) -> (IF Adoptable(t) /\ t \notin blind
                              THEN {disk[t]} ELSE Reconciled(t, unread))
      [] disk[t] = None /\ file[t] # "absent" -> Scavenged(t, unread)
      [] OTHER -> {disk[t]}

\* The daemon starts: load, adopt, scavenge.  It does not start when the write
\* throws.
Start ==
    /\ ~up
    /\ up' = TRUE
    /\ \E blind \in SUBSET {t \in Tasks : Adoptable(t)},
          unread \in Unreadable({t \in Tasks : disk[t] = None \/ Running(disk[t])}) :
         /\ mem' \in {m \in [Tasks -> UNION {Loaded(t, blind, unread) : t \in Tasks}] :
                          \A t \in Tasks : m[t] \in Loaded(t, blind, unread)}
         /\ missed' = missed \cup blind \cup unread
    /\ LET adopted == {t \in Tasks : Running(mem'[t])} IN
         /\ watchers' = adopted
         /\ activeId' \in IF adopted = {} THEN {None} ELSE adopted
    /\ Persist
    /\ UNCHANGED <<live, escalating, route, aborted, process,
                   used, killed, timedOut, leaked, restarts>>

-----------------------------------------------------------------------------
(* The daemon ends, the child runs, files are lost.                        *)

\* Everything in memory is gone, timers included: what stop() spares and what
\* a crash leaves is the same.  A child that shares our pipe may die with us.
Down ==
    /\ restarts < MaxRestarts
    /\ restarts' = restarts + 1
    /\ up' = FALSE
    /\ mem' = NoRecords /\ activeId' = None
    /\ live' = [t \in Tasks |-> "none"]
    /\ route' = [t \in Tasks |-> "none"]
    /\ watchers' = {} /\ escalating' = {} /\ aborted' = {} /\ killed' = {}
    /\ UNCHANGED <<disk, used, leaked, missed>>

Stop == up /\ Down /\ UNCHANGED <<process, timedOut>>

\* The wall clock's write throws, and nobody catches what a timer throws: the
\* daemon dies, and the child has its SIGTERM.
TimeoutThrows(t) ==
    /\ up /\ live[t] # "none"
    /\ Down
    /\ Term(t)
    /\ timedOut' = timedOut \cup {t}
    /\ UNCHANGED <<file, fresh>>

\* ... in the very moment between the spawn and the write of its pid.
CrashAtSpawn(t) ==
    /\ up /\ route[t] = "assembling"
    /\ Down
    /\ Spawned(t)
    /\ child' = [child EXCEPT ![t] = "running"]
    /\ UNCHANGED timedOut

\* The child writes the start of its output.
ChildWrites(t) ==
    /\ Alive(t) /\ file[t] = "empty"
    /\ file' = [file EXCEPT ![t] = "partial"]
    /\ fresh' = fresh \cup {t}
    /\ UNCHANGED <<up, registry, disk, escalating, route, aborted, child, history>>

\* It ends by itself, by the SIGTERM, or with its output complete.
ChildExits(t) ==
    /\ Alive(t)
    /\ child' = [child EXCEPT ![t] = "exited"]
    /\ \/ t \in Detached \ leaked /\ file' = [file EXCEPT ![t] = "complete"] /\ fresh' = fresh \cup {t}
       \/ UNCHANGED <<file, fresh>>
    /\ UNCHANGED <<up, registry, disk, escalating, route, aborted, history>>

\* Nobody writes the file for a while.
Age(t) ==
    /\ t \in fresh
    /\ fresh' = fresh \ {t}
    /\ UNCHANGED <<up, registry, disk, escalating, route, aborted, child, file, history>>

\* tasks.json is deleted or corrupt: load starts from nothing.
LoseCache ==
    /\ ~up /\ disk # NoRecords
    /\ disk' = NoRecords
    /\ UNCHANGED <<up, registry, escalating, route, aborted, process, history>>

Daemon(t) ==
    \/ Register(t) \/ EndsUnspawned(t) \/ Spawn(t) \/ SpawnUnsaved(t) \/ StdinFails(t) \/ Returns(t)
    \/ Cancel(t) \/ TimeoutKill(t) \/ Escalate(t) \/ Watch(t)

Next ==
    \/ \E t \in Tasks : Daemon(t) \/ CrashAtSpawn(t) \/ TimeoutThrows(t)
    \/ \E t \in Tasks : ChildWrites(t) \/ ChildExits(t) \/ Age(t)
    \/ Start \/ Stop \/ LoseCache

Spec == Init /\ [][Next]_vars

\* Timers fire, the watcher polls, the daemon is started again.  That a child
\* ends is assumed only where a watcher waits for it: an adopted run has no
\* other bound.
FairSpec ==
    /\ Spec
    /\ WF_vars(Start)
    /\ \A t \in Tasks :
         /\ WF_vars(TimeoutKill(t)) /\ WF_vars(Escalate(t)) /\ WF_vars(Watch(t))
         /\ WF_vars(t \in watchers /\ ChildExits(t))

-----------------------------------------------------------------------------
(* Properties.                                                             *)

\* The one-at-a-time lock and the records agree, across restarts and
\* adoptions: exactly the run that holds the lock is running.
LockIsTheRunningTask ==
    up => \A t \in Tasks : Running(mem[t]) <=> activeId = t

\* What a record of tasks.json says of how the run ended and what it cost.
Ended(r) == IF r = None THEN None ELSE [status |-> r.status, cost |-> r.cost]

Log == INSTANCE RunLog WITH
    Runs <- Tasks, Endings <- Status \ {"running"}, Costs <- {"absent", "null", "number"},
    log <- [t \in Tasks |-> Ended(disk[t])]

\* A terminal is final, on disk and across restarts: no late return, timer or
\* watcher changes how a run ended or what it cost, no write forgets a run, and
\* the file never shows two runs as running, whichever writes fail.
ImplementsRunLog == Log!LogSpec

\* A paid run is not written off: when its process was recorded and its result
\* is there, the record says crashed only of a run the wall clock killed, one that
\* ps did not show to the daemon that looked for it, or one whose result could
\* not be read by the daemon that judged it.
PaidRunIsNotWrittenOff ==
    \A t \in Tasks :
        (disk[t] # None /\ disk[t].status = "crashed" /\ disk[t].pid) =>
            (file[t] = "complete" => t \in timedOut \cup missed)

\* A killed run dies, also one that was cancelled before it had a process and
\* one that ignores SIGTERM, unless the daemon goes first, or its process could
\* not be recorded.
KilledChildDies ==
    \A t \in Tasks : (t \in killed \ leaked /\ Alive(t)) ~> (~Alive(t) \/ ~up)

\* The lock does not wedge the daemon, whatever the run does and whichever write
\* of tasks.json fails.
LockIsReleased ==
    \A t \in Tasks : activeId = t ~> activeId # t
=============================================================================
