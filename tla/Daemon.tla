------------------------------- MODULE Daemon -------------------------------
(***************************************************************************)
(* The life of the daemon (daemon/server.ts, cli/daemon.ts): a singleton   *)
(* by the lock of ProcessLock, found again by the pid in siltpoked.pid,    *)
(* and reached on one port.  It is started by anybody at any time: launchd,*)
(* the dashboard command, a Stop hook that finds none.  A newcomer takes   *)
(* the lock, sends SIGTERM to whoever the pidfile names, writes its own    *)
(* pid and binds the port.                                                 *)
(*                                                                         *)
(* SIGTERM and SIGINT each have a handler that serves once.  A daemon that *)
(* closes on the one still catches the other, and goes on leaving.         *)
(*                                                                         *)
(* Whoever leaves in an orderly way, or is turned away by the lock, is "out"*)
(* and its name may serve for another process of later.  What a pid file   *)
(* of the retired server names is not among them: see Other.               *)
(***************************************************************************)
EXTENDS ProcessLock

CONSTANT Other   \* a stranger, or the retired server, on the daemon's port

ASSUME OtherAssumption == Other \notin Procs /\ Other # None

VARIABLES
    pidfile,     \* the pid in siltpoked.pid, None without the file
    port,        \* who listens on the port: a daemon, Other, or None
    phase,       \* where each daemon is after it has the lock
    prior,       \* the pid each newcomer read from the pidfile
    handlers,    \* the signals each daemon still has a handler for
    outlived     \* history: a daemon that was leaving survived its eviction

daemonVars == <<pidfile, port, phase, prior, handlers, outlived>>
vars == <<lockVars, daemonVars>>

\* Past the write of its pid.
Written == {"bind", "bound", "serve", "closing", "release", "unlink"}

Phases == {"none", "evict", "kill", "pid"} \cup Written

Signals == {"SIGTERM", "SIGINT"}

TypeOK ==
    /\ LockTypeOK
    /\ pidfile \in Procs \cup {None}
    /\ port \in Procs \cup {None, Other}
    /\ phase \in [Procs -> Phases]
    /\ prior \in [Procs -> Procs \cup {None}]
    /\ handlers \in [Procs -> SUBSET Signals]
    /\ outlived \in BOOLEAN

Init ==
    /\ LockInit
    /\ pidfile = None
    /\ port \in {None, Other}
    /\ phase = [p \in Procs |-> "none"]
    /\ prior = [p \in Procs |-> None]
    /\ handlers = [p \in Procs |-> {}]
    /\ outlived = FALSE

-----------------------------------------------------------------------------
To(p, from, to) ==
    /\ p \in alive /\ phase[p] = from
    /\ phase' = [phase EXCEPT ![p] = to]

\* A process that ends leaves the port to the next one, by the kernel.
PortWithout(p) == IF port = p THEN None ELSE port

\* A signal to q, with the phases of the others in ph.  It closes a daemon that
\* serves, and uses its handler up; the other handler stays, and what comes to it
\* then changes nothing: stopDaemon runs on, and the process exits.  A signal
\* without a handler kills, unless it is one with that under way.
Signal(sig, q, ph) ==
    \/ /\ sig \in handlers[q] /\ phase[q] = "serve"
       /\ phase' = [ph EXCEPT ![q] = "closing"]
       /\ handlers' = [handlers EXCEPT ![q] = @ \ {sig}]
       /\ UNCHANGED <<lockVars, port>>
    \/ /\ phase[q] # "serve"
       /\ sig \in handlers[q] \/ phase[q] = "closing"
       /\ phase' = ph
       /\ UNCHANGED <<lockVars, port, handlers>>
    \/ /\ sig \notin handlers[q]
       /\ Die(q)
       /\ phase' = [ph EXCEPT ![q] = "none"]
       /\ port' = PortWithout(q)
       /\ handlers' = [handlers EXCEPT ![q] = {}]

\* Mutant: a lock that is held by a daemon that does not answer is recovered.
TakeOverLock(p) ==
    /\ phase[p] = "none"
    /\ \/ /\ Mkdir(p) /\ \A q \in alive : prior[q] # p
          /\ UNCHANGED phase
       \/ /\ at[p] = "check" /\ owner \in alive
          /\ Step(p, "check", "held")
          /\ phase' = [phase EXCEPT ![p] = "evict"]
          /\ UNCHANGED <<dir, owner, saw, alive, maker, raced>>
       \/ (Check(p) \/ Remove(p) \/ Remake(p)) /\ UNCHANGED phase
    /\ UNCHANGED <<pidfile, port, prior, handlers, outlived>>

\* acquireDaemonLock, up to the lock: who is turned away exits, with 0 or 1 as
\* the port answers or not.  A name is not used again while a newcomer is about
\* to signal it: pids are not reused that fast.
TakeLock(p) ==
    /\ phase[p] = "none"
    /\ \/ Mkdir(p) /\ \A q \in alive : prior[q] # p
       \/ Check(p) \/ Remove(p) \/ Remake(p)
    /\ UNCHANGED daemonVars

Locked(p) ==
    /\ WriteOwner(p)
    /\ phase' = [phase EXCEPT ![p] = "evict"]
    /\ UNCHANGED <<pidfile, port, prior, handlers, outlived>>

\* evictPriorPortHolder reads the pid ...
ReadPid(p) ==
    /\ To(p, "evict", "kill")
    /\ prior' = [prior EXCEPT ![p] = pidfile]
    /\ UNCHANGED <<lockVars, pidfile, port, handlers, outlived>>

\* Mutant: only who still has the port is in the way.
VictimsOnPort(p) == {q \in alive \ {p} : q = prior[p] /\ q = port}

\* A newcomer signals nobody that has ended, and not itself.
Victims(p) == {q \in alive \ {p} : q = prior[p] /\ phase[q] # "none"}

\* ... and signals it, if it runs.  The wait for the port that follows ends
\* after half a second, whatever it saw.
Evict(p) ==
    /\ p \in alive /\ phase[p] = "kill"
    /\ \/ /\ Victims(p) = {} /\ To(p, "kill", "pid")
          /\ UNCHANGED <<lockVars, port, handlers, outlived>>
       \/ \E q \in Victims(p) :
             /\ Signal("SIGTERM", q, [phase EXCEPT ![p] = "pid"])
             /\ outlived' = (outlived \/ (phase[q] # "serve" /\ q \in alive'))
    /\ prior' = [prior EXCEPT ![p] = None]
    /\ UNCHANGED pidfile

WritePid(p) ==
    /\ To(p, "pid", "bind")
    /\ pidfile' = p
    /\ UNCHANGED <<lockVars, port, prior, handlers, outlived>>

\* Bun.serve.  When the port is taken resolveBindFailure gives everything back.
Bind(p) ==
    /\ \/ port = None /\ To(p, "bind", "bound") /\ port' = p
       \/ port # None /\ To(p, "bind", "release") /\ UNCHANGED port
    /\ UNCHANGED <<lockVars, pidfile, prior, handlers, outlived>>

\* The two signal handlers, after the retention settings were awaited.
Install(p) ==
    /\ To(p, "bound", "serve")
    /\ handlers' = [handlers EXCEPT ![p] = Signals]
    /\ UNCHANGED <<lockVars, pidfile, port, prior, outlived>>

\* stopDaemon: server.stop(true), ...
Close(p) ==
    /\ To(p, "closing", "release")
    /\ port' = PortWithout(p)
    /\ UNCHANGED <<lockVars, pidfile, prior, handlers, outlived>>

\* ... releaseLock, ...
Leave(p) ==
    /\ To(p, "release", "unlink")
    /\ Release(p)
    /\ UNCHANGED <<pidfile, port, prior, handlers, outlived>>

\* ... and the pidfile, whoever it names; then the process exits.
Unlink(p) ==
    /\ To(p, "unlink", "none")
    /\ pidfile' = None
    /\ handlers' = [handlers EXCEPT ![p] = {}]
    /\ UNCHANGED <<lockVars, port, prior, outlived>>

Advance(p) ==
    \/ TakeLock(p) \/ Locked(p) \/ ReadPid(p) \/ Evict(p) \/ WritePid(p) \/ Bind(p)
    \/ Install(p) \/ Close(p) \/ Leave(p) \/ Unlink(p)

\* It dies anywhere, is killed, or ends itself with its lock directory gone.
End(p) ==
    /\ Die(p) \/ FailClosed(p)
    /\ phase' = [phase EXCEPT ![p] = "none"]
    /\ prior' = [prior EXCEPT ![p] = None]
    /\ port' = PortWithout(p)
    /\ handlers' = [handlers EXCEPT ![p] = {}]
    /\ UNCHANGED <<pidfile, outlived>>

\* siltpoked stop and the dashboard's restart: SIGTERM to a pid that was in the
\* pidfile when it was read, which may be long ago.
Stop(p) ==
    /\ p \in alive /\ phase[p] \in Written
    /\ Signal("SIGTERM", p, phase)
    /\ UNCHANGED <<pidfile, prior, outlived>>

\* Ctrl-C, to a daemon with its handlers in place: End is the one without.
Interrupt(p) ==
    /\ p \in alive /\ handlers[p] # {}
    /\ Signal("SIGINT", p, phase)
    /\ UNCHANGED <<pidfile, prior, outlived>>

\* The port is lent to others too.
Foreign ==
    /\ \/ port = None /\ port' = Other
       \/ port = Other /\ port' = None
    /\ UNCHANGED <<lockVars, pidfile, phase, prior, handlers, outlived>>

Next == Foreign \/ \E p \in Procs : Advance(p) \/ End(p) \/ Stop(p) \/ Interrupt(p)

Spec == Init /\ [][Next]_vars

\* A daemon that runs goes on, and one that ended is started again: KeepAlive,
\* the Stop hook's respawn.
FairSpec == Spec /\ \A p \in Procs : WF_vars(Advance(p))

-----------------------------------------------------------------------------
(* Properties.                                                             *)

\* A daemon that listens has the lock and is the one the pidfile names: that is
\* how stop, restart and the dashboard find it.  The one that leaves removes
\* the pidfile after the lock, without a look at the name in it; the next is
\* saved by its eviction, which ends that process first.  Only one that leaves
\* on Ctrl-C has a handler left to outlive the eviction with, and then takes its
\* successor's pidfile away: from there on only the lock is promised.
\* (server.ts:804-805, 829-843)
ServerIsKnown ==
    ~raced => \A p \in Procs : port = p => Holds(p) /\ (outlived \/ pidfile = p)

\* A newcomer never shoots a daemon that serves: it evicts under the lock, and
\* the one that serves has that.  (server.ts:324-341)
NewcomerSparesServer ==
    ~raced => \A p \in alive : phase[p] = "kill" => port \notin Victims(p)

\* Wherever a daemon died, and whatever it left behind, a daemon alone on its
\* machine takes the lock again and again, and listens again and again once no
\* stranger has the port.  (process-lock.ts:83-109, server.ts:219-270)
LoneDaemonServes ==
    \A p \in Procs : <>[](alive = {p}) =>
        /\ []<>Holds(p)
        /\ <>[](port # Other) => []<>(port = p)

-----------------------------------------------------------------------------
\* From the lock to its release.
Holding == Phases \ {"none", "unlink"}

\* Who leaves has released the lock and is about to remove the pidfile: it is
\* named in it, every newcomer that may evict has read that name, and nobody
\* that evicted is left with it.
LeavingIsSeen ==
    /\ \A p \in Procs : phase[p] \in Written => pidfile = p
    /\ \A p, q \in Procs :
         phase[q] = "unlink" => /\ phase[p] = "kill" => prior[p] = q
                                /\ phase[p] # "pid"

\* Inductive: the phases go with the lock, and the port with the phases.
DaemonIInv ==
    /\ TypeOK
    /\ LockIInv
    /\ \A p \in Procs :
         /\ phase[p] # "none" => p \in alive
         /\ p \in alive => (at[p] = "held" <=> phase[p] \in Holding)
         /\ port = p => phase[p] \in {"bound", "serve", "closing"}
    /\ ~(raced \/ outlived) => LeavingIsSeen
=============================================================================
