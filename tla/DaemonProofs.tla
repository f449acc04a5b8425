---------------------------- MODULE DaemonProofs ----------------------------
(***************************************************************************)
(* For any number of daemons: they use the lock as ProcessLock specifies,  *)
(* so what is proved of the lock holds of them, and outside its two races  *)
(* the daemon that listens has the lock, and is the one the pidfile names  *)
(* as long as nobody on the way out has outlived an eviction.              *)
(***************************************************************************)
EXTENDS Daemon, ProcessLockProofs

LEMMA InitDaemonIInv == Init => DaemonIInv
<1> SUFFICES ASSUME Init PROVE DaemonIInv
  OBVIOUS
<1>1. LockIInv /\ TypeOK
  BY InitLockIInv DEF Init, LockIInv, TypeOK, Phases, Written
<1>2. LeavingIsSeen
  BY DEF Init, LeavingIsSeen, Written
<1> QED
  BY <1>1, <1>2, ProcAssumption, OtherAssumption DEF Init, LockInit, DaemonIInv, Holding

-----------------------------------------------------------------------------
(* The lock.                                                               *)

\* A signal is the death of its target or nothing, to the lock.
LEMMA SignalLockStep ==
    ASSUME NEW sig, NEW q \in Procs, NEW STATE ph, Signal(sig, q, ph)
    PROVE  [LockNext]_lockVars
  BY DEF Signal, LockNext

LEMMA VictimsAreDaemons ==
    ASSUME LockTypeOK, NEW p \in Procs PROVE Victims(p) \subseteq Procs
  BY DEF LockTypeOK, Victims

\* What a daemon does to the lock is what ProcessLock lets a process do.
LEMMA LockStep == LockTypeOK /\ [Next]_vars => [LockNext]_lockVars
<1> SUFFICES ASSUME LockTypeOK, [Next]_vars PROVE [LockNext]_lockVars
  OBVIOUS
<1>1. CASE UNCHANGED vars \/ Foreign
  BY <1>1 DEF vars, Foreign
<1>2. ASSUME NEW p \in Procs, TakeLock(p) \/ Locked(p) \/ Leave(p) \/ End(p)
      PROVE  [LockNext]_lockVars
  BY <1>2 DEF TakeLock, Locked, Leave, End, LockNext, Acquire
<1>3. ASSUME NEW p \in Procs, Evict(p) PROVE [LockNext]_lockVars
  BY <1>3, VictimsAreDaemons, SignalLockStep DEF Evict
<1>4. ASSUME NEW p \in Procs, Stop(p) \/ Interrupt(p) PROVE [LockNext]_lockVars
  BY <1>4, SignalLockStep DEF Stop, Interrupt
<1>5. ASSUME NEW p \in Procs, \/ ReadPid(p) \/ WritePid(p) \/ Bind(p)
                              \/ Install(p) \/ Close(p) \/ Unlink(p)
      PROVE  [LockNext]_lockVars
  BY <1>5 DEF ReadPid, WritePid, Bind, Install, Close, Unlink
<1> QED
  BY <1>1, <1>2, <1>3, <1>4, <1>5 DEF Next, Advance

\* Hence the lock's own invariant holds of the daemons too.
LEMMA LockIInvNext == LockIInv /\ [Next]_vars => LockIInv'
  BY LockStep, NextLockIInv DEF LockIInv

\* The daemons use the lock as it is specified.
THEOREM DaemonUsesLock == Spec => LockSpec
<1>1. Init => LockIInv /\ LockInit
  BY InitLockIInv DEF Init
<1>2. LockIInv /\ [Next]_vars => LockIInv'
  BY LockIInvNext
<1>3. LockIInv /\ [Next]_vars => [LockNext]_lockVars
  BY LockStep DEF LockIInv
<1> QED
  BY <1>1, <1>2, <1>3, PTL DEF Spec, LockSpec

-----------------------------------------------------------------------------
(* The phases, the port and the pidfile.                                   *)

\* Before a race no two daemons have the lock.
LEMMA OneHolds ==
    ASSUME DaemonIInv, ~raced, NEW p \in Procs, NEW q \in Procs,
           phase[p] \in Holding, phase[q] \in Holding
    PROVE  p = q
<1>1. p \in alive /\ q \in alive /\ at[p] = "held" /\ at[q] = "held"
  BY DEF DaemonIInv, Holding
<1> QED
  BY <1>1 DEF DaemonIInv, LockIInv

LEMMA TakeLockIInv ==
    ASSUME DaemonIInv, LockIInv', NEW p \in Procs, TakeLock(p) PROVE DaemonIInv'
<1>1. UNCHANGED <<alive, pidfile, port, phase, prior, handlers, outlived>>
  BY DEF TakeLock, daemonVars, Mkdir, Check, Remove, Remake
<1>2. phase[p] = "none" /\ raced \in BOOLEAN /\ (~raced' => ~raced)
  BY DEF TakeLock, Mkdir, Check, Remove, Remake, DaemonIInv, TypeOK, LockTypeOK
<1>3. p \in alive /\ at'[p] # "held" /\ \A q \in Procs \ {p} : at'[q] = at[q]
  BY DEF TakeLock, Mkdir, Check, Remove, Remake, Step, DaemonIInv, TypeOK, LockTypeOK
<1> QED
  BY <1>1, <1>2, <1>3 DEF DaemonIInv, TypeOK, LockIInv, LeavingIsSeen, Holding

LEMMA LockedIInv ==
    ASSUME DaemonIInv, LockIInv', NEW p \in Procs, Locked(p) PROVE DaemonIInv'
<1>1. /\ UNCHANGED <<alive, raced, pidfile, port, prior, handlers, outlived>>
      /\ phase' = [phase EXCEPT ![p] = "evict"]
      /\ p \in alive /\ at' = [at EXCEPT ![p] = "held"] /\ at[p] = "own"
  BY DEF Locked, WriteOwner, Step
<1>2. phase[p] \notin Holding
  BY <1>1 DEF DaemonIInv
<1> QED
  BY <1>1, <1>2 DEF DaemonIInv, TypeOK, LockIInv, LockTypeOK, LeavingIsSeen, Holding, Phases, Written

\* A step from one phase to another that keeps the lock.
LEMMA HoldingStep ==
    ASSUME DaemonIInv, LockIInv', UNCHANGED lockVars, NEW p \in Procs,
           NEW from \in Holding, NEW to \in Holding, To(p, from, to),
           pidfile' \in Procs \cup {None}, port' \in Procs \cup {None, Other},
           prior' \in [Procs -> Procs \cup {None}],
           handlers' \in [Procs -> SUBSET Signals], UNCHANGED outlived,
           \A q \in Procs : port' = q => phase'[q] \in {"bound", "serve", "closing"},
           ~(raced \/ outlived) => LeavingIsSeen'
    PROVE  DaemonIInv'
<1>1. /\ UNCHANGED <<at, alive, raced>> /\ LockTypeOK'
      /\ p \in alive /\ phase[p] = from /\ phase' = [phase EXCEPT ![p] = to]
  BY DEF lockVars, To, LockIInv
<1>2. phase' \in [Procs -> Phases]
  BY <1>1 DEF DaemonIInv, TypeOK, Holding
<1> QED
  BY <1>1, <1>2 DEF DaemonIInv, TypeOK, Holding

LEMMA ReadPidIInv ==
    ASSUME DaemonIInv, LockIInv', NEW p \in Procs, ReadPid(p) PROVE DaemonIInv'
<1>1. To(p, "evict", "kill") /\ UNCHANGED <<lockVars, pidfile, port, handlers, outlived>>
      /\ prior' = [prior EXCEPT ![p] = pidfile]
  BY DEF ReadPid
<1>2. ~(raced \/ outlived) => LeavingIsSeen'
  BY <1>1 DEF DaemonIInv, TypeOK, LeavingIsSeen, To, Written
<1>3. prior' \in [Procs -> Procs \cup {None}]
  BY <1>1 DEF DaemonIInv, TypeOK
<1> QED
  BY <1>1, <1>2, <1>3, HoldingStep DEF DaemonIInv, TypeOK, To, Holding, Phases, Written

\* Nobody is named in the pidfile that has not left it: the newcomer is alone.
LEMMA WritePidIInv ==
    ASSUME DaemonIInv, LockIInv', NEW p \in Procs, WritePid(p) PROVE DaemonIInv'
<1>1. /\ To(p, "pid", "bind") /\ UNCHANGED <<lockVars, port, prior, handlers, outlived>>
      /\ pidfile' = p /\ phase[p] = "pid" /\ phase' = [phase EXCEPT ![p] = "bind"]
  BY DEF WritePid, To
<1>2. ASSUME ~raced, ~outlived PROVE LeavingIsSeen'
  <2>1. \A q \in Procs \ {p} : phase[q] \notin Holding
    BY <1>1, <1>2, OneHolds DEF Holding, Phases
  <2>2. \A q \in Procs \ {p} : phase[q] \notin Written
    BY <1>1, <1>2, <2>1 DEF DaemonIInv, LeavingIsSeen, Holding, Phases, Written
  <2> QED
    BY <1>1, <2>1, <2>2 DEF DaemonIInv, TypeOK, LeavingIsSeen, Written
<1>3. \A q \in Procs : port' = q => phase'[q] \in {"bound", "serve", "closing"}
  BY <1>1 DEF DaemonIInv, TypeOK
<1>4. /\ "pid" \in Holding /\ "bind" \in Holding
      /\ pidfile' \in Procs \cup {None} /\ port' \in Procs \cup {None, Other}
      /\ prior' \in [Procs -> Procs \cup {None}]
      /\ handlers' \in [Procs -> SUBSET Signals]
  BY <1>1 DEF DaemonIInv, TypeOK, Holding, Phases, Written
<1> QED
  BY <1>1, <1>2, <1>3, <1>4, HoldingStep

LEMMA ServeIInv ==
    ASSUME DaemonIInv, LockIInv', NEW p \in Procs, Bind(p) \/ Install(p) \/ Close(p)
    PROVE  DaemonIInv'
<1>1. /\ UNCHANGED <<lockVars, pidfile, prior, outlived>>
      /\ handlers' \in [Procs -> SUBSET Signals]
  BY DEF Bind, Install, Close, DaemonIInv, TypeOK
<1>2. PICK from \in {"bind", "bound", "closing"}, to \in {"bound", "serve", "release"} :
         /\ To(p, from, to)
         /\ port' \in {port, p} \cup {None}
         /\ to = "release" => port' # p
         /\ port' = p => port = p \/ to = "bound"
  <2>0. phase[p] = "bind" => port # p
    BY DEF DaemonIInv
  <2>1. CASE Bind(p)
    BY <2>0, <2>1 DEF Bind, To
  <2>2. CASE Install(p)
    BY <2>2 DEF Install
  <2>3. CASE Close(p)
    BY <2>3, ProcAssumption DEF Close, PortWithout
  <2> QED
    BY <2>1, <2>2, <2>3
<1>3. phase[p] = from /\ phase' = [phase EXCEPT ![p] = to]
  BY <1>2 DEF To
<1>4. \A q \in Procs : port' = q => phase'[q] \in {"bound", "serve", "closing"}
  BY <1>2, <1>3, ProcAssumption DEF DaemonIInv, TypeOK
<1>5. ~(raced \/ outlived) => LeavingIsSeen'
  BY <1>1, <1>3 DEF DaemonIInv, TypeOK, LeavingIsSeen, Written
<1>6. /\ from \in Holding /\ to \in Holding
      /\ pidfile' \in Procs \cup {None} /\ port' \in Procs \cup {None, Other}
      /\ prior' \in [Procs -> Procs \cup {None}]
  BY <1>1, <1>2 DEF DaemonIInv, TypeOK, Holding, Phases, Written
<1> QED
  BY <1>1, <1>2, <1>4, <1>5, <1>6, HoldingStep

\* releaseLock: it was the last to write the pidfile, and the one daemon that
\* could have read it.
LEMMA LeaveIInv ==
    ASSUME DaemonIInv, LockIInv', NEW p \in Procs, Leave(p) PROVE DaemonIInv'
<1>1. /\ phase[p] = "release" /\ phase' = [phase EXCEPT ![p] = "unlink"]
      /\ at' = [at EXCEPT ![p] = "out"]
      /\ UNCHANGED <<alive, raced, pidfile, port, prior, handlers, outlived>>
  BY DEF Leave, To, Release, Step
<1>2. ASSUME ~raced, ~outlived PROVE LeavingIsSeen'
  <2>1. \A q \in Procs \ {p} : phase[q] \notin Holding
    BY <1>1, <1>2, OneHolds DEF Holding, Phases, Written
  <2> QED
    BY <1>1, <1>2, <2>1 DEF DaemonIInv, TypeOK, LeavingIsSeen, Holding, Phases, Written
<1>3. LockTypeOK' /\ phase' \in [Procs -> Phases]
  BY <1>1 DEF LockIInv, DaemonIInv, TypeOK, Phases, Written
<1> QED
  BY <1>1, <1>2, <1>3 DEF DaemonIInv, TypeOK, LockTypeOK, Holding

\* A newcomer that has the lock has ended it, or will.
LEMMA UnlinkIInv ==
    ASSUME DaemonIInv, LockIInv', NEW p \in Procs, Unlink(p) PROVE DaemonIInv'
<1>1. /\ phase[p] = "unlink" /\ phase' = [phase EXCEPT ![p] = "none"]
      /\ pidfile' = None /\ handlers' = [handlers EXCEPT ![p] = {}]
      /\ UNCHANGED <<lockVars, port, prior, outlived>>
  BY DEF Unlink, To
<1>2. UNCHANGED <<at, alive, raced>> /\ LockTypeOK'
  BY <1>1 DEF lockVars, LockIInv
<1>3. ASSUME ~raced, ~outlived PROVE LeavingIsSeen'
  <2>1. \A q \in Procs \ {p} : phase[q] \notin Written
    BY <1>1, <1>3 DEF DaemonIInv, LeavingIsSeen, Written
  <2> QED
    BY <1>1, <1>3, <2>1 DEF DaemonIInv, TypeOK, LeavingIsSeen, Written
<1> QED
  BY <1>1, <1>2, <1>3 DEF DaemonIInv, TypeOK, Holding, Phases, Written

\* A process that ends takes the port and its place with it.
LEMMA EndedIInv ==
    ASSUME DaemonIInv, LockIInv', NEW p \in Procs, Die(p) \/ FailClosed(p),
           phase' = [phase EXCEPT ![p] = "none"], port' = PortWithout(p),
           prior' \in [Procs -> Procs \cup {None}],
           \A q \in Procs \ {p} : prior'[q] = prior[q],
           handlers' = [handlers EXCEPT ![p] = {}], UNCHANGED <<pidfile, outlived>>
    PROVE  DaemonIInv'
<1>1. alive' = alive \ {p} /\ UNCHANGED <<at, raced>> /\ LockTypeOK'
  BY DEF Die, FailClosed, LockIInv
<1>2. ~(raced \/ outlived) => LeavingIsSeen'
  BY <1>1 DEF DaemonIInv, TypeOK, LeavingIsSeen, Written
<1>3. \A q \in Procs : port' = q => q # p /\ port = q
  BY ProcAssumption DEF PortWithout
<1> QED
  BY <1>1, <1>2, <1>3 DEF DaemonIInv, TypeOK, PortWithout, Phases

\* A signal to p alone: it closes, goes on closing, or ends.
LEMMA SignalledIInv ==
    ASSUME DaemonIInv, LockIInv', NEW sig, NEW p \in Procs, Signal(sig, p, phase),
           UNCHANGED <<pidfile, prior, outlived>>
    PROVE  DaemonIInv'
<1>1. CASE /\ Die(p) /\ phase' = [phase EXCEPT ![p] = "none"] /\ port' = PortWithout(p)
           /\ handlers' = [handlers EXCEPT ![p] = {}]
  BY <1>1, EndedIInv DEF DaemonIInv, TypeOK
<1>2. CASE /\ phase[p] = "serve"
           /\ phase' = [phase EXCEPT ![p] = "closing"]
           /\ handlers' = [handlers EXCEPT ![p] = @ \ {sig}]
           /\ UNCHANGED <<lockVars, port>>
  <2>1. To(p, "serve", "closing") /\ handlers' \in [Procs -> SUBSET Signals]
    BY <1>2 DEF To, DaemonIInv, TypeOK
  <2>2. ~(raced \/ outlived) => LeavingIsSeen'
    BY <1>2 DEF lockVars, DaemonIInv, TypeOK, LeavingIsSeen, Written
  <2> QED
    BY <1>2, <2>1, <2>2, HoldingStep DEF DaemonIInv, TypeOK, Holding, Phases, Written
<1>3. CASE UNCHANGED <<lockVars, port, phase, handlers>>
  BY <1>3 DEF lockVars, DaemonIInv, TypeOK, LockIInv, LeavingIsSeen
<1> QED
  BY <1>1, <1>2, <1>3 DEF Signal

\* After its eviction a newcomer finds nobody about to remove the pidfile: who
\* was, it had read the name of, and has ended, or outlived it.
LEMMA EvictIInv ==
    ASSUME DaemonIInv, LockIInv', NEW p \in Procs, Evict(p) PROVE DaemonIInv'
<1>1. /\ p \in alive /\ phase[p] = "kill" /\ pidfile' = pidfile
      /\ prior' = [prior EXCEPT ![p] = None]
      /\ LockTypeOK'
  BY DEF Evict, LockIInv
<1>2. prior' \in [Procs -> Procs \cup {None}]
  BY <1>1 DEF DaemonIInv, TypeOK
<1>3. CASE /\ Victims(p) = {} /\ To(p, "kill", "pid")
           /\ UNCHANGED <<lockVars, port, handlers, outlived>>
  <2>1. phase' = [phase EXCEPT ![p] = "pid"]
    BY <1>3 DEF To
  <2>2. ASSUME ~raced, ~outlived, NEW q \in Procs PROVE phase[q] # "unlink"
    <3>1. SUFFICES ASSUME phase[q] = "unlink" PROVE FALSE
      OBVIOUS
    <3>2. prior[p] = q /\ q \in alive /\ q # p
      BY <1>1, <2>2, <3>1 DEF DaemonIInv, LeavingIsSeen
    <3> QED
      BY <1>3, <3>1, <3>2 DEF Victims
  <2>3. ~(raced \/ outlived) => LeavingIsSeen'
    BY <1>1, <2>1, <2>2 DEF DaemonIInv, TypeOK, LeavingIsSeen, Written
  <2>4. \A q \in Procs : port' = q => phase'[q] \in {"bound", "serve", "closing"}
    BY <1>1, <1>3, <2>1 DEF DaemonIInv, TypeOK
  <2>5. /\ "kill" \in Holding /\ "pid" \in Holding /\ UNCHANGED lockVars
        /\ pidfile' \in Procs \cup {None} /\ port' \in Procs \cup {None, Other}
        /\ handlers' \in [Procs -> SUBSET Signals]
    BY <1>1, <1>3 DEF DaemonIInv, TypeOK, Holding, Phases, Written
  <2> QED
    BY <1>1, <1>2, <1>3, <2>3, <2>4, <2>5, HoldingStep
<1>4. ASSUME NEW q \in Victims(p), Signal("SIGTERM", q, [phase EXCEPT ![p] = "pid"]),
             outlived' = (outlived \/ (phase[q] # "serve" /\ q \in alive'))
      PROVE  DaemonIInv'
  <2>1. q \in Procs /\ q \in alive /\ q # p /\ q = prior[p] /\ phase[q] # "none"
    BY <1>4 DEF Victims, DaemonIInv, LockIInv, LockTypeOK
  <2>2. outlived' \in BOOLEAN /\ (outlived => outlived')
    BY <1>4 DEF DaemonIInv, TypeOK
  <2>3. CASE /\ phase[q] = "serve" /\ UNCHANGED <<lockVars, port>>
             /\ phase' = [phase EXCEPT ![p] = "pid", ![q] = "closing"]
             /\ handlers' = [handlers EXCEPT ![q] = @ \ {"SIGTERM"}]
    <3>1. UNCHANGED <<at, alive, raced>>
      BY <2>3 DEF lockVars
    <3>2. raced
      BY <1>1, <2>1, <2>3, OneHolds DEF Holding, Phases, Written
    <3>3. phase' \in [Procs -> Phases] /\ handlers' \in [Procs -> SUBSET Signals]
      BY <2>3 DEF DaemonIInv, TypeOK, Phases, Written
    <3> QED
      BY <1>1, <1>2, <2>1, <2>2, <2>3, <3>1, <3>2, <3>3
         DEF DaemonIInv, TypeOK, Holding, Phases, Written
  <2>4. CASE /\ phase[q] # "serve" /\ UNCHANGED <<lockVars, port, handlers>>
             /\ phase' = [phase EXCEPT ![p] = "pid"]
    <3>1. UNCHANGED <<at, alive, raced>> /\ outlived'
      BY <1>4, <2>1, <2>4 DEF lockVars
    <3>2. phase' \in [Procs -> Phases]
      BY <2>4 DEF DaemonIInv, TypeOK, Phases
    <3> QED
      BY <1>1, <1>2, <2>2, <2>4, <3>1, <3>2
         DEF DaemonIInv, TypeOK, Holding, Phases, Written
  <2>5. CASE /\ Die(q) /\ port' = PortWithout(q)
             /\ phase' = [phase EXCEPT ![p] = "pid", ![q] = "none"]
             /\ handlers' = [handlers EXCEPT ![q] = {}]
    <3>1. alive' = alive \ {q} /\ UNCHANGED <<at, raced>>
      BY <2>5 DEF Die
    <3>2. ASSUME ~raced, ~outlived PROVE LeavingIsSeen'
      <4>1. \A r \in Procs : phase[r] = "unlink" => r = q
        BY <1>1, <2>1, <3>2 DEF DaemonIInv, LeavingIsSeen
      <4> QED
        BY <1>1, <2>1, <2>5, <3>2, <4>1 DEF DaemonIInv, TypeOK, LeavingIsSeen, Written
    <3>3. phase' \in [Procs -> Phases] /\ handlers' \in [Procs -> SUBSET Signals]
      BY <2>5 DEF DaemonIInv, TypeOK, Phases
    <3>4. \A r \in Procs : port' = r => r # q /\ port = r
      BY <2>1, <2>5, ProcAssumption DEF PortWithout
    <3>5. port' \in Procs \cup {None, Other}
      BY <2>5 DEF PortWithout, DaemonIInv, TypeOK
    <3> QED
      BY <1>1, <1>2, <2>1, <2>2, <2>5, <3>1, <3>2, <3>3, <3>4, <3>5
         DEF DaemonIInv, TypeOK, Holding, Phases, Written
  <2>6. \/ /\ phase[q] = "serve" /\ UNCHANGED <<lockVars, port>>
           /\ phase' = [phase EXCEPT ![p] = "pid", ![q] = "closing"]
           /\ handlers' = [handlers EXCEPT ![q] = @ \ {"SIGTERM"}]
        \/ /\ phase[q] # "serve" /\ UNCHANGED <<lockVars, port, handlers>>
           /\ phase' = [phase EXCEPT ![p] = "pid"]
        \/ /\ Die(q) /\ port' = PortWithout(q)
           /\ phase' = [phase EXCEPT ![p] = "pid", ![q] = "none"]
           /\ handlers' = [handlers EXCEPT ![q] = {}]
    BY <1>4, <2>1 DEF Signal, DaemonIInv, TypeOK
  <2> QED
    BY <2>3, <2>4, <2>5, <2>6
<1> QED
  BY <1>3, <1>4 DEF Evict

LEMMA ForeignIInv ==
    ASSUME DaemonIInv, LockIInv', Foreign PROVE DaemonIInv'
  BY ProcAssumption, OtherAssumption
     DEF DaemonIInv, TypeOK, LockIInv, Foreign, lockVars, LeavingIsSeen

-----------------------------------------------------------------------------
LEMMA NextDaemonIInv == DaemonIInv /\ [Next]_vars => DaemonIInv'
<1> SUFFICES ASSUME DaemonIInv, [Next]_vars PROVE DaemonIInv'
  OBVIOUS
<1>1. LockIInv'
  BY LockIInvNext DEF DaemonIInv
<1>2. CASE UNCHANGED vars
  BY <1>1, <1>2 DEF vars, lockVars, daemonVars, DaemonIInv, TypeOK, LockIInv, LeavingIsSeen
<1>3. ASSUME NEW p \in Procs, Advance(p) PROVE DaemonIInv'
  BY <1>1, <1>3, TakeLockIInv, LockedIInv, ReadPidIInv, EvictIInv, WritePidIInv,
     ServeIInv, LeaveIInv, UnlinkIInv DEF Advance
<1>4. ASSUME NEW p \in Procs, End(p) PROVE DaemonIInv'
  <2>1. prior' \in [Procs -> Procs \cup {None}] /\ \A q \in Procs \ {p} : prior'[q] = prior[q]
    BY <1>4 DEF End, DaemonIInv, TypeOK
  <2> QED
    BY <1>1, <1>4, <2>1, EndedIInv DEF End
<1>5. ASSUME NEW p \in Procs, Stop(p) \/ Interrupt(p) PROVE DaemonIInv'
  BY <1>1, <1>5, SignalledIInv DEF Stop, Interrupt
<1> QED
  BY <1>1, <1>2, <1>3, <1>4, <1>5, ForeignIInv DEF Next

\* Before a race whoever listens has the lock, so no newcomer has it.
LEMMA IInvServer == DaemonIInv => ServerIsKnown /\ NewcomerSparesServer
<1> SUFFICES ASSUME DaemonIInv PROVE ServerIsKnown /\ NewcomerSparesServer
  OBVIOUS
<1>1. ServerIsKnown
  BY DEF ServerIsKnown, DaemonIInv, LeavingIsSeen, Holds, Holding, Phases, Written
<1>2. NewcomerSparesServer
  <2>1. SUFFICES ASSUME ~raced, NEW p \in alive, phase[p] = "kill", port \in Victims(p)
                 PROVE  FALSE
    BY DEF NewcomerSparesServer
  <2>2. p \in Procs /\ port \in Procs /\ port # p
    BY <2>1 DEF Victims, DaemonIInv, LockIInv, LockTypeOK
  <2>3. phase[port] \in {"bound", "serve", "closing"}
    BY <2>2 DEF DaemonIInv
  <2> QED
    BY <2>1, <2>2, <2>3, OneHolds DEF Holding, Phases, Written
<1> QED
  BY <1>1, <1>2

-----------------------------------------------------------------------------
(* What holds of the daemons.                                              *)

\* The inductive invariant: what each place of a start or a stop knows of the
\* lock, the port and the pidfile, and that who leaves is seen to leave, until
\* one that leaves on Ctrl-C outlives its eviction (server.ts:804-805).
THEOREM DaemonInvariant == Spec => []DaemonIInv
  BY InitDaemonIInv, NextDaemonIInv, PTL DEF Spec

\* Every variable keeps its type, whoever is killed, shot or crashes.
THEOREM DaemonTypeCorrect == Spec => []TypeOK
<1>1. DaemonIInv => TypeOK
  BY DEF DaemonIInv
<1> QED
  BY <1>1, DaemonInvariant, PTL

\* Before a race of the lock, the daemon that listens has the lock, and is the one
\* named in the pidfile, so that stop and the dashboard find it, unless a daemon
\* that left on Ctrl-C outlived its eviction.  (startDaemon, stopDaemon)
THEOREM ServerIsFound == Spec => []ServerIsKnown
  BY IInvServer, DaemonInvariant, PTL

\* Before a race of the lock, the process a newcomer is about to shoot, whatever
\* the pidfile it read names, is not the daemon that listens.  (server.ts:324-341)
THEOREM ServerIsSpared == Spec => []NewcomerSparesServer
  BY IInvServer, DaemonInvariant, PTL

\* Whatever daemons do, a daemon that has the lock before a race owns it: its
\* directory and its owner.json are there, and name it.  (acquireLock, releaseLock)
THEOREM DaemonOwnsLock == Spec => []HolderOwnsLock
<1>1. LockTypeOK /\ HolderOwnsLock => HolderOwnsLock
  OBVIOUS
<1> QED
  BY <1>1, DaemonUsesLock, LockIsExclusive, PTL

\* Before a race the daemons have their lock one at a time: it is a mutex.
THEOREM DaemonsExclude == Spec => ImplementsMutex
  BY DaemonUsesLock, LockRefinesMutex, PTL
=============================================================================
