-------------------------- MODULE BrainHealthProofs --------------------------
(***************************************************************************)
(* The guard around paid calls, for any number of processes, roles, caps   *)
(* and days.  What is said of caps, slots and windows is said up to the    *)
(* first lost write; what is said of the latched breaker, always.          *)
(***************************************************************************)
EXTENDS BrainHealth, FiniteSetTheorems, TLAPS

-----------------------------------------------------------------------------
(* The transitions of the file.                                            *)

\* The later failure never opens a shorter window.  (breakerWindowMin)
LEMMA WindowGrows ==
    ASSUME NEW class, NEW m \in 0 .. MaxFailures, NEW n \in 0 .. MaxFailures, m <= n
    PROVE  Window(class, m) <= Window(class, n)
  BY DEF Window, MaxFailures

LEMMA WindowType ==
    ASSUME NEW class, NEW n \in 0 .. MaxFailures PROVE Window(class, n) \in {0, 5, 15, 60}
  BY DEF Window, MaxFailures

LEMMA BreakerType ==
    ASSUME NEW class \in Classes \cup {None}, NEW n \in 0 .. MaxFailures
    PROVE  /\ Breaker(class, n) \in Breakers
           /\ BreakerOK(Breaker(class, n))
           /\ Breaker(class, n).minutes = Window(Breaker(class, n).class, n)
<1>1. Window(class, n) \in {0, 5, 15, 60}
  BY WindowType
<1>2. CASE class = "permanent"
  BY <1>2 DEF Breaker, Breakers, BreakerOK, Classes, Window
<1>3. CASE class # "permanent" /\ Window(class, n) > 0
  <2>1. class \in {"resource", "ambiguous"}
    BY <1>3 DEF Window
  <2> QED
    BY <1>1, <1>3, <2>1 DEF Breaker, Breakers, BreakerOK, Classes
<1>4. CASE class # "permanent" /\ ~(Window(class, n) > 0)
  BY <1>4 DEF Breaker, Breakers, BreakerOK, Closed, Window
<1> QED
  BY <1>2, <1>3, <1>4

LEMMA ClosedIsFit == Closed \in Breakers /\ BreakerOK(Closed)
  BY DEF Closed, Breakers, BreakerOK

\* Every transition keeps the file a file, with a breaker that is one.
LEMMA ClearedFits ==
    ASSUME NEW h \in Healths
    PROVE  /\ Cleared(h) \in Healths /\ BreakerOK(Cleared(h).breaker)
           /\ Cleared(h).calls = h.calls /\ Cleared(h).failures = h.failures
  BY ClosedIsFit DEF Healths, Cleared

LEMMA SucceededFits ==
    ASSUME NEW h \in Healths
    PROVE  /\ Succeeded(h) \in Healths /\ BreakerOK(Succeeded(h).breaker)
           /\ Succeeded(h).calls = h.calls
<1>1. 0 \in 0 .. MaxFailures
  BY DEF MaxFailures
<1>2. /\ Succeeded(h) \in Healths
      /\ Succeeded(h).breaker = Closed /\ Succeeded(h).calls = h.calls
  BY <1>1, ClosedIsFit DEF Healths, Succeeded
<1> QED
  BY <1>2, ClosedIsFit

LEMMA RetriedFits ==
    ASSUME NEW h \in Healths, h.retries < RetryCap
    PROVE  LET new == [h EXCEPT !.retries = @ + 1]
           IN  /\ new \in Healths /\ new.breaker = h.breaker
               /\ new.calls = h.calls /\ new.failures = h.failures
  BY BrainAssumption DEF Healths

\* A slot more, or less, of one role.
LEMMA CountFits ==
    ASSUME NEW h \in Healths, NEW r \in Roles, NEW n \in Nat
    PROVE  LET new == [h EXCEPT !.calls[r] = n]
           IN  /\ new \in Healths /\ new.breaker = h.breaker
               /\ new.failures = h.failures /\ new.calls[r] = n
               /\ \A s \in Roles \ {r} : new.calls[s] = h.calls[s]
<1> DEFINE f == [h.calls EXCEPT ![r] = n]
<1>1. h.calls \in [Roles -> Nat]
  BY DEF Healths
<1>2. f \in [Roles -> Nat] /\ f[r] = n /\ \A s \in Roles \ {r} : f[s] = h.calls[s]
  BY <1>1
<1>3. [h EXCEPT !.calls[r] = n] = [h EXCEPT !.calls = f]
  OBVIOUS
<1> HIDE DEF f
<1>4. /\ [h EXCEPT !.calls = f] \in Healths
      /\ [h EXCEPT !.calls = f].breaker = h.breaker
      /\ [h EXCEPT !.calls = f].failures = h.failures
      /\ [h EXCEPT !.calls = f].calls = f
  BY <1>2 DEF Healths
<1> QED
  BY <1>2, <1>3, <1>4

LEMMA FailedFits ==
    ASSUME NEW h \in Healths, BreakerOK(h.breaker), NEW class \in Classes \cup {None}
    PROVE  /\ Failed(h, class) \in Healths /\ BreakerOK(Failed(h, class).breaker)
           /\ Failed(h, class).calls = h.calls
           /\ Failed(h, class).failures \in h.failures .. MaxFailures
           /\ h.breaker.class = "permanent" => Failed(h, class).breaker = h.breaker
           /\ h.breaker.class # "permanent" =>
                Failed(h, class).breaker = Breaker(class, Failed(h, class).failures)
<1> DEFINE n == MinOf(h.failures + 1, MaxFailures)
<1>1. n \in 0 .. MaxFailures /\ n \in h.failures .. MaxFailures
  BY DEF Healths, MinOf, MaxFailures
<1>2. /\ Breaker(class, n) \in Breakers
      /\ BreakerOK(Breaker(class, n))
  BY <1>1, BreakerType
<1> DEFINE b == IF h.breaker.class = "permanent" THEN h.breaker ELSE Breaker(class, n)
<1>3. /\ b \in Breakers
      /\ BreakerOK(b)
  BY <1>2 DEF Healths
<1>4. Failed(h, class) = [h EXCEPT !.failures = n, !.breaker = b]
  BY DEF Failed
<1> HIDE DEF n, b
<1>5. /\ Failed(h, class) \in Healths
      /\ Failed(h, class).failures = n /\ Failed(h, class).breaker = b
      /\ Failed(h, class).calls = h.calls
  BY <1>1, <1>3, <1>4 DEF Healths
<1> QED
  BY <1>1, <1>3, <1>5 DEF n, b

-----------------------------------------------------------------------------
(* One process moves.                                                      *)

One(b) == IF b THEN 1 ELSE 0

\* The others stay where they are, and p has no copy of the file.
Apart(p) ==
    /\ \A q \in Procs \ {p} : call'[q] = call[q] /\ snap'[q] = snap[q]
    /\ snap'[p] = None

\* What a step of p does to the count of role r, to the slots used up and those
\* given back, to the cap, and to the slots that were read as gone.
Balanced(p, r) ==
    /\ health'.calls[r] + late'[r] + UsedUp(r) + One(p \in Holding(r)) =
         health.calls[r] + late[r] + UsedUp(r)' + One(p \in Holding(r)')
    /\ Cap[r] # 0 => health'.calls[r] <= Cap[r]
    /\ late[r] <= late'[r] + One(p \in Unreturned(r))

LEMMA HoldingMoves ==
    ASSUME NEW p \in Procs, Apart(p), NEW r \in Roles
    PROVE  /\ p \in Holding(r)' => Holding(r)' = (Holding(r) \ {p}) \cup {p}
           /\ p \notin Holding(r)' => Holding(r)' = Holding(r) \ {p}
           /\ Unreturned(r)' = Unreturned(r) \ {p}
<1>1. Holding(r)' \ {p} = Holding(r) \ {p}
  BY DEF Apart, Holding, Holds, Role
<1>2. Unreturned(r)' \ {p} = Unreturned(r) \ {p}
  BY DEF Apart, Unreturned, Holding, Holds, Role, At
<1>3. p \notin Unreturned(r)'
  BY DEF Apart, Unreturned
<1> QED
  BY <1>1, <1>2, <1>3

\* A balanced step keeps the slots in order.
LEMMA SlotsStep ==
    ASSUME TypeOK, TypeOK', NEW p \in Procs, Apart(p), NEW r \in Roles,
           SlotsOK(r), Balanced(p, r)
    PROVE  SlotsOK(r)'
<1>1. /\ health.calls[r] \in Nat /\ late[r] \in Nat /\ UsedUp(r) \in Nat /\ Cap[r] \in Nat
      /\ health'.calls[r] \in Nat /\ late'[r] \in Nat /\ UsedUp(r)' \in Nat
  BY BrainAssumption DEF TypeOK, Healths, UsedUp
<1>2. IsFiniteSet(Holding(r)) /\ Unreturned(r) \subseteq Holding(r)
  BY DEF SlotsOK, Unreturned
<1>3. IsFiniteSet(Unreturned(r)) /\ Cardinality(Unreturned(r)) \in Nat
      /\ Cardinality(Holding(r)) \in Nat
  BY <1>2, FS_Subset, FS_CardinalityType
<1>4. /\ IsFiniteSet(Holding(r) \ {p})
      /\ Cardinality(Holding(r) \ {p}) = Cardinality(Holding(r)) - One(p \in Holding(r))
  BY <1>2, <1>3, FS_RemoveElement DEF One
<1>5. /\ IsFiniteSet((Holding(r) \ {p}) \cup {p})
      /\ Cardinality((Holding(r) \ {p}) \cup {p}) = Cardinality(Holding(r) \ {p}) + 1
  BY <1>4, FS_AddElement
<1>6. /\ IsFiniteSet(Holding(r)')
      /\ Cardinality(Holding(r)') =
           Cardinality(Holding(r)) - One(p \in Holding(r)) + One(p \in Holding(r)')
  <2>1. CASE p \in Holding(r)'
    <3>1. Holding(r)' = (Holding(r) \ {p}) \cup {p}
      BY <2>1, HoldingMoves
    <3> QED
      BY <1>3, <1>4, <1>5, <2>1, <3>1 DEF One
  <2>2. CASE p \notin Holding(r)'
    <3>1. Holding(r)' = Holding(r) \ {p}
      BY <2>2, HoldingMoves
    <3> QED
      BY <1>3, <1>4, <2>2, <3>1 DEF One
  <2> QED
    BY <2>1, <2>2
<1>7. Cardinality(Unreturned(r)') = Cardinality(Unreturned(r)) - One(p \in Unreturned(r))
  BY <1>3, HoldingMoves, FS_RemoveElement DEF One
<1>8. health'.calls[r] + late'[r] = UsedUp(r)' + Cardinality(Holding(r)')
  <2> DEFINE was == One(p \in Holding(r))
             is  == One(p \in Holding(r)')
  <2>1. was \in Nat /\ is \in Nat
    BY DEF One
  <2>2. /\ health'.calls[r] + late'[r] + UsedUp(r) + was = health.calls[r] + late[r] + UsedUp(r)' + is
        /\ health.calls[r] + late[r] = UsedUp(r) + Cardinality(Holding(r))
        /\ Cardinality(Holding(r)') = Cardinality(Holding(r)) - was + is
    BY <1>6 DEF SlotsOK, Balanced
  <2> HIDE DEF was, is
  <2> QED
    BY <1>1, <1>3, <2>1, <2>2
<1>9. Cardinality(Unreturned(r)') <= late'[r]
  <2>1. One(p \in Unreturned(r)) \in Nat
    BY DEF One
  <2> QED
    BY <1>1, <1>3, <1>7, <2>1 DEF SlotsOK, Balanced
<1> QED
  BY <1>6, <1>8, <1>9 DEF SlotsOK, Balanced

\* What is left to see of each step of a process.
LEMMA StepIInv ==
    ASSUME BrainIInv, TypeOK', NEW p \in Procs, Apart(p), BreakerOK(health'.breaker),
           ~lost' => ~lost,
           ~lost' => \A r \in Roles : Balanced(p, r),
           ~lost' => last'.minutes <= Window(last'.class, health'.failures)
    PROVE  BrainIInv'
<1>1. \A q \in Procs : snap'[q] # None => BreakerOK(snap'[q].breaker)
  BY DEF BrainIInv, Apart
<1>2. ASSUME ~lost', NEW r \in Roles PROVE SlotsOK(r)'
  BY <1>2, SlotsStep DEF BrainIInv
<1> QED
  BY <1>1, <1>2 DEF BrainIInv, BreakerOK

-----------------------------------------------------------------------------
(* How a step moves its process, and how it leaves the file.               *)

\* The calls after a step of p alone.
Moves(p) == call' \in [Procs -> Calls] /\ \A q \in Procs \ {p} : call'[q] = call[q]

\* The file after a step of p, which has no copy of it any more.
FileKept(p) ==
    /\ health' \in Healths /\ BreakerOK(health'.breaker)
    /\ snap' = [snap EXCEPT ![p] = None]
    /\ lost' \in BOOLEAN /\ (~lost' => ~lost)

LEMMA FinishMoves ==
    ASSUME TypeOK, NEW p \in Procs, Finish(p)
    PROVE  Moves(p) /\ call'[p] = Idle /\ ~Holds(p)'
<1>1. Idle \in Calls /\ Idle.slot = FALSE
  BY BrainAssumption DEF Idle, Calls, Places
<1> QED
  BY <1>1 DEF TypeOK, Finish, Moves, Holds

LEMMA GoToMoves ==
    ASSUME TypeOK, NEW p \in Procs, NEW there \in Places, GoTo(p, there)
    PROVE  Moves(p) /\ call'[p].at = there /\ ~Holds(p)'
<1>1. call[p] \in Calls
  BY DEF TypeOK
<1>2. /\ [call[p] EXCEPT !.at = there, !.slot = FALSE] \in Calls
      /\ [call[p] EXCEPT !.at = there, !.slot = FALSE].at = there
      /\ [call[p] EXCEPT !.at = there, !.slot = FALSE].slot = FALSE
  BY <1>1 DEF Calls
<1>3. call' = [call EXCEPT ![p] = [call[p] EXCEPT !.at = there, !.slot = FALSE]]
  BY DEF GoTo, TypeOK
<1> QED
  BY <1>2, <1>3 DEF TypeOK, Moves, Holds

LEMMA PutKeeps ==
    ASSUME BrainIInv, NEW p \in Procs, snap[p] # None,
           NEW h \in Healths, BreakerOK(h.breaker), Put(p, h)
    PROVE  FileKept(p) /\ (~lost' => ~lost /\ health = snap[p] /\ health' = h)
  BY DEF BrainIInv, TypeOK, FileKept, Put

LEMMA LeaveKeeps ==
    ASSUME BrainIInv, NEW p \in Procs, Leave(p)
    PROVE  FileKept(p) /\ health' = health /\ lost' = lost
  BY DEF BrainIInv, TypeOK, FileKept, Leave

\* Only an update has a copy of the file.
LEMMA NoCopy ==
    ASSUME TypeOK, NEW p \in Procs, call[p].at \notin Updates
    PROVE  snap[p] = None /\ snap = [snap EXCEPT ![p] = None]
  BY DEF TypeOK

LEMMA CopyType ==
    ASSUME BrainIInv, NEW p \in Procs, snap[p] # None
    PROVE  snap[p] \in Healths /\ BreakerOK(snap[p].breaker)
  BY DEF BrainIInv, TypeOK

LEMMA KeptType ==
    ASSUME TypeOK, NEW p \in Procs, Moves(p), FileKept(p),
           begun' \in 0 .. MaxCalls, last' \in Breakers,
           spent' \in [Roles -> Nat], wasted' \in [Roles -> Nat], late' \in [Roles -> Nat]
    PROVE  TypeOK' /\ Apart(p)
  BY DEF TypeOK, Moves, FileKept, Apart

\* The windows stay covered as long as the failures only grow.
LEMMA WindowsKept ==
    ASSUME BrainIInv, health' \in Healths, last' = last, ~lost,
           health'.failures >= health.failures
    PROVE  last'.minutes <= Window(last'.class, health'.failures)
<1>1. health.failures \in 0 .. MaxFailures /\ health'.failures \in 0 .. MaxFailures
  BY DEF BrainIInv, TypeOK, Healths
<1>2. /\ Window(last.class, health.failures) <= Window(last.class, health'.failures)
      /\ Window(last.class, health.failures) \in {0, 5, 15, 60}
      /\ Window(last.class, health'.failures) \in {0, 5, 15, 60}
  BY <1>1, WindowGrows, WindowType
<1>3. last.minutes \in {0, 5, 15, 60} /\ last.minutes <= Window(last.class, health.failures)
  BY DEF BrainIInv, TypeOK, Breakers
<1> QED
  BY <1>2, <1>3

\* A step that takes and gives back no slot.
LEMMA QuietIInv ==
    ASSUME BrainIInv, NEW p \in Procs, Moves(p), FileKept(p), ~Holds(p), ~Holds(p)',
           begun' \in 0 .. MaxCalls, last' \in Breakers, UNCHANGED <<spent, wasted, late>>,
           ~lost' => health'.calls = health.calls,
           ~lost' => last'.minutes <= Window(last'.class, health'.failures)
    PROVE  BrainIInv'
<1>1. TypeOK' /\ Apart(p)
  BY KeptType DEF BrainIInv, TypeOK
<1>2. ASSUME ~lost', NEW r \in Roles PROVE Balanced(p, r)
  <2>1. p \notin Holding(r) /\ p \notin Holding(r)' /\ p \notin Unreturned(r)
    BY DEF Holding, Unreturned
  <2>2. SlotsOK(r)
    BY <1>2 DEF BrainIInv, FileKept
  <2>3. health.calls[r] \in Nat /\ late[r] \in Nat /\ UsedUp(r) \in Nat
    BY DEF BrainIInv, TypeOK, Healths, UsedUp
  <2> QED
    BY <1>2, <2>1, <2>2, <2>3 DEF Balanced, One, SlotsOK, UsedUp
<1> QED
  BY <1>1, <1>2, StepIInv DEF FileKept

\* A step that ends the hold of a slot, with a call made or refused.
LEMMA SpendIInv ==
    ASSUME BrainIInv, NEW p \in Procs, Moves(p), ~Holds(p)',
           \/ /\ spent' = IF Holds(p) THEN Count(spent, Role(p)) ELSE spent
              /\ wasted' = wasted
           \/ /\ wasted' = IF Holds(p) THEN Count(wasted, Role(p)) ELSE wasted
              /\ spent' = spent,
           snap' = [snap EXCEPT ![p] = None],
           UNCHANGED <<health, begun, lost, late, last>>
    PROVE  BrainIInv'
<1>1. /\ Role(p) \in Roles /\ spent' \in [Roles -> Nat] /\ wasted' \in [Roles -> Nat]
      /\ spent \in [Roles -> Nat] /\ wasted \in [Roles -> Nat]
  BY DEF BrainIInv, TypeOK, Calls, Role, Count
<1>2. FileKept(p) /\ health' \in Healths
  BY DEF BrainIInv, TypeOK, FileKept
<1>3. TypeOK' /\ Apart(p)
  BY <1>1, <1>2, KeptType DEF BrainIInv, TypeOK
<1>4. ASSUME ~lost', NEW r \in Roles PROVE Balanced(p, r)
  <2>1. p \notin Holding(r)'
    BY DEF Holding
  <2>2. SlotsOK(r)
    BY <1>4 DEF BrainIInv
  <2>3. health.calls[r] \in Nat /\ late[r] \in Nat /\ UsedUp(r) \in Nat
    BY <1>1 DEF BrainIInv, TypeOK, Healths, UsedUp
  <2>4. p \in Holding(r) <=> Holds(p) /\ Role(p) = r
    BY DEF Holding
  <2>5. UsedUp(r)' = UsedUp(r) + One(p \in Holding(r))
    BY <1>1, <1>4, <2>4 DEF One, Count, UsedUp
  <2>6. late[r] <= late'[r] + One(p \in Unreturned(r))
    BY <2>3 DEF One
  <2> QED
    BY <2>1, <2>2, <2>3, <2>5, <2>6 DEF Balanced, One, SlotsOK
<1>5. ~lost' => last'.minutes <= Window(last'.class, health'.failures)
  BY DEF BrainIInv
<1> QED
  BY <1>2, <1>3, <1>4, <1>5, StepIInv DEF FileKept


-----------------------------------------------------------------------------
(* The steps.                                                              *)

LEMMA InitBrainIInv == Init => BrainIInv
<1> SUFFICES ASSUME Init PROVE BrainIInv
  OBVIOUS
<1>1. Idle \in Calls /\ Idle.slot = FALSE
  BY BrainAssumption DEF Idle, Calls, Places
<1>2. /\ health \in Healths /\ health.breaker = Closed /\ health.failures = 0
      /\ \A r \in Roles : health.calls[r] = 0
  BY BrainAssumption, ClosedIsFit DEF Init, Healths, MaxFailures
<1>3. TypeOK
  <2>1. /\ call \in [Procs -> Calls]
        /\ snap \in [Procs -> Healths \cup {None}] /\ \A p \in Procs : snap[p] = None
    <3>1. call = [p \in Procs |-> Idle] /\ snap = [p \in Procs |-> None]
      BY DEF Init
    <3> QED
      BY <1>1, <3>1
  <2>2. begun \in 0 .. MaxCalls
    BY BrainAssumption DEF Init
  <2>3. lost \in BOOLEAN /\ last \in Breakers
    BY ClosedIsFit DEF Init
  <2>4. spent \in [Roles -> Nat] /\ wasted \in [Roles -> Nat] /\ late \in [Roles -> Nat]
    BY DEF Init
  <2> QED
    BY <1>2, <2>1, <2>2, <2>3, <2>4 DEF TypeOK
<1>4. ASSUME NEW r \in Roles PROVE SlotsOK(r)
  <2>1. Holding(r) = {} /\ Unreturned(r) = {}
    BY <1>1 DEF Init, Holding, Holds, Unreturned
  <2> QED
    BY <1>2, <2>1, FS_EmptySet, BrainAssumption DEF Init, SlotsOK, UsedUp
<1>5. last.minutes <= Window(last.class, health.failures)
  BY <1>2, WindowType DEF Init, Closed, MaxFailures, Window
<1> QED
  BY <1>2, <1>3, <1>4, <1>5, ClosedIsFit DEF BrainIInv, Init

LEMMA BeginIInv ==
    ASSUME BrainIInv, NEW p \in Procs, NEW j \in Jobs, NEW r \in Roles, Begin(p, j, r)
    PROVE  BrainIInv'
<1> DEFINE there == CASE j = "stop" -> "gate" [] j = "wake" -> "clear" [] OTHER -> "cap"
           isRaw == (j = "raw")
           new == [Idle EXCEPT !.raw = isRaw, !.role = r, !.at = there]
<1>1. there \in {"gate", "clear", "cap"}
  OBVIOUS
<1>2. new \in Calls /\ new.slot = FALSE
  <2>1. isRaw \in BOOLEAN /\ there \in Places
    BY <1>1 DEF Places, Updates
  <2> HIDE DEF there, isRaw
  <2>2. Idle \in Calls /\ Idle.slot = FALSE
    BY BrainAssumption DEF Idle, Calls, Places
  <2> QED
    BY <2>1, <2>2 DEF Calls
<1>3. Moves(p) /\ call'[p] = new
  BY <1>2 DEF Begin, Moves, BrainIInv, TypeOK
<1>4. ~Holds(p) /\ ~Holds(p)'
  BY <1>2, <1>3 DEF Begin, At, Holds
<1>5. FileKept(p)
  BY NoCopy DEF Begin, At, Updates, FileKept, BrainIInv, TypeOK
<1>6. begun' \in 0 .. MaxCalls
  BY BrainAssumption DEF Begin, BrainIInv, TypeOK
<1> QED
  BY <1>3, <1>4, <1>5, <1>6, QuietIInv DEF Begin, BrainIInv, TypeOK

\* A copy of the file is what the file is: who reads a count of zero finds every
\* call that holds a slot in `late`.
LEMMA ReadIInv ==
    ASSUME BrainIInv, NEW p \in Procs, Read(p) PROVE BrainIInv'
<1>1. /\ call[p].at \in Updates /\ snap' = [snap EXCEPT ![p] = health]
      /\ UNCHANGED <<health, call, begun, lost, spent, wasted, late, last>>
  BY DEF Read, history
<1>2. TypeOK'
  BY <1>1 DEF BrainIInv, TypeOK
<1>3. \A q \in Procs : snap'[q] # None => BreakerOK(snap'[q].breaker)
  BY <1>1 DEF BrainIInv, TypeOK
<1>4. ASSUME ~lost', NEW r \in Roles PROVE SlotsOK(r)'
  <2>1. SlotsOK(r) /\ Holding(r)' = Holding(r)
    BY <1>1, <1>4 DEF BrainIInv, Holding, Holds, Role
  <2>2. health.calls[r] \in Nat /\ late[r] \in Nat /\ UsedUp(r) \in Nat
    BY DEF BrainIInv, TypeOK, Healths, UsedUp
  <2>3. Cardinality(Unreturned(r)') <= late[r]
    <3>1. CASE health.calls[r] = 0
      <4>1. Unreturned(r)' \subseteq Holding(r)
        BY <2>1 DEF Unreturned
      <4>2. /\ Cardinality(Unreturned(r)') <= Cardinality(Holding(r))
            /\ Cardinality(Unreturned(r)') \in Nat /\ Cardinality(Holding(r)) \in Nat
        BY <2>1, <4>1, FS_Subset, FS_CardinalityType DEF SlotsOK
      <4> QED
        BY <2>1, <2>2, <3>1, <4>2 DEF SlotsOK
    <3>2. CASE health.calls[r] # 0
      <4>1. Unreturned(r)' \subseteq Unreturned(r)
        BY <1>1, <2>1, <3>2 DEF Unreturned, At, BrainIInv, TypeOK
      <4>2. IsFiniteSet(Unreturned(r))
        BY <2>1, FS_Subset DEF SlotsOK, Unreturned
      <4>3. /\ Cardinality(Unreturned(r)') <= Cardinality(Unreturned(r))
            /\ Cardinality(Unreturned(r)') \in Nat /\ Cardinality(Unreturned(r)) \in Nat
        BY <4>1, <4>2, FS_Subset, FS_CardinalityType
      <4> QED
        BY <2>1, <2>2, <4>3 DEF SlotsOK
    <3> QED
      BY <3>1, <3>2
  <2> QED
    BY <1>1, <2>1, <2>3 DEF SlotsOK, UsedUp
<1> QED
  BY <1>1, <1>2, <1>3, <1>4 DEF BrainIInv, BreakerOK

LEMMA ClearedIInv ==
    ASSUME BrainIInv, NEW p \in Procs, snap[p] # None, Moves(p), ~Holds(p), ~Holds(p)',
           Put(p, Cleared(snap[p])) \/ Leave(p), UNCHANGED <<begun, spent, wasted, late, last>>
    PROVE  BrainIInv'
<1>1. snap[p] \in Healths
  BY CopyType
<1>2. /\ FileKept(p)
      /\ ~lost' => health'.calls = health.calls /\ health'.failures = health.failures
  BY <1>1, PutKeeps, LeaveKeeps, ClearedFits
<1>3. health'.failures \in Nat /\ health.failures \in Nat
  BY <1>2 DEF FileKept, BrainIInv, TypeOK, Healths
<1>4. ~lost' => last'.minutes <= Window(last'.class, health'.failures)
  BY <1>2, <1>3, WindowsKept DEF FileKept
<1> QED
  BY <1>2, <1>4, QuietIInv DEF BrainIInv, TypeOK

LEMMA GateIInv ==
    ASSUME BrainIInv, NEW p \in Procs, Gate(p) PROVE BrainIInv'
<1>1. snap[p] # None /\ ~Holds(p) /\ TypeOK
  BY DEF Gate, Reads, At, Holds, BrainIInv
<1>2. Moves(p) /\ ~Holds(p)'
  BY <1>1, GoToMoves, FinishMoves DEF Gate, Places, Updates
<1> QED
  BY <1>1, <1>2, ClearedIInv DEF Gate

LEMMA ClearIInv ==
    ASSUME BrainIInv, NEW p \in Procs, Clear(p) PROVE BrainIInv'
<1>1. snap[p] # None /\ ~Holds(p) /\ TypeOK
  BY DEF Clear, Reads, At, Holds, BrainIInv
<1>2. Moves(p) /\ ~Holds(p)'
  BY <1>1, FinishMoves DEF Clear
<1> QED
  BY <1>1, <1>2, ClearedIInv DEF Clear

\* The slot taken is one more on the count and one more under way.
LEMMA TakeSlotIInv ==
    ASSUME BrainIInv, NEW p \in Procs, snap[p] # None, ~Holds(p),
           NEW second \in BOOLEAN, TakeSlot(p, second), UNCHANGED <<begun, spent, wasted, late, last>>
    PROVE  BrainIInv'
<1> DEFINE r == Role(p)
           n == snap[p].calls[r] + 1
           h == [snap[p] EXCEPT !.calls[r] = n]
<1>1. snap[p] \in Healths /\ BreakerOK(snap[p].breaker) /\ r \in Roles
  BY CopyType DEF BrainIInv, TypeOK, Calls, Role
<1>2. n \in Nat
  BY <1>1 DEF Healths
<1>3. /\ h \in Healths /\ h.breaker = snap[p].breaker
      /\ h.failures = snap[p].failures /\ h.calls[r] = n
      /\ \A s \in Roles \ {r} : h.calls[s] = snap[p].calls[s]
  BY <1>1, <1>2, CountFits
<1>4. Put(p, h) /\ (Cap[r] = 0 \/ snap[p].calls[r] < Cap[r])
  BY DEF TakeSlot, Consumed, CanConsume
<1> HIDE DEF h
<1>5. FileKept(p) /\ (~lost' => ~lost /\ health = snap[p] /\ health' = h)
  BY <1>1, <1>3, <1>4, PutKeeps
<1>6. call' = [call EXCEPT ![p].at = "run", ![p].slot = TRUE, ![p].again = second]
  BY DEF TakeSlot
<1>7. Moves(p) /\ Role(p)' = r /\ Holds(p)'
  <2> DEFINE new == [call[p] EXCEPT !.at = "run", !.slot = TRUE, !.again = second]
  <2>1. call[p] \in Calls
    BY DEF BrainIInv, TypeOK
  <2>2. new \in Calls /\ new.at = "run" /\ new.slot = TRUE /\ new.role = call[p].role
    BY <2>1 DEF Calls, Places
  <2>3. call' = [call EXCEPT ![p] = new]
    BY <1>6 DEF BrainIInv, TypeOK
  <2> HIDE DEF new
  <2> QED
    BY <2>2, <2>3 DEF Moves, Role, Holds, BrainIInv, TypeOK
<1>8. TypeOK' /\ Apart(p)
  BY <1>5, <1>7, KeptType DEF BrainIInv, TypeOK
<1>9. ASSUME ~lost', NEW s \in Roles PROVE Balanced(p, s)
  <2>1. p \notin Holding(s) /\ p \notin Unreturned(s) /\ (p \in Holding(s)' <=> s = r)
    BY <1>7 DEF Holding, Unreturned
  <2>2. /\ health'.calls[s] = health.calls[s] + (IF s = r THEN 1 ELSE 0)
        /\ s = r => Cap[r] = 0 \/ health.calls[r] < Cap[r]
    BY <1>3, <1>4, <1>5, <1>9 DEF BrainIInv, TypeOK, Healths
  <2>3. health.calls[s] \in Nat /\ late[s] \in Nat /\ UsedUp(s) \in Nat /\ Cap[s] \in Nat
    BY BrainAssumption DEF BrainIInv, TypeOK, Healths, UsedUp
  <2>4. SlotsOK(s)
    BY <1>5, <1>9 DEF BrainIInv
  <2> HIDE DEF r
  <2>5. CASE s = r
    BY <2>1, <2>2, <2>3, <2>5 DEF Balanced, One, UsedUp
  <2>6. CASE s # r
    BY <2>1, <2>2, <2>3, <2>4, <2>6 DEF Balanced, One, SlotsOK, UsedUp
  <2> QED
    BY <2>5, <2>6
<1>10. ~lost' => last'.minutes <= Window(last'.class, health'.failures)
  BY <1>3, <1>5, WindowsKept DEF FileKept, Healths
<1> QED
  BY <1>5, <1>8, <1>9, <1>10, StepIInv DEF FileKept

\* Taking a slot, or being refused one.
LEMMA SlotIInv ==
    ASSUME BrainIInv, NEW p \in Procs, snap[p] # None, ~Holds(p), NEW second \in BOOLEAN,
           TakeSlot(p, second) \/ NoSlot(p), UNCHANGED <<begun, spent, wasted, late, last>>
    PROVE  BrainIInv'
<1>1. CASE NoSlot(p)
  <2>1. Moves(p) /\ ~Holds(p)'
    BY <1>1, FinishMoves DEF NoSlot, BrainIInv
  <2> QED
    BY <1>1, <2>1, ClearedIInv DEF NoSlot
<1> QED
  BY <1>1, TakeSlotIInv

LEMMA TakeFirstIInv ==
    ASSUME BrainIInv, NEW p \in Procs, TakeFirst(p) PROVE BrainIInv'
  BY SlotIInv DEF TakeFirst, Reads, At, Holds

LEMMA TakeSecondIInv ==
    ASSUME BrainIInv, NEW p \in Procs, TakeSecond(p) PROVE BrainIInv'
  BY SlotIInv DEF TakeSecond, Reads, At, Holds


\* A call whose process started has been made, whatever it answers.
LEMMA StartedIInv ==
    ASSUME BrainIInv, NEW p \in Procs, Started(p), Moves(p), ~Holds(p)'
    PROVE  BrainIInv'
<1>1. Holds(p) = call[p].slot
  BY DEF Started, At, Holds, BrainIInv, TypeOK, Calls
<1>2. snap' = [snap EXCEPT ![p] = None]
  BY NoCopy DEF Started, At, Updates, BrainIInv
<1> QED
  BY <1>1, <1>2, SpendIInv DEF Started

LEMMA AnswersIInv ==
    ASSUME BrainIInv, NEW p \in Procs, Answers(p) PROVE BrainIInv'
<1>1. Moves(p) /\ ~Holds(p)'
  BY FinishMoves, GoToMoves DEF Answers, BrainIInv, Places, Updates
<1> QED
  BY <1>1, StartedIInv DEF Answers

LEMMA RejectedIInv ==
    ASSUME BrainIInv, NEW p \in Procs, Rejected(p) PROVE BrainIInv'
<1>1. Moves(p) /\ ~Holds(p)'
  BY FinishMoves, GoToMoves DEF Rejected, BrainIInv, Places
<1> QED
  BY <1>1, StartedIInv DEF Rejected

LEMMA FailsIInv ==
    ASSUME BrainIInv, NEW p \in Procs, NEW class \in Classes, Fails(p, class)
    PROVE  BrainIInv'
<1> DEFINE new == [call[p] EXCEPT !.at = "record", !.class = class, !.slot = FALSE]
<1>1. CASE call' = [call EXCEPT ![p].at = "record", ![p].class = class, ![p].slot = FALSE]
  <2>1. call[p] \in Calls
    BY DEF BrainIInv, TypeOK
  <2>2. new \in Calls /\ new.at = "record"
    BY <2>1 DEF Calls, Places, Updates
  <2>3. call' = [call EXCEPT ![p] = new]
    BY <1>1 DEF BrainIInv, TypeOK
  <2> HIDE DEF new
  <2>4. Moves(p) /\ ~Holds(p)'
    BY <2>2, <2>3 DEF Moves, Holds, BrainIInv, TypeOK
  <2> QED
    BY <2>4, StartedIInv DEF Fails
<1>2. CASE Finish(p)
  BY <1>2, FinishMoves, StartedIInv DEF Fails, BrainIInv
<1> QED
  BY <1>1, <1>2 DEF Fails

\* A process that dies with a slot may have made its call.
LEMMA DiesIInv ==
    ASSUME BrainIInv, NEW p \in Procs, Dies(p) PROVE BrainIInv'
  BY FinishMoves, SpendIInv DEF Dies, BrainIInv

LEMMA EndsEmptyIInv ==
    ASSUME BrainIInv, NEW p \in Procs, EndsEmpty(p) PROVE BrainIInv'
  BY FinishMoves, StartedIInv DEF EndsEmpty, BrainIInv

\* A call the provider refuses leaves its slot taken.
LEMMA RefusesIInv ==
    ASSUME BrainIInv, NEW p \in Procs, Refuses(p) PROVE BrainIInv'
<1>1. Moves(p) /\ ~Holds(p)'
  BY FinishMoves DEF Refuses, BrainIInv
<1>2. snap' = [snap EXCEPT ![p] = None]
  BY NoCopy DEF Refuses, At, Updates, BrainIInv
<1>3. wasted' = IF Holds(p) THEN Count(wasted, Role(p)) ELSE wasted
  BY DEF Refuses, At, Holds
<1> QED
  BY <1>1, <1>2, <1>3, SpendIInv DEF Refuses

\* The process never started: the slot is still held, and about to be returned.
LEMMA NeverStartsIInv ==
    ASSUME BrainIInv, NEW p \in Procs, NEW class \in Classes, NeverStarts(p, class)
    PROVE  BrainIInv'
<1> DEFINE new == [call[p] EXCEPT !.at = "refund", !.class = class]
<1>1. call[p] \in Calls /\ call[p].at = "run"
  BY DEF NeverStarts, At, BrainIInv, TypeOK
<1>2. /\ new \in Calls /\ new.at = "refund"
      /\ new.slot = call[p].slot /\ new.role = call[p].role
  BY <1>1 DEF Calls, Places, Updates
<1>3. call' = [call EXCEPT ![p] = new]
  BY DEF NeverStarts, BrainIInv, TypeOK
<1> HIDE DEF new
<1>4. Moves(p) /\ (Holds(p)' <=> Holds(p)) /\ Role(p)' = Role(p)
  BY <1>1, <1>2, <1>3 DEF Moves, Holds, Role, BrainIInv, TypeOK
<1>5. FileKept(p)
  BY <1>1, NoCopy DEF NeverStarts, history, Updates, FileKept, BrainIInv, TypeOK
<1>6. UNCHANGED <<health, begun, lost, spent, wasted, late, last>>
  BY DEF NeverStarts, history
<1>7. TypeOK' /\ Apart(p)
  BY <1>4, <1>5, <1>6, KeptType DEF BrainIInv, TypeOK
<1>8. ASSUME ~lost', NEW r \in Roles PROVE Balanced(p, r)
  <2>1. SlotsOK(r) /\ (p \in Holding(r)' <=> p \in Holding(r))
    BY <1>4, <1>6, <1>8 DEF BrainIInv, Holding
  <2>2. health.calls[r] \in Nat /\ late[r] \in Nat /\ UsedUp(r) \in Nat
    BY DEF BrainIInv, TypeOK, Healths, UsedUp
  <2> QED
    BY <1>6, <2>1, <2>2 DEF Balanced, One, SlotsOK, UsedUp
<1>9. ~lost' => last'.minutes <= Window(last'.class, health'.failures)
  BY <1>6 DEF BrainIInv
<1> QED
  BY <1>5, <1>6, <1>7, <1>8, <1>9, StepIInv DEF FileKept

LEMMA SucceedIInv ==
    ASSUME BrainIInv, NEW p \in Procs, Succeed(p) PROVE BrainIInv'
<1>1. snap[p] # None /\ ~Holds(p)
  BY DEF Succeed, Reads, At, Holds
<1>2. snap[p] \in Healths
  BY <1>1, CopyType
<1>3. Moves(p) /\ ~Holds(p)'
  BY FinishMoves DEF Succeed, BrainIInv
<1>4. FileKept(p) /\ (~lost' => health = snap[p] /\ health' = Succeeded(snap[p]))
  BY <1>1, <1>2, SucceededFits, PutKeeps DEF Succeed
<1>5. last' \in Breakers /\ (~lost' => last' = Closed)
  BY <1>4, ClosedIsFit DEF Succeed, BrainIInv, TypeOK
<1>6. ~lost' => last'.minutes <= Window(last'.class, health'.failures)
  BY <1>5 DEF Closed, Window
<1>7. ~lost' => health'.calls = health.calls
  BY <1>2, <1>4, SucceededFits
<1> QED
  BY <1>1, <1>3, <1>4, <1>5, <1>6, <1>7, QuietIInv DEF Succeed, BrainIInv, TypeOK

\* A failure recorded is one more, and the breaker it opens has a window that
\* so many failures open.
LEMMA RecordIInv ==
    ASSUME BrainIInv, NEW p \in Procs, Record(p) PROVE BrainIInv'
<1> DEFINE class == call[p].class
           h == Failed(snap[p], class)
<1>1. snap[p] # None /\ ~Holds(p) /\ class \in Classes \cup {None}
  BY DEF Record, Reads, At, Holds, BrainIInv, TypeOK, Calls
<1>2. snap[p] \in Healths /\ BreakerOK(snap[p].breaker)
  BY <1>1, CopyType
<1>3. /\ h \in Healths /\ BreakerOK(h.breaker) /\ h.calls = snap[p].calls
      /\ h.failures \in snap[p].failures .. MaxFailures
      /\ snap[p].breaker.class = "permanent" => h.breaker = snap[p].breaker
      /\ snap[p].breaker.class # "permanent" => h.breaker = Breaker(class, h.failures)
  BY <1>1, <1>2, FailedFits
<1>4. Put(p, h) /\ last' = IF h.breaker.minutes > 0 THEN h.breaker ELSE last
  BY DEF Record
<1>5. Moves(p) /\ ~Holds(p)'
  <2> DEFINE new == [call[p] EXCEPT !.at = "ask", !.class = None]
  <2>1. CASE call' = [call EXCEPT ![p].at = "ask", ![p].class = None]
    <3>1. call[p] \in Calls
      BY DEF BrainIInv, TypeOK
    <3>2. new \in Calls /\ new.at = "ask"
      BY <3>1 DEF Calls, Places
    <3>3. call' = [call EXCEPT ![p] = new]
      BY <2>1 DEF BrainIInv, TypeOK
    <3> HIDE DEF new
    <3> QED
      BY <3>2, <3>3 DEF Moves, Holds, BrainIInv, TypeOK
  <2>2. CASE Finish(p)
    BY <2>2, FinishMoves DEF BrainIInv
  <2> QED
    BY <2>1, <2>2 DEF Record
<1> HIDE DEF h
<1>6. FileKept(p) /\ (~lost' => ~lost /\ health = snap[p] /\ health' = h)
  BY <1>1, <1>3, <1>4, PutKeeps
<1>7. last' \in Breakers
  BY <1>3, <1>4 DEF Healths, BrainIInv, TypeOK
<1>8. ASSUME ~lost' PROVE last'.minutes <= Window(last'.class, health'.failures)
  <2>1. CASE h.breaker.minutes > 0
    <3>1. snap[p].breaker.class # "permanent"
      BY <1>2, <1>3, <2>1 DEF BreakerOK
    <3>2. h.failures \in 0 .. MaxFailures
      BY <1>3 DEF Healths
    <3>3. h.breaker.minutes = Window(h.breaker.class, h.failures)
      BY <1>1, <1>3, <3>1, <3>2, BreakerType
    <3>4. h.breaker.minutes \in {0, 5, 15, 60}
      BY <1>3 DEF Healths, Breakers
    <3> QED
      BY <1>4, <1>6, <1>8, <2>1, <3>3, <3>4
  <2>2. CASE ~(h.breaker.minutes > 0)
    <3>1. health'.failures >= health.failures
      BY <1>2, <1>3, <1>6, <1>8 DEF Healths
    <3> QED
      BY <1>4, <1>6, <1>8, <2>2, <3>1, WindowsKept DEF FileKept
  <2> QED
    BY <2>1, <2>2
<1> QED
  BY <1>1, <1>3, <1>5, <1>6, <1>7, <1>8, QuietIInv DEF Record, BrainIInv, TypeOK

LEMMA AskIInv ==
    ASSUME BrainIInv, NEW p \in Procs, Ask(p) PROVE BrainIInv'
<1>1. Moves(p) /\ ~Holds(p)'
  BY FinishMoves, GoToMoves DEF Ask, BrainIInv, Places, Updates
<1>2. ~Holds(p) /\ UNCHANGED <<health, begun, lost, spent, wasted, late, last>>
  BY DEF Ask, At, Holds, history
<1>3. call[p].at \notin Updates /\ snap' = snap
  BY DEF Ask, At, Updates
<1>4. snap' = [snap EXCEPT ![p] = None]
  BY <1>3, NoCopy DEF BrainIInv
<1>5. FileKept(p)
  BY <1>2, <1>4 DEF FileKept, BrainIInv, TypeOK
<1> QED
  BY <1>1, <1>2, <1>5, QuietIInv DEF BrainIInv, TypeOK

LEMMA OuterIInv ==
    ASSUME BrainIInv, NEW p \in Procs, Outer(p) PROVE BrainIInv'
<1>1. snap[p] # None /\ ~Holds(p)
  BY DEF Outer, Reads, At, Holds
<1>2. snap[p] \in Healths /\ BreakerOK(snap[p].breaker)
  BY <1>1, CopyType
<1>3. Moves(p) /\ ~Holds(p)'
  BY FinishMoves, GoToMoves DEF Outer, BrainIInv, Places, Updates
<1>4. /\ FileKept(p)
      /\ ~lost' => ~lost /\ health'.calls = health.calls /\ health'.failures = health.failures
  <2>1. CASE snap[p].retries < RetryCap /\ Put(p, [snap[p] EXCEPT !.retries = @ + 1])
    BY <1>1, <1>2, <2>1, RetriedFits, PutKeeps
  <2>2. CASE Leave(p)
    BY <2>2, LeaveKeeps
  <2> QED
    BY <2>1, <2>2 DEF Outer
<1>5. health'.failures \in Nat
  BY <1>4 DEF FileKept, Healths
<1>6. ~lost' => last'.minutes <= Window(last'.class, health'.failures)
  BY <1>4, <1>5, WindowsKept DEF FileKept, Outer
<1> QED
  BY <1>1, <1>3, <1>4, <1>6, QuietIInv DEF Outer, BrainIInv, TypeOK

\* A call that finds no slot to give back is one of those in `late`.
LEMMA RefundLate ==
    ASSUME BrainIInv, NEW p \in Procs, Refund(p) PROVE late' \in [Roles -> Nat]
<1> DEFINE r == Role(p)
           c == snap[p].calls[r]
<1>1. r \in Roles /\ late \in [Roles -> Nat]
  BY DEF BrainIInv, TypeOK, Calls, Role
<1>2. CASE ~lost /\ c = 0 /\ call[p].slot
  <2>1. SlotsOK(r)
    BY <1>1, <1>2 DEF BrainIInv
  <2>2. p \in Unreturned(r)
    BY <1>2 DEF Refund, Reads, At, Holds, Holding, Unreturned
  <2>3. IsFiniteSet(Unreturned(r))
    BY <2>1, FS_Subset DEF SlotsOK, Unreturned
  <2>4. Cardinality(Unreturned(r)) \in Nat /\ Cardinality(Unreturned(r)) # 0
    BY <2>2, <2>3, FS_EmptySet, FS_CardinalityType
  <2>5. late[r] \in Nat /\ Cardinality(Unreturned(r)) <= late[r]
    BY <1>1, <2>1 DEF SlotsOK
  <2>6. late[r] - 1 \in Nat
    BY <2>4, <2>5
  <2>7. late' = [late EXCEPT ![r] = late[r] - 1]
    BY <1>1, <1>2 DEF Refund
  <2> QED
    BY <1>1, <2>6, <2>7
<1>3. CASE ~(~lost /\ c = 0 /\ call[p].slot)
  <2>1. late' = late \/ late' = [late EXCEPT ![r] = late[r] + 1]
    BY <1>1, <1>3 DEF Refund
  <2>2. late[r] + 1 \in Nat
    BY <1>1
  <2> QED
    BY <1>1, <2>1, <2>2
<1> QED
  BY <1>2, <1>3

\* What a call that gives its slot back does to its count, and to the slots that
\* calls of another day gave back.
Returned(p) ==
    LET r == Role(p)
    IN  /\ health'.calls[r] + late'[r] + One(Holds(p)) = health.calls[r] + late[r]
        /\ health'.calls[r] <= health.calls[r]
        /\ late[r] <= late'[r] + One(p \in Unreturned(r))
        /\ \A s \in Roles \ {r} : health'.calls[s] = health.calls[s] /\ late'[s] = late[s]

\* The slot given back is the call's own, or one of the new day that another
\* holds; a call that finds none has had its own given back already, and there is
\* one less in `late`.
LEMMA RefundReturns ==
    ASSUME BrainIInv, NEW p \in Procs, Refund(p), ~lost, ~lost'
    PROVE  Returned(p)
<1> DEFINE r == Role(p)
           c == snap[p].calls[r]
           mine == call[p].slot
<1>1. /\ snap[p] \in Healths /\ snap[p] # None /\ r \in Roles /\ c \in Nat
      /\ late \in [Roles -> Nat] /\ late[r] \in Nat
  BY CopyType DEF Refund, Reads, BrainIInv, TypeOK, Calls, Role, Healths
<1>2. mine \in BOOLEAN /\ (Holds(p) <=> mine)
  BY DEF Refund, Reads, At, Holds, BrainIInv, TypeOK, Calls
<1>3. CASE c > 0
  <2> DEFINE n == c - 1
             h == [snap[p] EXCEPT !.calls[r] = n]
  <2>1. Put(p, h)
    BY <1>3 DEF Refund, Refunded
  <2>2. n \in Nat /\ n = c - 1
    BY <1>1, <1>3
  <2> HIDE DEF n
  <2>3. /\ h \in Healths /\ h.breaker = snap[p].breaker
        /\ h.failures = snap[p].failures /\ h.calls[r] = n
        /\ \A s \in Roles \ {r} : h.calls[s] = snap[p].calls[s]
    BY <1>1, <2>2, CountFits
  <2> HIDE DEF h
  <2>4. health = snap[p] /\ health' = h
    BY <2>1 DEF Put, BrainIInv, TypeOK
  <2>5. CASE mine
    <3>1. late' = late
      BY <1>1, <1>3, <2>5 DEF Refund
    <3>2. One(Holds(p)) = 1 /\ One(p \in Unreturned(r)) \in Nat
      BY <1>2, <2>5 DEF One
    <3> QED
      BY <1>1, <2>2, <2>3, <2>4, <3>1, <3>2 DEF Returned
  <2>6. CASE ~mine
    <3>1. late' = [late EXCEPT ![r] = late[r] + 1]
      BY <1>1, <1>3, <2>6 DEF Refund
    <3>2. late'[r] = late[r] + 1 /\ \A s \in Roles \ {r} : late'[s] = late[s]
      BY <1>1, <3>1
    <3>3. One(Holds(p)) = 0 /\ One(p \in Unreturned(r)) \in Nat
      BY <1>2, <2>6 DEF One
    <3> QED
      BY <1>1, <2>2, <2>3, <2>4, <3>2, <3>3 DEF Returned
  <2> QED
    BY <1>2, <2>5, <2>6
<1>4. CASE c = 0
  <2>1. health' = health
    BY <1>4 DEF Refund, Leave
  <2>2. health.calls[r] \in Nat
    BY <1>1 DEF BrainIInv, TypeOK, Healths
  <2>3. CASE mine
    <3>1. late' = [late EXCEPT ![r] = late[r] - 1]
      BY <1>1, <1>4, <2>3 DEF Refund
    <3>2. late'[r] = late[r] - 1 /\ \A s \in Roles \ {r} : late'[s] = late[s]
      BY <1>1, <3>1
    <3>3. p \in Unreturned(r)
      BY <1>4, <2>3 DEF Refund, Reads, At, Holds, Holding, Unreturned
    <3>4. One(Holds(p)) = 1 /\ One(p \in Unreturned(r)) = 1
      BY <1>2, <2>3, <3>3 DEF One
    <3> QED
      BY <1>1, <2>1, <2>2, <3>2, <3>4 DEF Returned
  <2>4. CASE ~mine
    <3>1. late' = late
      BY <1>1, <1>4, <2>4 DEF Refund
    <3>2. One(Holds(p)) = 0 /\ One(p \in Unreturned(r)) \in Nat
      BY <1>2, <2>4 DEF One
    <3> QED
      BY <1>1, <2>1, <2>2, <3>1, <3>2 DEF Returned
  <2> QED
    BY <1>2, <2>3, <2>4
<1> QED
  BY <1>1, <1>3, <1>4

LEMMA RefundIInv ==
    ASSUME BrainIInv, NEW p \in Procs, Refund(p) PROVE BrainIInv'
<1> DEFINE r == Role(p)
           c == snap[p].calls[r]
<1>1. snap[p] # None /\ snap[p] \in Healths /\ BreakerOK(snap[p].breaker) /\ r \in Roles /\ c \in Nat
  BY CopyType DEF Refund, Reads, BrainIInv, TypeOK, Calls, Role, Healths
<1>2. Moves(p) /\ ~Holds(p)'
  BY FinishMoves, GoToMoves DEF Refund, AfterRefund, BrainIInv, Places, Updates
<1>3. FileKept(p) /\ (~lost' => ~lost /\ health'.failures = health.failures)
  <2>1. CASE c > 0
    <3> DEFINE n == c - 1
               h == [snap[p] EXCEPT !.calls[r] = n]
    <3>1. Put(p, h)
      BY <2>1 DEF Refund, Refunded
    <3>2. n \in Nat
      BY <1>1, <2>1
    <3> HIDE DEF n
    <3>3. h \in Healths /\ h.breaker = snap[p].breaker /\ h.failures = snap[p].failures
      BY <1>1, <3>2, CountFits
    <3> HIDE DEF h
    <3> QED
      BY <1>1, <3>1, <3>3, PutKeeps
  <2>2. CASE ~(c > 0)
    <3>1. Leave(p)
      BY <2>2 DEF Refund
    <3> QED
      BY <3>1, LeaveKeeps
  <2> QED
    BY <2>1, <2>2
<1>4. UNCHANGED <<begun, spent, wasted, last>> /\ \A s \in Roles : UsedUp(s)' = UsedUp(s)
  BY DEF Refund, UsedUp
<1>5. TypeOK' /\ Apart(p)
  BY <1>2, <1>3, <1>4, RefundLate, KeptType DEF BrainIInv, TypeOK
<1>6. ASSUME ~lost', NEW s \in Roles PROVE Balanced(p, s)
  <2>1. ~lost /\ Returned(p)
    BY <1>3, <1>6, RefundReturns
  <2>2. /\ health.calls[s] \in Nat /\ late[s] \in Nat /\ UsedUp(s) \in Nat /\ Cap[s] \in Nat
        /\ health'.calls[s] \in Nat /\ late'[s] \in Nat
    BY <1>5, BrainAssumption DEF BrainIInv, TypeOK, Healths, UsedUp
  <2>3. Cap[s] # 0 => health.calls[s] <= Cap[s]
    BY <2>1 DEF BrainIInv, SlotsOK
  <2>4. /\ p \notin Holding(s)' /\ (p \in Holding(s) <=> Holds(p) /\ s = r)
        /\ (p \in Unreturned(s) => s = r)
    BY <1>2 DEF Holding, Unreturned
  <2> HIDE DEF r
  <2>5. CASE s = r
    <3>1. One(p \in Holding(s)') = 0 /\ One(p \in Holding(s)) = One(Holds(p))
      BY <2>4, <2>5 DEF One
    <3>2. One(Holds(p)) \in Nat /\ One(p \in Unreturned(s)) \in Nat
      BY DEF One
    <3>3. /\ health'.calls[s] + late'[s] + One(Holds(p)) = health.calls[s] + late[s]
          /\ health'.calls[s] <= health.calls[s]
          /\ late[s] <= late'[s] + One(p \in Unreturned(s))
      BY <2>1, <2>5 DEF Returned, r
    <3> QED
      BY <1>4, <2>2, <2>3, <3>1, <3>2, <3>3 DEF Balanced
  <2>6. CASE s # r
    <3>1. One(p \in Holding(s)') = 0 /\ One(p \in Holding(s)) = 0 /\ One(p \in Unreturned(s)) = 0
      BY <2>4, <2>6 DEF One
    <3>2. health'.calls[s] = health.calls[s] /\ late'[s] = late[s]
      BY <2>1, <2>6 DEF Returned, r
    <3> QED
      BY <1>4, <2>2, <2>3, <3>1, <3>2 DEF Balanced
  <2> QED
    BY <2>5, <2>6
<1>7. ASSUME ~lost' PROVE last'.minutes <= Window(last'.class, health'.failures)
  <2>1. health'.failures >= health.failures
    BY <1>3, <1>7 DEF BrainIInv, TypeOK, Healths
  <2> QED
    BY <1>3, <1>4, <1>7, <2>1, WindowsKept DEF FileKept
<1> QED
  BY <1>3, <1>5, <1>6, <1>7, StepIInv DEF FileKept

\* Nobody is in the middle of an update when a window is over.
LEMMA WindowEndsIInv == BrainIInv /\ WindowEnds => BrainIInv'
<1> SUFFICES ASSUME BrainIInv, WindowEnds PROVE BrainIInv'
  OBVIOUS
<1>1. /\ health' = [health EXCEPT !.breaker = Closed]
      /\ UNCHANGED <<call, snap, begun, lost, spent, wasted, late, last>>
  BY DEF WindowEnds, history
<1>2. health' \in Healths /\ BreakerOK(health'.breaker)
      /\ health'.calls = health.calls /\ health'.failures = health.failures
  BY <1>1, ClearedFits DEF Cleared, BrainIInv, TypeOK
<1>3. TypeOK'
  BY <1>1, <1>2 DEF BrainIInv, TypeOK
<1>4. ASSUME ~lost', NEW r \in Roles PROVE SlotsOK(r)'
  <2>1. SlotsOK(r) /\ Holding(r)' = Holding(r) /\ Unreturned(r)' = Unreturned(r)
    BY <1>1, <1>4 DEF BrainIInv, Holding, Unreturned, Holds, Role, At
  <2> QED
    BY <1>1, <1>2, <2>1 DEF SlotsOK, UsedUp
<1>5. ~lost' => last'.minutes <= Window(last'.class, health'.failures)
  BY <1>1, <1>2 DEF BrainIInv
<1>6. \A q \in Procs : snap'[q] # None => BreakerOK(snap'[q].breaker)
  BY <1>1 DEF BrainIInv
<1> QED
  BY <1>2, <1>3, <1>4, <1>5, <1>6 DEF BrainIInv, BreakerOK

\* On a new day nobody holds a slot of it.
LEMMA NextDayIInv == BrainIInv /\ NextDay => BrainIInv'
<1> SUFFICES ASSUME BrainIInv, NextDay PROVE BrainIInv'
  OBVIOUS
<1> DEFINE none == [r \in Roles |-> 0]
<1>1. /\ health' = [health EXCEPT !.retries = 0, !.calls = none]
      /\ call' = [p \in Procs |-> [call[p] EXCEPT !.slot = FALSE]]
      /\ spent' = none /\ wasted' = none /\ late' = none
      /\ \A p \in Procs : snap[p] = None
      /\ UNCHANGED <<snap, begun, lost, last>>
  BY DEF NextDay
<1>2. none \in [Roles -> Nat] /\ \A r \in Roles : none[r] = 0
  OBVIOUS
<1> HIDE DEF none
<1>3. /\ health' \in Healths /\ health'.breaker = health.breaker
      /\ health'.failures = health.failures /\ health'.calls = none
  <2>1. health \in Healths /\ 0 \in 0 .. RetryCap
    BY BrainAssumption DEF BrainIInv, TypeOK
  <2> QED
    BY <1>1, <1>2, <2>1 DEF Healths
<1>4. ASSUME NEW p \in Procs PROVE [call[p] EXCEPT !.slot = FALSE] \in Calls
  BY DEF BrainIInv, TypeOK, Calls
<1>5. call' \in [Procs -> Calls]
  BY <1>1, <1>4
<1>6. TypeOK'
  BY <1>1, <1>2, <1>3, <1>5 DEF BrainIInv, TypeOK
<1>7. ASSUME NEW p \in Procs PROVE ~Holds(p)'
  <2>1. call[p] \in Calls /\ call'[p] = [call[p] EXCEPT !.slot = FALSE]
    BY <1>1 DEF BrainIInv, TypeOK
  <2>2. call'[p].slot = FALSE
    BY <2>1 DEF Calls
  <2> QED
    BY <2>2 DEF Holds
<1>8. ASSUME NEW r \in Roles PROVE SlotsOK(r)'
  <2>1. Holding(r)' = {} /\ Unreturned(r)' = {}
    BY <1>7 DEF Holding, Unreturned
  <2>2. health'.calls[r] = 0 /\ late'[r] = 0 /\ UsedUp(r)' = 0 /\ Cap[r] \in Nat
    BY <1>1, <1>2, <1>3, BrainAssumption DEF UsedUp
  <2>3. IsFiniteSet({}) /\ Cardinality({}) = 0
    BY FS_EmptySet
  <2> QED
    BY <2>1, <2>2, <2>3 DEF SlotsOK
<1>9. /\ ~lost' => last'.minutes <= Window(last'.class, health'.failures)
      /\ \A q \in Procs : snap'[q] # None => BreakerOK(snap'[q].breaker)
      /\ BreakerOK(health'.breaker)
  BY <1>1, <1>3 DEF BrainIInv
<1> QED
  BY <1>6, <1>8, <1>9 DEF BrainIInv, BreakerOK

LEMMA StutterBrainIInv == BrainIInv /\ UNCHANGED vars => BrainIInv'
<1> SUFFICES ASSUME BrainIInv, UNCHANGED vars PROVE BrainIInv'
  OBVIOUS
<1>1. UNCHANGED <<health, call, snap, begun, lost, spent, wasted, late, last>>
  BY DEF vars, history
<1>2. ASSUME NEW r \in Roles, SlotsOK(r) PROVE SlotsOK(r)'
  <2>1. Holding(r)' = Holding(r) /\ Unreturned(r)' = Unreturned(r)
    BY <1>1 DEF Holding, Unreturned, Holds, Role, At
  <2> QED
    BY <1>1, <1>2, <2>1 DEF SlotsOK, UsedUp
<1>3. TypeOK' /\ BreakerOK(health'.breaker)
  BY <1>1 DEF BrainIInv, TypeOK
<1>4. /\ ~lost' => last'.minutes <= Window(last'.class, health'.failures)
      /\ \A q \in Procs : snap'[q] # None => BreakerOK(snap'[q].breaker)
  BY <1>1 DEF BrainIInv
<1> QED
  BY <1>1, <1>2, <1>3, <1>4 DEF BrainIInv, BreakerOK

LEMMA NextBrainIInv == BrainIInv /\ [Next]_vars => BrainIInv'
<1> SUFFICES ASSUME BrainIInv, [Next]_vars PROVE BrainIInv'
  OBVIOUS
<1>1. ASSUME NEW p \in Procs, NEW j \in Jobs, NEW r \in Roles, Begin(p, j, r) PROVE BrainIInv'
  BY <1>1, BeginIInv
<1>2. ASSUME NEW p \in Procs, NEW c \in Classes, Fails(p, c) \/ NeverStarts(p, c) PROVE BrainIInv'
  BY <1>2, FailsIInv, NeverStartsIInv
<1>3. ASSUME NEW p \in Procs, Read(p) \/ Gate(p) \/ Clear(p) \/ Dies(p) PROVE BrainIInv'
  BY <1>3, ReadIInv, GateIInv, ClearIInv, DiesIInv
<1>4. ASSUME NEW p \in Procs, TakeFirst(p) \/ TakeSecond(p) \/ Refund(p) PROVE BrainIInv'
  BY <1>4, TakeFirstIInv, TakeSecondIInv, RefundIInv
<1>5. ASSUME NEW p \in Procs, Answers(p) \/ Rejected(p) \/ EndsEmpty(p) \/ Refuses(p)
      PROVE  BrainIInv'
  BY <1>5, AnswersIInv, RejectedIInv, EndsEmptyIInv, RefusesIInv
<1>6. ASSUME NEW p \in Procs, Succeed(p) \/ Record(p) \/ Ask(p) \/ Outer(p) PROVE BrainIInv'
  BY <1>6, SucceedIInv, RecordIInv, AskIInv, OuterIInv
<1>7. CASE WindowEnds \/ NextDay
  BY <1>7, WindowEndsIInv, NextDayIInv
<1>8. CASE UNCHANGED vars
  BY <1>8, StutterBrainIInv
<1> QED
  BY <1>1, <1>2, <1>3, <1>4, <1>5, <1>6, <1>7, <1>8 DEF Next

-----------------------------------------------------------------------------
(* What holds in every state.                                              *)

\* The inductive invariant of the guard around paid calls: every copy of the file
\* is fit to be written back, and, until a write is lost, the counts are those of
\* the calls.  (brain-guarded.ts, brain-health.ts)
THEOREM BrainInvariant == Spec => []BrainIInv
  BY InitBrainIInv, NextBrainIInv, PTL DEF Spec

\* The file, its copies, the calls and the histories stay of their types: the
\* failures and the day's retries never pass their bounds, a count is never
\* negative, and only an update holds a copy.
\* (recordFailure, tryConsumeRetry, refundQuotaCall)
THEOREM BrainTypeCorrect == Spec => []TypeOK
<1>1. BrainIInv => TypeOK
  BY DEF BrainIInv
<1> QED
  BY <1>1, BrainInvariant, PTL

\* For every number of processes: today's count is the calls that started, the
\* slots under way and those of calls the provider refused before a start, less
\* those that calls of another day gave back.
\* (tryConsumeQuotaCall, refundIfNeverStarted)
THEOREM SlotsAreCounted == Spec => []SlotsAreCalls
<1>1. BrainIInv => SlotsAreCalls
  BY DEF BrainIInv, SlotsAreCalls, SlotsOK
<1> QED
  BY <1>1, BrainInvariant, PTL

\* For every cap and number of processes, no more of a role's calls start on a day
\* than its cap and the slots that calls of another day gave back.
\* (enforceCapAndWarn, retryAllowed, refundQuotaCall)
THEOREM CapsAreKept == Spec => []CapsHold
<1>1. BrainIInv => CapsHold
  <2> SUFFICES ASSUME BrainIInv, ~lost, NEW r \in Roles, Cap[r] # 0
               PROVE  spent[r] <= Cap[r] + late[r]
    BY DEF CapsHold
  <2>1. SlotsOK(r)
    BY DEF BrainIInv
  <2>2. Cardinality(Holding(r)) \in Nat
    BY <2>1, FS_CardinalityType DEF SlotsOK
  <2>3. /\ health.calls[r] \in Nat /\ late[r] \in Nat /\ Cap[r] \in Nat
        /\ spent[r] \in Nat /\ wasted[r] \in Nat
    BY BrainAssumption DEF BrainIInv, TypeOK, Healths
  <2> QED
    BY <2>1, <2>2, <2>3 DEF SlotsOK, UsedUp
<1> QED
  BY <1>1, BrainInvariant, PTL

-----------------------------------------------------------------------------
(* What no step may do.                                                    *)

\* The ways in which a step of p sets the breaker: to that of its copy, which it
\* leaves as it is; to none; or to what the failure it records makes of it.
Copies(p) == snap[p] # None /\ health'.breaker = snap[p].breaker /\ (~lost' => health = snap[p])
Wipes(p)  == call[p].at \in {"gate", "clear", "succeed"} /\ health'.breaker = Closed
Opens(p)  == /\ snap[p] # None
             /\ health'.breaker = Failed(snap[p], call[p].class).breaker
             /\ ~lost' => health = snap[p]

BreakerStep ==
    /\ ~lost' => ~lost
    /\ \/ health'.breaker = health.breaker
       \/ health.breaker.minutes > 0 /\ health'.breaker = Closed
       \/ \E p \in Procs : call[p] # call'[p] /\ (Copies(p) \/ Wipes(p) \/ Opens(p))

\* A step that writes sets the file to what it wrote, or leaves it.
LEMMA PutSets ==
    ASSUME BrainIInv, NEW p \in Procs, NEW h, Put(p, h)
    PROVE  /\ ~lost' => ~lost /\ health = snap[p]
           /\ health' = health \/ health' = h
  BY DEF Put, BrainIInv, TypeOK

\* A step goes on to another place.
LEMMA FinishGoes ==
    ASSUME BrainIInv, NEW p \in Procs, Finish(p), call[p].at # "idle"
    PROVE  call[p] # call'[p]
  BY DEF Finish, Idle, BrainIInv, TypeOK

LEMMA GoToGoes ==
    ASSUME BrainIInv, NEW p \in Procs, NEW there \in Places, GoTo(p, there), call[p].at # there
    PROVE  call[p] # call'[p]
  BY GoToMoves DEF BrainIInv

LEMMA SlotBreaker ==
    ASSUME BrainIInv, NEW p \in Procs, snap[p] # None, NEW second \in BOOLEAN,
           TakeSlot(p, second) \/ NoSlot(p), call[p].at \in {"cap", "recap"}
    PROVE  BreakerStep
<1> DEFINE h == Consumed(snap[p], Role(p))
<1>1. CASE NoSlot(p)
  BY <1>1 DEF NoSlot, Leave, BreakerStep
<1>2. CASE TakeSlot(p, second)
  <2>1. snap[p] \in Healths /\ Put(p, h)
    BY <1>2, CopyType DEF TakeSlot
  <2>2. h.breaker = snap[p].breaker
    BY <2>1 DEF Consumed, Healths
  <2>3. call'[p].at = "run"
    <3>1. call[p] \in Calls /\ call' = [call EXCEPT ![p].at = "run", ![p].slot = TRUE, ![p].again = second]
      BY <1>2 DEF TakeSlot, BrainIInv, TypeOK
    <3> QED
      BY <3>1 DEF BrainIInv, TypeOK, Calls
  <2>4. call[p] # call'[p]
    BY <2>3
  <2> HIDE DEF h
  <2> QED
    BY <2>1, <2>2, <2>4, PutSets DEF BreakerStep, Copies
<1> QED
  BY <1>1, <1>2

LEMMA WakeBreaker ==
    ASSUME BrainIInv, NEW p \in Procs, Gate(p) \/ Clear(p) PROVE BreakerStep
<1>1. call[p].at \in {"gate", "clear"}
  BY DEF Gate, Clear, Reads, At
<1>2. Put(p, Cleared(snap[p])) \/ Leave(p)
  BY DEF Gate, Clear
<1>3. call[p] # call'[p]
  BY <1>1, FinishGoes, GoToGoes DEF Gate, Clear, Reads, At, Places, Updates
<1>4. CASE Leave(p)
  BY <1>4 DEF Leave, BreakerStep
<1>5. CASE Put(p, Cleared(snap[p]))
  <2>1. snap[p] \in Healths
    BY CopyType DEF Gate, Clear, Reads
  <2>2. Cleared(snap[p]).breaker = Closed
    BY <2>1 DEF Cleared, Healths
  <2> QED
    BY <1>1, <1>3, <1>5, <2>2, PutSets DEF BreakerStep, Wipes
<1> QED
  BY <1>2, <1>4, <1>5

LEMMA SucceedBreaker ==
    ASSUME BrainIInv, NEW p \in Procs, Succeed(p) PROVE BreakerStep
<1>1. call[p].at = "succeed" /\ snap[p] \in Healths /\ Put(p, Succeeded(snap[p]))
  BY CopyType DEF Succeed, Reads, At
<1>2. Succeeded(snap[p]).breaker = Closed
  BY <1>1 DEF Succeeded, Healths
<1>3. call[p] # call'[p]
  BY <1>1, FinishGoes DEF Succeed
<1> QED
  BY <1>1, <1>2, <1>3, PutSets DEF BreakerStep, Wipes

LEMMA RefundBreaker ==
    ASSUME BrainIInv, NEW p \in Procs, Refund(p) PROVE BreakerStep
<1>1. call[p].at = "refund" /\ snap[p] # None /\ snap[p] \in Healths
  BY CopyType DEF Refund, Reads, At
<1>2. call[p] # call'[p]
  BY <1>1, FinishGoes, GoToGoes DEF Refund, AfterRefund, Places, Updates
<1>3. CASE Leave(p)
  BY <1>3 DEF Leave, BreakerStep
<1>4. CASE Put(p, Refunded(snap[p], Role(p)))
  <2>1. Refunded(snap[p], Role(p)).breaker = snap[p].breaker
    BY <1>1 DEF Refunded, Healths
  <2> QED
    BY <1>1, <1>2, <1>4, <2>1, PutSets DEF BreakerStep, Copies
<1> QED
  BY <1>3, <1>4 DEF Refund

LEMMA RecordBreaker ==
    ASSUME BrainIInv, NEW p \in Procs, Record(p) PROVE BreakerStep
<1>1. /\ call[p].at = "record" /\ snap[p] # None
      /\ Put(p, Failed(snap[p], call[p].class))
  BY DEF Record, Reads, At
<1>2. call[p] # call'[p]
  <2>1. CASE call' = [call EXCEPT ![p].at = "ask", ![p].class = None]
    <3>1. call'[p].at = "ask"
      BY <2>1 DEF BrainIInv, TypeOK, Calls
    <3> QED
      BY <1>1, <3>1
  <2>2. CASE Finish(p)
    BY <1>1, <2>2, FinishGoes
  <2> QED
    BY <2>1, <2>2 DEF Record
<1> QED
  BY <1>1, <1>2, PutSets DEF BreakerStep, Opens

LEMMA OuterBreaker ==
    ASSUME BrainIInv, NEW p \in Procs, Outer(p) PROVE BreakerStep
<1> DEFINE h == [snap[p] EXCEPT !.retries = @ + 1]
<1>1. call[p].at = "outer" /\ snap[p] # None /\ snap[p] \in Healths
  BY CopyType DEF Outer, Reads, At
<1>2. CASE Leave(p)
  BY <1>2 DEF Leave, BreakerStep
<1>3. CASE Put(p, h) /\ GoTo(p, "recap")
  <2>1. h.breaker = snap[p].breaker
    BY <1>1 DEF Healths
  <2>2. call[p] # call'[p]
    BY <1>1, <1>3, GoToGoes DEF Places, Updates
  <2> HIDE DEF h
  <2> QED
    BY <1>1, <1>3, <2>1, <2>2, PutSets DEF BreakerStep, Copies
<1> QED
  BY <1>2, <1>3 DEF Outer

LEMMA NextBreaker ==
    ASSUME BrainIInv, Next PROVE BreakerStep
<1>1. ASSUME NEW p \in Procs, Gate(p) \/ Clear(p) \/ Succeed(p) PROVE BreakerStep
  BY <1>1, WakeBreaker, SucceedBreaker
<1>2. ASSUME NEW p \in Procs, TakeFirst(p) \/ TakeSecond(p) PROVE BreakerStep
  BY <1>2, SlotBreaker DEF TakeFirst, TakeSecond, Reads, At
<1>3. ASSUME NEW p \in Procs, Refund(p) \/ Record(p) \/ Outer(p) PROVE BreakerStep
  BY <1>3, RefundBreaker, RecordBreaker, OuterBreaker
<1>4. ASSUME NEW p \in Procs, \/ Read(p) \/ Answers(p) \/ Rejected(p) \/ EndsEmpty(p)
                              \/ Refuses(p) \/ Ask(p) \/ Dies(p)
      PROVE  BreakerStep
  BY <1>4 DEF Read, Answers, Rejected, EndsEmpty, Refuses, Started, Ask, Dies, history, BreakerStep
<1>5. ASSUME NEW p \in Procs, NEW j \in Jobs, NEW r \in Roles, Begin(p, j, r) PROVE BreakerStep
  BY <1>5 DEF Begin, BreakerStep
<1>6. ASSUME NEW p \in Procs, NEW c \in Classes, Fails(p, c) \/ NeverStarts(p, c) PROVE BreakerStep
  BY <1>6 DEF Fails, Started, NeverStarts, history, BreakerStep
<1>7. CASE WindowEnds
  BY <1>7 DEF WindowEnds, history, BreakerStep, BrainIInv, TypeOK, Healths
<1>8. CASE NextDay
  BY <1>8 DEF NextDay, BreakerStep, BrainIInv, TypeOK, Healths
<1> QED
  BY <1>1, <1>2, <1>3, <1>4, <1>5, <1>6, <1>7, <1>8 DEF Next

\* A latched permanent breaker goes by a wake, a re-verification or a success, or
\* by the write of a copy from before the latch; by nothing else, the end of a
\* window and the failures of other classes included.
\* (recordFailure, clearBreaker, recordSuccess)
THEOREM LatchHolds == Spec => PermanentStaysLatched
<1>1. ASSUME BrainIInv, Next, health.breaker.class = "permanent", health'.breaker.class # "permanent"
      PROVE  \E p \in Procs : /\ call[p] # call'[p]
                              /\ \/ call[p].at \in {"gate", "clear", "succeed"}
                                 \/ snap[p].breaker.class # "permanent"
  <2>1. health.breaker.minutes = 0
    BY <1>1 DEF BrainIInv, BreakerOK
  <2>2. PICK p \in Procs : call[p] # call'[p] /\ (Copies(p) \/ Wipes(p) \/ Opens(p))
    BY <1>1, <2>1, NextBreaker DEF BreakerStep
  <2>3. CASE Opens(p)
    <3>1. snap[p] \in Healths /\ BreakerOK(snap[p].breaker) /\ call[p].class \in Classes \cup {None}
      BY <1>1, <2>3, CopyType DEF Opens, BrainIInv, TypeOK, Calls
    <3>2. snap[p].breaker.class # "permanent"
      BY <1>1, <2>3, <3>1, FailedFits DEF Opens
    <3> QED
      BY <2>2, <3>2
  <2> QED
    BY <1>1, <2>2, <2>3 DEF Copies, Wipes
<1> QED
  BY <1>1, BrainInvariant, PTL DEF Spec, PermanentStaysLatched

\* Until a write is lost, and between two successes, a class that opens the breaker
\* again opens it for at least as long, however many wakes, days, processes and
\* other failures come in between.  (breakerWindowMin, recordFailure, clearBreaker)
THEOREM WindowsNeverShrink == Spec => WindowsEscalate
<1>1. ASSUME BrainIInv, Next, ~lost', health'.breaker # health.breaker,
             health'.breaker.class = last.class
      PROVE  health'.breaker.minutes >= last.minutes
  <2>1. /\ ~lost /\ last.minutes <= Window(last.class, health.failures)
        /\ last.minutes \in {0, 5, 15, 60}
    BY <1>1, NextBreaker DEF BreakerStep, BrainIInv, TypeOK, Breakers
  <2>2. CASE health'.breaker = Closed
    BY <1>1, <2>1, <2>2 DEF Closed, Window
  <2>3. CASE health'.breaker # Closed
    <3>1. PICK p \in Procs : Opens(p)
      BY <1>1, <2>3, NextBreaker DEF BreakerStep, Copies, Wipes
    <3> DEFINE h == Failed(snap[p], call[p].class)
    <3>2. snap[p] = health /\ call[p].class \in Classes \cup {None}
      BY <1>1, <3>1 DEF Opens, BrainIInv, TypeOK, Calls
    <3>3. /\ health'.breaker = Breaker(call[p].class, h.failures)
          /\ h.failures \in health.failures .. MaxFailures
      BY <1>1, <3>1, <3>2, FailedFits DEF Opens, BrainIInv, TypeOK
    <3> HIDE DEF h
    <3>4. health.failures \in 0 .. MaxFailures
      BY <1>1 DEF BrainIInv, TypeOK, Healths
    <3>5. h.failures \in 0 .. MaxFailures /\ health.failures <= h.failures
      BY <3>3, <3>4 DEF MaxFailures
    <3>6. health'.breaker.minutes = Window(last.class, h.failures)
      BY <1>1, <3>2, <3>3, <3>5, BreakerType
    <3>7. /\ Window(last.class, health.failures) <= Window(last.class, h.failures)
          /\ Window(last.class, health.failures) \in {0, 5, 15, 60}
          /\ Window(last.class, h.failures) \in {0, 5, 15, 60}
      BY <3>4, <3>5, WindowGrows, WindowType
    <3> QED
      BY <2>1, <3>6, <3>7
  <2> QED
    BY <2>2, <2>3
<1> QED
  BY <1>1, BrainInvariant, PTL DEF Spec, WindowsEscalate

=============================================================================
