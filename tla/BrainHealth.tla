---------------------------- MODULE BrainHealth ----------------------------
(***************************************************************************)
(* The guard around paid calls (brain/brain-guarded.ts) and the file it    *)
(* keeps its counts in, brain-health.json (state/brain-health.ts): the     *)
(* circuit breaker, the daily cap of each role, the daily retry budget.    *)
(*                                                                         *)
(* Every update reads the whole file and writes it whole.  Inside one      *)
(* process the two are one step; between processes another write may fall  *)
(* in between, and is then lost.  A write that fails is swallowed.         *)
(*                                                                         *)
(* Time passes only between updates: an update takes milliseconds, a       *)
(* breaker's window minutes.  Dates are left out: a window is its length,  *)
(* one that is over is no breaker, and a count of another day is zero, as  *)
(* every reader of the file takes them.                                    *)
(***************************************************************************)
EXTENDS Naturals, FiniteSets

CONSTANTS
    Procs,      \* the processes that call, or wake
    None,
    Roles,      \* the daily counts: "review", "chat"
    Cap,        \* calls of each role per day, 0 for no cap
    RetryCap,   \* retries per day
    MaxCalls    \* bound: calls and wakes in all

ASSUME BrainAssumption ==
    /\ "review" \in Roles
    /\ Cap \in [Roles -> Nat] /\ RetryCap \in Nat /\ MaxCalls \in Nat
    /\ None \notin Procs

VARIABLES
    health,     \* brain-health.json
    call,       \* what each process does, and where it is
    snap,       \* the copy of the file each update works on
    begun,      \* bound: the calls and wakes so far
    lost,       \* history: a write was lost, or wrote over another
    spent,      \* history: today's calls by role whose process started, or died
    wasted,     \* history: today's slots by role of calls refused before a start
    late,       \* history: today's slots that yesterday's calls gave back
    last        \* history: the breaker last opened since the last success

history == <<begun, lost, spent, wasted, late, last>>
vars == <<health, call, snap, history>>

Jobs    == {"stop", "command", "raw", "wake"}
Classes == {"throttle", "resource", "permanent", "ambiguous"}
Updates == {"gate", "clear", "cap", "refund", "record", "succeed", "outer", "recap"}
Places  == Updates \cup {"idle", "run", "ask"}

MaxFailures == 5      \* bound: more consecutive failures act as five do
Closed == [class |-> "none", minutes |-> 0]

\* A call: where it is, whether it is raw (no retry, no health), the count it
\* takes from, the class of the failure that is yet to be recorded, whether it
\* is at its second attempt, and whether the slot it holds is of today.
Calls ==
    [at : Places, raw : BOOLEAN, role : Roles, class : Classes \cup {None}, again : BOOLEAN,
     slot : BOOLEAN]
Idle == [at |-> "idle", raw |-> FALSE, role |-> "review", class |-> None, again |-> FALSE, slot |-> FALSE]

At(p, where) == call[p].at = where
Role(p)      == call[p].role
IsRaw(p)     == call[p].raw

MinOf(a, b) == IF a < b THEN a ELSE b

Breakers == [class : Classes \cup {"none"}, minutes : {0, 5, 15, 60}]

Healths ==
    [failures : 0 .. MaxFailures,
     breaker  : Breakers,
     retries  : 0 .. RetryCap,
     calls    : [Roles -> Nat]]    \* today's

TypeOK ==
    /\ health \in Healths
    /\ call \in [Procs -> Calls]
    /\ snap \in [Procs -> Healths \cup {None}]
    /\ \A p \in Procs : snap[p] # None => call[p].at \in Updates
    /\ begun \in 0 .. MaxCalls
    /\ lost \in BOOLEAN
    /\ spent \in [Roles -> Nat] /\ wasted \in [Roles -> Nat] /\ late \in [Roles -> Nat]
    /\ last \in Breakers

Init ==
    /\ health = [failures |-> 0, breaker |-> Closed,
                 retries |-> 0, calls |-> [r \in Roles |-> 0]]
    /\ call = [p \in Procs |-> Idle]
    /\ snap = [p \in Procs |-> None]
    /\ begun = 0 /\ lost = FALSE
    /\ spent = [r \in Roles |-> 0]
    /\ wasted = [r \in Roles |-> 0]
    /\ late = [r \in Roles |-> 0]
    /\ last = Closed

-----------------------------------------------------------------------------
(* The transitions of the file.                                            *)

\* breakerWindowMin: how long the breaker stays open, 0 for not at all.
Window(class, failures) ==
    CASE class = "resource"  -> IF failures >= 2 THEN 60 ELSE 15
      [] class = "ambiguous" -> (IF failures >= 5 THEN 60
                                 ELSE IF failures = 4 THEN 15
                                 ELSE IF failures = 3 THEN 5 ELSE 0)
      [] OTHER               -> 0

\* The breaker a failure leaves.  The permanent one is latched: it has no
\* window.  A class without a window closes whatever was open.
Breaker(class, failures) ==
    IF class = "permanent" THEN [class |-> class, minutes |-> 0]
    ELSE IF Window(class, failures) > 0
         THEN [class |-> class, minutes |-> Window(class, failures)]
         ELSE Closed

\* Mutant: any failure replaces the breaker.
FailedUnlatches(h, class) ==
    LET n == MinOf(h.failures + 1, MaxFailures)
    IN  [h EXCEPT !.failures = n, !.breaker = Breaker(class, n)]

\* recordFailure: a latched breaker survives failures of another class.
Failed(h, class) ==
    LET n == MinOf(h.failures + 1, MaxFailures)
    IN  [h EXCEPT !.failures = n,
                  !.breaker = IF @.class = "permanent" THEN @ ELSE Breaker(class, n)]

\* recordSuccess: the full reset.
Succeeded(h) == [h EXCEPT !.failures = 0, !.breaker = Closed]

\* Mutant: waking declares the brain healthy.
ClearedHealthy(h) == [h EXCEPT !.failures = 0, !.breaker = Closed]

\* clearBreaker: "try now", not "declare healthy".
Cleared(h) == [h EXCEPT !.breaker = Closed]

CanConsume(h, r) == Cap[r] = 0 \/ h.calls[r] < Cap[r]
Consumed(h, r)   == [h EXCEPT !.calls[r] = @ + 1]

\* refundQuotaCall: today's entry, never below zero.
Refunded(h, r) == IF h.calls[r] > 0 THEN [h EXCEPT !.calls[r] = @ - 1] ELSE h

-----------------------------------------------------------------------------
(* Reading and writing the file.                                           *)

Read(p) ==
    /\ call[p].at \in Updates /\ snap[p] = None
    /\ snap' = [snap EXCEPT ![p] = health]
    /\ UNCHANGED <<health, call, history>>

Reads(p, stage) == At(p, stage) /\ snap[p] # None

\* The update writes its copy; or the write fails, and nothing says so.
Put(p, h) ==
    /\ snap' = [snap EXCEPT ![p] = None]
    /\ \/ health' = h /\ lost' = (lost \/ snap[p] # health)
       \/ health' = health /\ lost' = TRUE

\* The update decides not to write.
Leave(p) == snap' = [snap EXCEPT ![p] = None] /\ UNCHANGED <<health, lost>>

\* The histories count until the first lost write.
Count(f, r) == IF lost THEN f ELSE [f EXCEPT ![r] = @ + 1]

Finish(p)      == call' = [call EXCEPT ![p] = Idle]
GoTo(p, there) == call' = [call EXCEPT ![p].at = there, ![p].slot = FALSE]

-----------------------------------------------------------------------------
(* A call.                                                                 *)

\* Only the Stop hook asks the breaker; a review command and the raw calls, of
\* any role, do not.
Begin(p, j, r) ==
    /\ At(p, "idle")
    /\ j = "raw" \/ r = "review"
    /\ begun < MaxCalls /\ begun' = begun + 1
    /\ call' = [call EXCEPT ![p] =
                  [Idle EXCEPT !.raw = (j = "raw"), !.role = r,
                               !.at = CASE j = "stop" -> "gate" [] j = "wake" -> "clear"
                                        [] OTHER -> "cap"]]
    /\ UNCHANGED <<health, snap, lost, spent, wasted, late, last>>

\* checkBreakerGate: a wake marker clears the breaker and lets the turn pass.
Gate(p) ==
    /\ Reads(p, "gate")
    /\ \/ snap[p].breaker # Closed /\ Put(p, Cleared(snap[p])) /\ GoTo(p, "cap")
       \/ snap[p].breaker # Closed /\ Leave(p) /\ Finish(p)
       \/ snap[p].breaker = Closed /\ Leave(p) /\ GoTo(p, "cap")
    /\ UNCHANGED <<begun, spent, wasted, late, last>>

\* runWake, and doctor's re-verify.
Clear(p) ==
    /\ Reads(p, "clear")
    /\ IF snap[p].breaker # Closed THEN Put(p, Cleared(snap[p])) ELSE Leave(p)
    /\ Finish(p)
    /\ UNCHANGED <<begun, spent, wasted, late, last>>

TakeSlot(p, second) ==
    /\ CanConsume(snap[p], Role(p))
    /\ Put(p, Consumed(snap[p], Role(p)))
    /\ call' = [call EXCEPT ![p].at = "run", ![p].slot = TRUE, ![p].again = second]

NoSlot(p) == ~CanConsume(snap[p], Role(p)) /\ Leave(p) /\ Finish(p)

\* enforceCapAndWarn: the slot is taken before the process starts.
TakeFirst(p) ==
    /\ Reads(p, "cap")
    /\ TakeSlot(p, FALSE) \/ NoSlot(p)
    /\ UNCHANGED <<begun, spent, wasted, late, last>>

\* A call whose process started has been made, on the day its slot is of.
Started(p) ==
    /\ At(p, "run")
    /\ spent' = IF call[p].slot THEN Count(spent, Role(p)) ELSE spent
    /\ UNCHANGED <<health, snap, begun, lost, wasted, late, last>>

\* The answer is there: of a guarded call a success, of a raw one the end.
Answers(p) ==
    /\ Started(p)
    /\ IF IsRaw(p) THEN Finish(p) ELSE GoTo(p, "succeed")

\* attempt: a success is recorded, whoever opened the breaker meanwhile.
Succeed(p) ==
    /\ Reads(p, "succeed")
    /\ Put(p, Succeeded(snap[p]))
    /\ Finish(p)
    /\ last' = IF health' = Succeeded(snap[p]) THEN Closed ELSE last
    /\ UNCHANGED <<begun, spent, wasted, late>>

\* The answer is no JSON, or not the schema's: ask once more, health untouched.
Rejected(p) ==
    /\ Started(p)
    /\ IF IsRaw(p) \/ call[p].again THEN Finish(p) ELSE GoTo(p, "ask")

\* The process ran and failed.
Fails(p, class) ==
    /\ Started(p)
    /\ IF IsRaw(p) THEN Finish(p)
       ELSE call' = [call EXCEPT ![p].at = "record", ![p].class = class, ![p].slot = FALSE]

\* The process ran and left neither a failure nor a reply: nothing is recorded.
EndsEmpty(p) == Started(p) /\ Finish(p)

\* The provider refuses the call before it starts a process, for a prompt that is
\* too long: that is no spawnError, so the slot stays taken, and no failure to
\* record either.
Refuses(p) ==
    /\ At(p, "run")
    /\ wasted' = IF call[p].slot THEN Count(wasted, Role(p)) ELSE wasted
    /\ Finish(p)
    /\ UNCHANGED <<health, snap, begun, lost, spent, late, last>>

\* The process could not be started: that is never a throttle.
NeverStarts(p, class) ==
    /\ At(p, "run") /\ class # "throttle"
    /\ call' = [call EXCEPT ![p].at = "refund", ![p].class = class]
    /\ UNCHANGED <<health, snap, history>>

AfterRefund(p) == IF IsRaw(p) THEN Finish(p) ELSE GoTo(p, "record")

\* Mutant: the slot is given back whatever the count is.
RefundBlind(p) ==
    /\ Reads(p, "refund")
    /\ Put(p, [snap[p] EXCEPT !.calls[Role(p)] = @ - 1])
    /\ AfterRefund(p)
    /\ UNCHANGED <<begun, spent, wasted, late, last>>

\* Mutant: only a first attempt gives its slot back.
RefundFirstOnly(p) ==
    /\ Reads(p, "refund")
    /\ IF snap[p].calls[Role(p)] > 0 /\ ~call[p].again
       THEN Put(p, Refunded(snap[p], Role(p))) ELSE Leave(p)
    /\ AfterRefund(p)
    /\ UNCHANGED <<begun, spent, wasted, late, last>>

\* refundIfNeverStarted takes a slot off today's count, whichever day the call's
\* own slot is of; when there is none left, an earlier day's call has given this
\* one back already.
Refund(p) ==
    LET r == Role(p)
    IN  /\ Reads(p, "refund")
        /\ IF snap[p].calls[r] > 0 THEN Put(p, Refunded(snap[p], r)) ELSE Leave(p)
        /\ late' = CASE lost -> late
                     [] ~lost /\ snap[p].calls[r] > 0 /\ ~call[p].slot -> [late EXCEPT ![r] = @ + 1]
                     [] ~lost /\ snap[p].calls[r] = 0 /\ call[p].slot  -> [late EXCEPT ![r] = @ - 1]
                     [] OTHER -> late
        /\ AfterRefund(p)
        /\ UNCHANGED <<begun, spent, wasted, last>>

\* recordAndEnrich: every failed attempt counts; only a throttled first one
\* asks for another.
Record(p) ==
    /\ Reads(p, "record")
    /\ LET h == Failed(snap[p], call[p].class)
       IN  /\ Put(p, h)
           /\ last' = IF h.breaker.minutes > 0 THEN h.breaker ELSE last
    /\ IF call[p].class = "throttle" /\ ~call[p].again
       THEN call' = [call EXCEPT ![p].at = "ask", ![p].class = None]
       ELSE Finish(p)
    /\ UNCHANGED <<begun, spent, wasted, late>>

\* retryAllowed, first the token budget ...
Ask(p) ==
    /\ At(p, "ask")
    /\ GoTo(p, "outer") \/ Finish(p)
    /\ UNCHANGED <<health, snap, history>>

\* ... then the day's retries: that slot is gone even if the next gate refuses ...
Outer(p) ==
    /\ Reads(p, "outer")
    /\ \/ /\ snap[p].retries < RetryCap
          /\ Put(p, [snap[p] EXCEPT !.retries = @ + 1])
          /\ GoTo(p, "recap")
       \/ snap[p].retries >= RetryCap /\ Leave(p) /\ Finish(p)
    /\ UNCHANGED <<begun, spent, wasted, late, last>>

\* Mutant: a retry belongs to the call that has a slot.
TakeSecondUnasked(p) ==
    /\ Reads(p, "recap")
    /\ Leave(p)
    /\ call' = [call EXCEPT ![p].at = "run", ![p].slot = TRUE, ![p].again = TRUE]
    /\ UNCHANGED <<begun, spent, wasted, late, last>>

\* ... then, in the same breath, the role's cap: a retry is a second call.
TakeSecond(p) ==
    /\ Reads(p, "recap")
    /\ TakeSlot(p, TRUE) \/ NoSlot(p)
    /\ UNCHANGED <<begun, spent, wasted, late, last>>

Holds(p) == call[p].at \in {"run", "refund"} /\ call[p].slot

\* The process dies.
Dies(p) ==
    /\ ~At(p, "idle")
    /\ Finish(p)
    /\ snap' = [snap EXCEPT ![p] = None]
    /\ spent' = IF Holds(p) THEN Count(spent, Role(p)) ELSE spent
    /\ UNCHANGED <<health, begun, lost, wasted, late, last>>

\* The window of the breaker is over.
WindowEnds ==
    /\ health.breaker.minutes > 0
    /\ \A p \in Procs : snap[p] = None
    /\ health' = [health EXCEPT !.breaker = Closed]
    /\ UNCHANGED <<call, snap, history>>

\* The reset hour: a new day begins.
NextDay ==
    /\ \A p \in Procs : snap[p] = None /\ ~At(p, "recap")
    /\ health' = [health EXCEPT !.retries = 0, !.calls = [r \in Roles |-> 0]]
    /\ call' = [p \in Procs |-> [call[p] EXCEPT !.slot = FALSE]]
    /\ spent' = [r \in Roles |-> 0]
    /\ wasted' = [r \in Roles |-> 0]
    /\ late' = [r \in Roles |-> 0]
    /\ UNCHANGED <<snap, begun, lost, last>>

Next ==
    \/ \E p \in Procs :
          \/ \E j \in Jobs, r \in Roles : Begin(p, j, r)
          \/ \E c \in Classes : Fails(p, c) \/ NeverStarts(p, c)
          \/ Read(p) \/ Gate(p) \/ Clear(p) \/ TakeFirst(p) \/ Answers(p) \/ Succeed(p)
          \/ Rejected(p) \/ EndsEmpty(p) \/ Refuses(p) \/ Refund(p) \/ Record(p)
          \/ Ask(p) \/ Outer(p) \/ TakeSecond(p)
          \/ Dies(p)
    \/ WindowEnds \/ NextDay

Spec == Init /\ [][Next]_vars

-----------------------------------------------------------------------------
(* Properties.                                                             *)

\* As long as no write was lost: on no day do more of a role's calls start than
\* the cap allows, first attempts and retries of all processes together.  One
\* exception is named: a call that began before the reset hour and never started
\* gives back a slot of the new day, which another call holds, and so one more
\* may start.  (enforceCapAndWarn, retryAllowed, refundQuotaCall)
CapsHold ==
    ~lost => \A r \in Roles : Cap[r] = 0 \/ spent[r] <= Cap[r] + late[r]

Holding(r) == {p \in Procs : Holds(p) /\ Role(p) = r}

\* The slots that are used up: by calls that were made, and by refused ones.
UsedUp(r) == spent[r] + wasted[r]

\* As long as no write was lost, today's count is the calls that started, the
\* slots under way and those of processes that died with one, less the slots
\* yesterday's calls gave back: a retry counts, a spawn that failed costs nothing,
\* and no slot is given back twice.  One exception is named to "The cap counts
\* calls made" (brain-health.ts:453): a call that its provider refused for the
\* length of its prompt made none and keeps its slot (codex.ts:237, agy.ts:259).
\* (tryConsumeQuotaCall, refundIfNeverStarted)
SlotsAreCalls ==
    ~lost => \A r \in Roles :
                health.calls[r] + late[r] = UsedUp(r) + Cardinality(Holding(r))

\* A latched permanent breaker goes by a wake, a doctor's re-verify or the
\* success of a call that was under way; no failure of another class, by a
\* path that does not ask the breaker, replaces it.  A process that writes a
\* copy from before the latch may wipe it out, and only such a one.
\* (recordFailure, recordSuccess, clearBreaker)
PermanentStaysLatched ==
    [][ (health.breaker.class = "permanent" /\ health'.breaker.class # "permanent") =>
            \E p \in Procs : /\ call[p] # call'[p]
                             /\ \/ call[p].at \in {"gate", "clear", "succeed"}
                                \/ snap[p].breaker.class # "permanent" ]_vars

\* From success to success, the window of a class that follows itself never
\* shrinks, across wakes, re-verifications, days and failures that open nothing:
\* a brain that is woken too early is left alone for longer, not for as long.
\* (breakerWindowMin, recordFailure, clearBreaker)
WindowsEscalate ==
    [][ (~lost' /\ health'.breaker # health.breaker /\ health'.breaker.class = last.class)
           => health'.breaker.minutes >= last.minutes ]_vars

-----------------------------------------------------------------------------
(* The inductive invariant.                                                *)

\* A closed breaker and the latched one have no window to be over.
BreakerOK(b) == b.class \in {"none", "permanent"} => b.minutes = 0

\* The calls that hold a slot of today but saw a count of zero when they came to
\* give it back: they will take it off `late` instead.
Unreturned(r) ==
    {p \in Holding(r) : At(p, "refund") /\ snap[p] # None /\ snap[p].calls[r] = 0}

SlotsOK(r) ==
    /\ IsFiniteSet(Holding(r))
    /\ health.calls[r] + late[r] = UsedUp(r) + Cardinality(Holding(r))
    /\ Cap[r] # 0 => health.calls[r] <= Cap[r]
    /\ Cardinality(Unreturned(r)) <= late[r]

\* Inductive: what a copy of the file carries is fit to be written back, and the
\* failures counted since the last success are enough for the longest window.
BrainIInv ==
    /\ TypeOK
    /\ BreakerOK(health.breaker)
    /\ \A p \in Procs : snap[p] # None => BreakerOK(snap[p].breaker)
    /\ ~lost => \A r \in Roles : SlotsOK(r)
    /\ ~lost => last.minutes <= Window(last.class, health.failures)

=============================================================================
