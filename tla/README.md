# A TLA+ model of Siltpoke

Siltpoke watches a coding agent. When the agent ends a turn, a hook decides
whether a *unit* of work (a commit, or a branch) has closed since the last
review, has a second model review it, and remembers what came of it. Around this
there is a small daemon (dashboard, chat, paid one-off runs), a memory of rules
distilled from reviews, and a set of adapters for five agents. Nearly everything
that can go wrong in it goes wrong *between processes*: a hook is a process that
lives for seconds or minutes, several run at once, the host may kill any of them,
and what they share is a handful of small files.

Source paths below are relative to the repository's `src/`.

## 1. Inventory

| Component | State | Operations | Modelled |
|---|---|---|---|
| Review-unit decision: `router/review-unit.ts`, `router/git-facts.ts` | `review-anchor.json` (HEAD and tree consumed last) | collect git facts, decide, read and write the anchor | `ReviewUnit`, `StopHook` |
| Stop-hook pipeline: `hooks/handle-stop.ts`, `router/skip-detector.ts`, `state/skip-state.ts`, `cli/wake.ts` | anchor, `skip-state.json`, `wake.json`, the locals of each hook | the gates, dedupe, review, consume, store the hash, wake | `StopHook` (partly) |
| Stop-event marker: `daemon/marker.ts`, `hooks/on-stop.ts`, `daemon/routes/hooks.ts` | one marker file per session and transcript content | derive key, look, wait, claim, complete | `StopMarker` |
| Process lock: `utils/process-lock.ts` | lock directory with `owner.json` | acquire, reclaim, release, heartbeat | `ProcessLock` |
| Daemon lifecycle: `daemon/server.ts`, `cli/daemon.ts`, `dashboard.ts`, `report-stop.ts`, `daemon-stop-guard.ts` | the lock, `siltpoked.pid`, the port | start, evict, bind, stop, signals | `Daemon` (partly) |
| Deferred adjudication: `memory/pending-queue.ts`, `distil-worker.ts`, `distil-launcher.ts` | `pending-critiques.jsonl`, the worker's snapshot | enqueue, launch, sweep, retry, expire | `DistilWorker` |
| Task registry: `daemon/task-registry.ts`, `result-classifier.ts` | records in memory and `tasks.json`, live handles, watchers, the `activeId` lock, result files | register, attach, cancel, time out, complete, load, adopt, reconcile, scavenge | `TaskRegistry` |
| Paid-run routes: `daemon/routes/repo-graph.tsx`, `explain/providers.ts` | the floating promise of a run | generate, cancel, spawn to a file | `TaskRegistry` (partly) |
| Critic pipeline: `critic/run-critic.ts` | none | one review | its outcome only, in `StopHook` |
| Brain health and guarded calls: `state/brain-health.ts`, `brain/brain-guarded.ts`, `failure-classify.ts`, `role-brain.ts` | breaker, retry budget, daily caps in one JSON file | guarded and raw calls, two kinds of retry, record failure and success, refund, clear | `BrainHealth` |
| Chat store and index recovery: `daemon/routes/chat.ts`, `chat/recovery.ts`, `fts5-index.ts`, `jsonl-store.ts`, `run-store.ts`, `sessions.ts` | JSONL conversations, a full-text index, call records, the list of conversations in `memory.json` | send, delete, recap, re-anchor; replay, confirm-then-prune | `ChatStore`, `ChatRecovery` (partly) |
| Memory: `memory/*.ts` | `memory.json`, XP | write rules, decay, consolidate | its list of conversations, in `ChatStore` |
| The daemon's other routes | HTTP state | serve | no: they serve the stores of other components |
| Brain providers | none | spawn an agent, parse its reply | no: their result is an outcome of `StopHook` |
| Critic tools and rubric | none | heuristics over source text | no state |
| Transcripts and routing | none | parse transcripts | no: their result is an input (`Contexts`) |
| Repository graph, repo memory, explain | caches | index, render prompts | no: data, without concurrency of their own |
| State, configuration, budget, logs | JSON files | load, save, roll up | no, except `skip-state.json` |
| Web dashboard and pet; CLI, installer, update; session start and host adapters | - | rendering, one-shot commands, payload translation | no |

How they interact. A host fires one or more hook processes, or posts to the
daemon, at the end of a turn. They agree on who reviews through `StopMarker`; the
winner runs `StopHook`, which asks `ReviewUnit`. The same hook parks the critique
of a review for later judgement and launches a detached worker: `DistilWorker`,
which is a singleton by `ProcessLock`. So is the daemon (`Daemon`), which anybody may
start at any time and which the others find by its pidfile and port. It starts paid
runs through `TaskRegistry`; their subprocesses outlive it. It also serves the
chat (`ChatStore`), whose index it puts right at each start (`ChatRecovery`). The
paid calls of reviews, chat and adjudication pass the guard of `BrainHealth`. Not all
do: the runs of `TaskRegistry` spawn `claude -p` themselves (`explain/providers.ts`), and
`brain/provider.ts:14` admits callers that were not migrated; the caps say nothing of
those.

The hard behaviours, and what is correct:

- *Nothing goes unread.* A unit is consumed (the anchor moves) only when its
  content was looked at. The decision to consume is taken minutes before the
  write; HEAD, other sessions and failures come in between.
- *Nothing is paid for twice, nothing is dropped.* One of several deliveries
  reviews; a failed review is retried; a suppressed one has a reviewer.
- *A lock excludes, and a dead owner does not block.* The recovery of a stale
  lock is the dangerous part.
- *One daemon serves, and can be found.* Three things say who it is: the lock, the
  pidfile, the port. They are taken and given up one after the other, by processes
  that signal each other by pids read from a file.
- *A queue entry is adjudicated once, and a bounded number of times*, across
  crashes between two writes and writers that throw.
- *A paid run ends once, and its lock comes free*, although cancel, timeout,
  return, watcher and restart race for the terminal, and any write may throw.
- *Conversations are neither lost nor resurrected.* Four stores are written one
  await after the other; a handler may write back what it read before a deletion.
  The index is repaired from a listing that fails open.
- *Spending stays under its caps.* The counts are in one file that several processes
  read and write whole.

The hazards, each at its line, are in `PROJECT.json`; those without a property have
a note saying why.

## 2. The modules

```
ReviewUnit --EXTENDS-- StopHook ----- StopHookProofs, MCStopHook
Reviewer <--implements----/
StopMarker -- StopHookProofs (its theorems are there too), MCStopMarker
Mutex <--implements-- ProcessLock --- ProcessLockProofs
                         |--EXTENDS-- Daemon -------- DaemonProofs, MCDaemon
                         \--EXTENDS-- DistilWorker -- DistilWorkerProofs, MCDistilWorker
RunLog <--implements-- TaskRegistry -- TaskRegistryProofs, MCTaskRegistry
ChatFiles <--implements-- ChatStore ---- ChatStoreProofs, MCChatStore
     \--EXTENDS, implements-- ChatRecovery - ChatRecoveryProofs, MCChatRecovery
BrainHealth --- BrainHealthProofs, MCBrainHealth
```

Each module has its state as VARIABLES, one action per step another actor can
come between, properties at the end, and the mutants (variants of a definition
with a plausible bug, used to see that a property can fail) next to what they
vary. `PROJECT.json` maps every definition to its lines.

### ReviewUnit: the decision

`Facts` is everything `collectReviewUnitFacts` may return for a HEAD, a tree and a
stored anchor: git may fail to answer any question, and what the code does with
the silence is in it. `Decide` is `decideReviewUnit`, rule by rule. A repository
is given by constants (`Tree`, `Ancestors`, `MergeBase`), so a theorem speaks of
every commit graph.

### StopHook: from the end of a turn to a consumed unit

One hook is a `stage` and a record `loc` of the locals of `handleStopHook`. The
stages are the awaits between which the files or HEAD can change:

| Stage left by | Code |
|---|---|
| `Stop`, `UnlinkWake` | `consumeWake`: read the marker, then unlink it; whoever's unlink succeeds owns the wake |
| `PolicySkip` | breaker, quiet hours, budget: a nondeterministic skip unless a wake forces |
| `ReadHead`, `ReadTree`, `GitFails` | two git processes in `collectReviewUnitFacts` |
| `DecideUnit`, `SkipUnit` | `checkReviewUnitGate` with the code-change gate behind it (`Gate`) |
| `Dedupe` | `checkDedupeGate` on the session's last signature |
| `Resolved`, `Failed` | the critic: dealt with, or `brainFailed` or thrown |
| `Consume`, `HashRead`, `HashWrite` | `commitAnchor`, `commitHash` (read, then write the whole file) |
| `Crash` | the host kills the hook |

Environment: `MoveHead` (commit, amend, checkout, reset, rebase), `LoseAnchor`,
`Wake`, `WakeExpires`. Writes the code swallows errors of may not happen.

`seen` is a history variable: how each content came to be dealt with. Besides a
completed review there are two ways in which the code lets content through that
nobody read, and the model names them instead of hiding them: `torn` (HEAD moved
between `rev-parse HEAD` and `rev-parse HEAD^{tree}`, so the gate combined two
commits) and `blind` (a duplicate skip adopted a unit whose signature names none).
The safety properties hold with these two, and only these two, exceptions.

`Reviewer` is what the hooks promise together: content is dealt with in one step
(`Deal`), and consumed or called "already said" in a later one (`Consume`, `Say`), from
what is dealt with by then; nothing dealt with is forgotten. `ImplementsReviewer` reads
these three off `seen`, the anchor and the stored signatures. It forbids, among other
things, a review that consumes before its outcome is known.

### StopMarker: one review per Stop event

A delivery is one hook process or one request to the daemon. It hashes the
transcript as it is *then* (`DeriveKey`: possibly the next turn's already), looks
(`Look`), waits for a live daemon (`Probe`, `Wait`), and creates the marker file
(`Claim`, O_EXCL) before its body (`WriteClaim`). `MarkerError` is every throw of
the marker layer: the review runs, unowned. A claim can go stale (`Age`);
whatever `Look` makes of that, `Claim` finds the file and skips, so a claim whose
owner died is never taken over. That is why `DeliveredIsReviewed` allows a death.

### ProcessLock

Every system call of `acquireLock`, `releaseLock` and the heartbeat is a step:
`Mkdir`, `Check` (no `owner.json`, or a dead owner, is stale), `Remove`, `Remake`,
`WriteOwner` (an atomic write that also makes the directory), `Release`,
`FailClosed`, `Die`. `raced` is a history flag for the two races of the stale path,
in which the directory that is removed is not the one that was judged: its maker
had not written `owner.json` yet, or the lock changed hands since. Recursive
removal is one step. Pids are not reused (the code names this limitation).

`Mutex` is what the lock promises: whoever enters finds nobody in. `ImplementsMutex`
maps the holders of the lock to those of the mutex until the first race, and to
nobody afterwards: from then on the lock is not taken for a mutex.

### Daemon

EXTENDS the lock: a daemon takes it with the very steps of `ProcessLock`
(`TakeLock`, `Locked`), and `phase` says where it is from then on. `ReadPid` and
`Evict` are `evictPriorPortHolder`, `WritePid` and `Bind` the rest of `startDaemon`
(with `resolveBindFailure`), `Install` the signal handlers, which come after an await
behind the bind. `Close`, `Leave`, `Unlink` are `stopDaemon`: server, lock, pidfile, in
this order; a failed bind goes through the last two. `Stop` is a SIGTERM to a pid read
from the pidfile at any time before, `Interrupt` a SIGINT (Ctrl-C), `End` is every death,
`Foreign` another program (or the retired server, which `report.pid` names) on the port.

What a signal does depends on when it comes (`Signal`). SIGTERM and SIGINT have a handler
each, both registered by `process.once` (`server.ts:804-805`). `handlers` holds those a
daemon has left: the signal that closes it uses its own up, the other one stays, and since
`stopDaemon` runs to its end in one turn of the event loop, what comes to that other
handler meanwhile changes nothing. A signal without a handler kills.

The order of `stopDaemon` would let a leaving daemon remove the pidfile of its successor.
A successor that has the lock has read the old pid and sends it SIGTERM before it writes
its own: that kills a daemon that is leaving on SIGTERM, and it is why `ServerIsKnown`
holds. It does not kill one that is leaving on SIGINT. Such a daemon catches the SIGTERM,
outlives its eviction and unlinks a pidfile that names its successor by then, with no race
of the lock at all. The history variable `outlived` remembers it, and `ServerIsKnown`
names it as its one exception: from then on the daemon that listens still has the lock,
but the pidfile may be gone. (Checked without that exception the run finds just this
trace.) An eviction that spared processes no longer on the port would break the property
without any Ctrl-C (the mutant `VictimsOnPort`).

A daemon that ended in an orderly way is "out" and may start again, under a name
nobody is about to signal. What a start's caller looks at before it spawns (the
pidfile, a ping) is left out: a start may come at any time.

### DistilWorker

EXTENDS the lock. `Enqueue` appends without it; a worker takes the lock, reads the
queue once (`ReadPending`: as much of it as can be read, for a read that fails gives an
empty queue and a corrupt line is skipped), judges entry by entry (`Distil`, `DistilFails`,
`Keep`, `Expire`) and replaces the file (`WritePending`). `SweepThrows` and
`Crash` end a sweep without the write; `aborted` counts them. The age limit of two
days is part of `Expire`, which may therefore fire at any sweep.

### TaskRegistry

`mem`, `activeId`, `live` and `watchers` are the registry of the running daemon;
`disk` is `tasks.json`; `child` and `file` the subprocess and its result file.
`KillLive` and `Complete` are shared by cancel, timeout and return, as in the code.
`Start` is load with adoption (`watchers`), `reconcileDead` and `scavenge`;
`Verdict` is the result-file oracle with its freshness window; `Watch` the finalize
watcher. `CrashAtSpawn` is the daemon's death between the spawn and the write of
the pid. Orderly stop and crash differ in nothing that persists.

`persist` may throw (`Unsaved`), and what the exception does is different at each
caller: `Register` then holds the lock for a run nobody drives, until the wall
clock; `SpawnUnsaved` fails the run and leaves its child alone (`leaked`);
`TimeoutThrows` is a timer whose exception nobody catches, so the daemon dies;
`complete` has released everything before it writes. `ps` may fail at the spawn (no
start time is recorded) and at a start (`blind`): a run that lives is then taken for
dead. The read of a result that is there may fail (`unread`), in the watcher and at a
start: the oracle then says *crashed* (`result-classifier.ts:61-66`). The history variable
`missed` remembers both, and `PaidRunIsNotWrittenOff` excepts them.

`RunLog` is what `tasks.json` promises whoever reads it: a write keeps every run it
knows and every end with its cost, and leaves one run running at most; or the whole
file is lost. `ImplementsRunLog` reads the log off `disk`, so it is about what a reader
finds after any crash and after any write that threw.

### ChatFiles, ChatStore, ChatRecovery

`ChatFiles` is the contract between those who write conversations and the recovery
of the index: a message is stored before it is indexed and by its own request; a
deletion takes the file and leaves the rows; rows are put right only while the
daemon is not serving. `ChatStore` is the handlers of `daemon/routes/chat.ts` and
implements it (`FilesDiscipline`); `ChatRecovery` takes it as its environment.

In `ChatStore` one daemon writes, but its handlers are asynchronous. A turn has a
stage for every await (`StoreQuestion`, `IndexQuestion`, `Record`, `StoreAnswer`,
`IndexAnswer`, `ReadMemory`, `Upsert`), a deletion too (`DeleteRead`, `Unlist`,
`Unlink`, `DeleteRuns`); recap and re-anchoring hold a copy of `memory.json` from
their read to their write. Writes of `memory.json` may be swallowed, unlinks may
fail, `Down` drops every handler where it is. The history variable `crossed` names
the one situation the code does not handle: a deletion under way while a turn of
that conversation is, or while another handler holds a copy that still lists it (or
while the disk refuses the list). What the properties say, they say of the others.

`ChatRecovery` is `openIndex` and `recoverIndex` at each start: `Boot` drops tables of
an older shape and takes a listing that may miss any conversation, or all; `Replay`
inserts one message; `Prune` is the final transaction with `Judged` as the fate of
each candidate; `RecoveryFails` and `Die` cut it off. Time is a `Tick`; passes and
ages count as far as they are compared. `unseen` is a history of what really
happened: passes in a row that missed a conversation, and the time since the first. A
pass is a recovery that came to the prune: one that listed the conversation and failed
before it resets no count, in the code or here.

### BrainHealth

A process is at one of the updates of `brain-health.json` or between them; each update
is `Read` and then a write (`Put`), which may be swallowed. `Begin` starts a Stop hook
(which asks the breaker: `Gate`), a review command or a raw call (which do not), or a
wake (`Clear`). `TakeFirst` and `TakeSecond` take a slot of the role's cap before the
spawn. A call that has its slot runs and answers (`Answers`, `Rejected`, `EndsEmpty`) or
fails (`Fails`), or no process comes of it, in two ways: the spawn throws
(`NeverStarts`), and `Refund` gives the slot back; or the provider refuses the prompt
for its length (`Refuses`, `codex.ts:237-242`, `agy.ts:259-269`), which carries no
`spawnError`, so that `refundIfNeverStarted` leaves the slot taken and nothing is
recorded. `wasted` counts these slots. `Record` and `Succeed` keep the breaker, `Ask`,
`Outer` and `TakeSecond` are the three gates of a retry. `lost` says that a write was
lost or wrote over another: the code accepts that risk in its comments, and the caps are
promised up to then. `late` counts slots a call of yesterday gave back of today's count,
the second exception, which the model names because `refundQuotaCall` looks at the date
of the entry and not at the day the slot was taken.

## 3. The runs

| Run | Instance | Shows |
|---|---|---|
| `stop_pr` | 1 hook, 4 commits, unit `pr`, 2 contexts | `UnreadHeadFires`, `ImplementsReviewer` under every kind of HEAD move |
| `stop_two` | 2 hooks of 2 sessions, 2 commits, unit `commit`, symmetric | `ConsumedWasRead`, `UnreadHeadFires`, `HashNamesReadUnit` with two hooks interleaved over one anchor and one `skip-state.json` |
| `stop_wake` | 2 hooks of one session, 1 commit, 2 wakes | `OneReviewPerWake` |
| `marker` | 2 hook processes, 1 request, 2 turns | `OneOwner`, `SkippedIsCovered`, `DeliveredIsReviewed` |
| `daemon` | 3 daemons over the detailed lock | `HolderOwnsLock`, `ImplementsMutex`, `ServerIsKnown`, `NewcomerSparesServer`, `LoneDaemonServes` |
| `distil` | 2 processes, 2 critiques, TTL 2, 2 attempts, 4 launches | `DistilledOnce`, `SweptBounded` |
| `tasks` | a detached and a piped run, 3 daemon deaths | `LockIsTheRunningTask`, `PaidRunIsNotWrittenOff`, `ImplementsRunLog`, `KilledChildDies`, `LockIsReleased` |
| `chat` | 2 conversations, 1 turn, symmetric | `AnswerHasRecord`, `DeletionIsComplete`, `ListedIsStored`, `FilesDiscipline` |
| `chat_recovery` | 2 conversations, 3 messages, 3 passes, a window of 2 ticks | `EverythingIsFound`, `PruneIsConfirmed`, `DeletedLeavesIndex` |
| `brain` | 2 processes, 1 role, cap 2, 1 retry a day, 3 calls, symmetric | `CapsHold`, `SlotsAreCalls`, `PermanentStaysLatched`, `WindowsEscalate` |

What the properties say:

- `ConsumedWasRead`: the commit and the tree in the anchor were the end of a
  completed review (or of one of the two exceptions). Past the anchor a diff never
  reaches again.
- `UnreadHeadFires`: while HEAD holds unread content, the gate would fire on it,
  whatever anchors concurrent hooks wrote and whatever git fails to answer.
- `ImplementsReviewer`: look first, consume later, never forget, over every
  interleaving; its two halves `ConsumedWasRead` and `HashNamesReadUnit` say what the
  files hold, this one says what a step may do to them.
- `HashNamesReadUnit`: a stored signature never names a unit that was not dealt
  with, even when sessions overwrite each other's entries, so the retry of a failed
  review is not answered with `no_change`.
- `SkippedIsCovered`, `DeliveredIsReviewed`: a suppressed delivery leaves its turn
  to one that took it on, and in the end the turn is reviewed unless a process died
  on it; this includes late deliveries that hashed the next turn's transcript.
- `HolderOwnsLock`, `ImplementsMutex`: outside the two races a holder is alone and
  took the lock when it was free. `ServerIsKnown`, `NewcomerSparesServer`: before such a
  race the daemon that listens has the lock and, until a daemon that leaves on Ctrl-C
  outlives its eviction, is named in the pidfile, and no newcomer's SIGTERM goes to it.
  `LoneDaemonServes`: wherever daemons died and whatever they left of lock, pidfile and
  port, one that is alone takes the lock and listens again and again, after races too.
- `DistilledOnce`, `SweptBounded`: a second rule from one critique needs a sweep that
  died between two writes; the number of paid adjudications is bounded.
- `ImplementsRunLog`: a run of `tasks.json` ends once and keeps its end and its cost,
  is not forgotten unless the file is lost, and is the only one the file calls running.
  `PaidRunIsNotWrittenOff`, `LockIsTheRunningTask`, `LockIsReleased`,
  `KilledChildDies`: see the comments; they relate memory, disk, the child and the
  lock across restarts, failing writes, a failing `ps` and results that cannot be read.
- `AnswerHasRecord`: no answer without its call record, whatever throws after the
  agent ran. `DeletionIsComplete`, `ListedIsStored`: what was deleted comes back in no
  store, and the list names nothing that is not there, although it is the last thing
  a turn writes and others write it from old copies. Both are silent on crossed
  deletions: there the code does lose (a recap that holds its copy over a paid call
  puts a deleted conversation back on the list).
- `EverythingIsFound`: after a recovery that ended, every stored message it saw is in
  the index, or is one a request has just stored. `PruneIsConfirmed`: rows go with a
  rebuilt table, or after enough passes *in a row* and enough time since the first of
  them. `DeletedLeavesIndex`: a conversation gone for good leaves the index, if
  another one can be seen at each start and recoveries end again and again.
- `CapsHold`, `SlotsAreCalls`: up to the first lost write, the calls started on a day
  stay under the cap, and the count in the file is exactly the calls made, those refused
  for the length of their prompt and those under way, through retries and refunds.
  `PermanentStaysLatched`: a latched breaker goes by a wake, a re-verify or a success,
  or under a copy read before the latch. `WindowsEscalate`: waking a failing brain too
  early never shortens its window.

Why the bounds are enough. In `stop_pr` the four commits (a fork point, two in
line, an amend with an equal tree) contain every relation of anchor and HEAD the
decision tells apart: equal, equal tree, ahead, aside, behind. In `stop_two` two
commits suffice for one hook to consume what another is about to. Three processes
are one daemon that dies or leaves and two that find its lock; the stale-path race
needs exactly these. Two critiques tell "the snapshot" from "what was appended since";
four launches are a first sweep and all retries of both budgets. Two runs exercise
the one-at-a-time lock, three deaths allow crash, adoption, crash, reconciliation.
The counters `MaxWakes`, `MaxLaunches`, `MaxRestarts`, `MaxTurns` and `MaxCalls` are
bounds of the instance, in the guards. In `chat` a second conversation is needed for
the writers that hold a copy listing the first; its deletions, recaps and
re-anchorings are not bounded, and each conversation may have had a turn before. The
constraint `NotAllCrossed` cuts off states in which both deletions were crossed, of
which nothing is claimed; the proofs do without it. In `chat_recovery` three passes
and two ticks tell passes from time; with three messages one conversation can have
two, one indexed and one not. In `brain` two processes are a caller and whoever
writes in between, three calls with their retries exhaust the cap on one day and go on
on the next, give back a slot of a day that is over (the case of `late`), and reach every
window, 60 minutes for the fifth failure included; the failure count
saturates at five, the last value `breakerWindowMin` tells apart. The constraint
`BeforeALoss` goes no further than the first lost write: `CapsHold`, `SlotsAreCalls`
and `WindowsEscalate` say nothing beyond, `PermanentStaysLatched` is checked up to and
including it.

`CHECK_DEADLOCK FALSE` is stated where the system stops: every bound used up, all
processes dead. Symmetry is used in runs of invariants, action properties and
refinements, never with liveness: the permuted values occur in these formulas only under
quantifiers over the whole set.

### Where the code disagrees with what it says

Two runs expect a violation; each checks one sentence of the repository.

- `stop_blind`: "never a new commit" (`handle-stop.ts:1094`). Two fires without a
  usable anchor have one signature when files and user message agree; the second
  unit is consumed unread. What remains of the sentence is proved
  (`DuplicatesOfUnitsWereRead`): a skip whose signature names a unit takes nothing
  unread.
- `distil_lost`: a parked critique is adjudicated "by a later sweep"
  (`handle-stop.ts:1488`). One appended during a sweep is overwritten; the run has every
  sweep read the whole queue (`ReadableSpec`), to show that the append alone does it.
  There is a second way: what `readPending` cannot read, the file or a corrupt line
  (`pending-queue.ts:47-51`, `57-59`), `writePending` does not write back. That there is no
  third is proved (`CalmIsSwept`): without either no parked critique is lost, whatever
  crashes and whatever becomes of the lock.

Five more differences have no run of their own; the first four are in the models as
the code has them. "The cap counts calls made" (`brain-health.ts:449-455`), but a call
refused for the length of its prompt keeps its slot (`Refuses`; a run would show no more
than that action). The dedupe gate answers a forced review, too, although "the one gate
it does NOT beat is mute" (`siltpoke-wake.md:26`). A lock directory whose maker has not
written `owner.json` yet is reclaimed, although `daemon/server.ts:320` speaks of owners
whose pid is dead (the first of the two races of `ProcessLock`). The record `scavenge`
makes up keeps its file from being read again, although `task-registry.ts:659` expects
a later restart to re-classify it. And `runRestart` means to "claim success only when"
the serving process changed (`daemon-restart.ts:161`), but its probe before the
restart reads a timeout as nobody there; the same daemon, answering later, then counts
as restarted.

The `torn` exception has no run of its own: it needs HEAD to move between two git
processes of one gate, and shows in the trace of any of the Stop runs in which
`seen` becomes `torn`.

## 4. Fairness

Safety is checked and proved without fairness. Liveness assumes only what the
code's own scheduling gives:

- `StopMarker.FairMarkerSpec`: a delivery that runs goes on. The probe has a timeout of
  250 ms, the wait is a timer, and every call of a review has a timeout. Nothing is
  assumed of hosts delivering, processes staying alive or claims ageing.
- `Daemon.FairSpec`: a daemon that runs goes on, and one that ended is started again
  (launchd's `KeepAlive`, or the respawn at each Stop). `LoneDaemonServes` is about a
  daemon that is left alone for good; under contention the code promises no progress,
  and none is claimed. Nobody is assumed to stop it or to leave it running.
- `TaskRegistry.FairSpec`: timers fire (`TimeoutKill`, `Escalate`), the watcher polls
  (`Watch`), the daemon is started again, and the child of an adopted run ends,
  because the code has no other bound for such a run. For a run of the daemon's own
  no such assumption is made: `LockIsReleased` there rests on the wall clock.
- `ChatRecovery.FairSpec`: the daemon ends from time to time and is started again, a
  recovery that runs goes on, time passes. That recoveries end without an error is
  not assumed; `DeletedLeavesIndex` has it as its condition.

## 5. Proofs

TLAPS proves these for every value of the constants:

| Theorem | Says |
|---|---|
| `StopHookProofs!TypeCorrect`, `AnchorIsRead`, `UnreadFires`, `HashIsOfReadUnit` | `TypeOK`, `ConsumedWasRead`, `UnreadHeadFires`, `HashNamesReadUnit` |
| `StopHookProofs!HookRefinesReviewer` | `ImplementsReviewer`: the hooks implement `Reviewer` |
| `StopHookProofs!DuplicatesOfUnitsWereRead` | a duplicate skip takes unread content only if its signature names no unit |
| `StopHookProofs!WakeIsUsedOnce` | `OneReviewPerWake` |
| `StopHookProofs!MarkerTypeCorrect`, `StopIsReviewedOnce`, `SkipsAreCovered` | `MarkerTypeOK`, `OneOwner`, `SkippedIsCovered` |
| `ProcessLockProofs!LockIsExclusive`, `LockRefinesMutex` | types, `HolderOwnsLock`; `ImplementsMutex` |
| `ProcessLockProofs!RaceTakesTwo` | a first race needs one live process between its judgement of a stale lock and the removal, and another that has made the directory since |
| `DaemonProofs!DaemonTypeCorrect`, `ServerIsFound`, `ServerIsSpared` | `TypeOK`, `ServerIsKnown`, `NewcomerSparesServer` |
| `DaemonProofs!DaemonUsesLock`, `DaemonOwnsLock`, `DaemonsExclude` | `Daemon` implements `LockSpec`; hence `HolderOwnsLock`, `ImplementsMutex` |
| `DistilWorkerProofs!WorkersUseLock` | `DistilWorker` implements `LockSpec` |
| `DistilWorkerProofs!DistilTypeCorrect`, `SweepsAreSound`, `SweepsAreBounded` | `TypeOK`, `DistilledOnce`, `SweptBounded` |
| `DistilWorkerProofs!CalmIsSwept` | `ParkedIsSwept`, if no hook appends during a sweep and every sweep reads the whole queue |
| `TaskRegistryProofs!RegistryTypeCorrect`, `LockIsTheRun`, `RunsAreBooked` | `TypeOK`, `LockIsTheRunningTask`, `PaidRunIsNotWrittenOff` |
| `TaskRegistryProofs!RegistryRefinesLog` | `ImplementsRunLog`: `tasks.json` implements `RunLog` |
| `ChatStoreProofs!StoresTypeCorrect`, `RecordComesFirst`, `StoresAgree`, `ListIsStored` | `TypeOK`, `AnswerHasRecord`, `DeletionIsComplete`, `ListedIsStored` |
| `ChatStoreProofs!StoreRefinesFiles` | `FilesDiscipline`: `ChatStore` implements `ChatFiles` |
| `ChatRecoveryProofs!RecoveryTypeCorrect`, `StoredIsFound`, `PrunedIsConfirmed` | `TypeOK`, `EverythingIsFound`, `PruneIsConfirmed` |
| `ChatRecoveryProofs!RecoveryRefinesFiles` | `ChatRecovery` implements `ChatFiles` |
| `BrainHealthProofs!BrainTypeCorrect`, `CapsAreKept`, `SlotsAreCounted` | `TypeOK`, `CapsHold`, `SlotsAreCalls` |
| `BrainHealthProofs!LatchHolds`, `WindowsNeverShrink` | `PermanentStaysLatched`, `WindowsEscalate` |

Behind each group is a theorem `Spec => []IInv` (`Invariant`, `MarkerInvariant`,
`DaemonInvariant`, `DistilInvariant`, `RegistryInvariant`, `StoresInvariant`,
`RecoveryInvariant`, `BrainInvariant`), which the others cite.

Assumptions: `GitAssumption` (a commit has a tree and is its own ancestor, merge bases
are commits), `HookAssumption`, `MarkerAssumption`, `ProcAssumption` (types),
`OtherAssumption` (a foreign listener is no daemon of ours), that `None` and
`Unreadable` are no ordinary values (`NoneAssumption`, and parts of the others),
`DistilAssumption` (a TTL and a budget of at least one), `TaskAssumption`,
`ChatAssumption`, `BrainAssumption` (types) and `RecoveryAssumption` (at least three
passes, as `MIN_ORPHAN_UNSEEN_PASSES` has it). No bound on hooks, sessions, commits,
deliveries, turns, processes, critiques, runs, conversations or messages.

*StopHook.* None of the three properties about content is inductive: nothing in
them speaks of the anchor a hook decided on and will write minutes later. `IInv`
adds `HookOK`: at each stage, the values a hook carries will be fit to write by the
time it writes them: a HEAD and tree that belong together or are both known, a range
that ends in the commit consumed, a snapshot of `skip-state.json` whose entries are
all of known units. `HookOK` takes the set of contents dealt with as a parameter
`K`; because that set only grows, a hook's part of the invariant survives every step
of the others. One lemma per action; the wake has a small invariant of its own,
`WakeInv`.

`ImplementsReviewer` needs two more facts about a step, beside the invariant: one that
deals with content writes neither file (`DealingWritesNothing`), and none writes both
(`OneFileAtATime`). What is written is dealt with already by `AnchorIsRead` and
`HashIsOfReadUnit`, and the exceptions of `seen` count as dealt with, as they do there.

*StopMarker.* `OneOwner` needs that an owner's file is there (`DeliveryOK`) and that
files never go away; `SkippedIsCovered` needs a delivery behind every file
(`MarkersBacked`) and that what it claimed, hashed and delivers is never taken back
(`Keeps`). A key is never older than the turn delivered, which is what makes a skip
on the *next* turn's marker harmless.

*ProcessLock.* `LockIInv` adds what a process between `mkdir` and `owner.json` needs
in order to end up as owner, and that an owner judged dead stays dead. In the absence
of a race a removal then hits only a directory without a live maker.

For `ImplementsMutex` the same invariant is enough: before a race there is at most
one holder and the directory is its own (`OneHolder`), so the write of `owner.json`,
which is the acquisition, finds nobody in; a step that begins a race empties the
mutex, which is a release.

`RaceTakesTwo` says how far "before a race" reaches: the lock is never lost to one
process on its own, nor to the dead. It needs that a live maker of the directory is
about to write `owner.json` or holds the lock (`MakerOK`).

*Daemon.* That every step is a step of the lock or leaves it alone (`LockStep`) brings
in all that is proved of the lock. `DaemonIInv` ties phases to the lock and the port to
the phases; `LeavingIsSeen` is the heart, up to a race or a daemon that `outlived` its
eviction: a process about to unlink the pidfile is named in it, every newcomer between
reading and signalling has read that name, and none is past its eviction. `EvictIInv` is
where the signal discharges it, or the exception begins.

*DistilWorker.* Neither property says what the queue holds between sweeps. `DistilIInv`
adds it: an entry that is queued while nobody sweeps has given no rule but by a sweep
that died, and carries the count of all its other adjudications (`Fits`). During a sweep
the same is true of what the worker will write back, and will be true of the queue once
the sweep counts as aborted: so the write and the abort, the two ways a sweep ends, both
restore it. That nobody else sweeps meanwhile comes from the lock's own invariant
(`OneSweeps`). An append during a sweep, lost by the write back, breaks none of this: it
costs a critique its adjudication, never gives it two, and nor does a read that missed
something. `CalmSpec` is the system without such appends and such reads; there what was
parked and not judged stays in the queue and in the list of every worker that sweeps
(`Awaited`), also after a race has put two of them to work.

*TaskRegistry.* `IInv` has seven parts. `LockIsTheRunningTask` is inductive only with
`HandlesOK` (a promise, a handle or a watcher is of a record in memory, and a watched
run is not one this daemon started) and with `UsedOK` (ids are handed out once).
`DiskOK` says how far `tasks.json` may be behind memory when a write threw: it may still
say *running* of a run that ended or not know a new one, never the reverse; that is what
makes every write of the file a write of `RunLog`. `TimersOK` and `PaidOK` keep, for the
records in memory and on disk alike, that a recorded process has been there, and that it
is gone without a result if the record says crashed, unless `missed` or the wall clock
explains it.

*ChatStore.* `IInv` speaks of conversations that are not crossed (`StoresOK`) and of what
each handler holds (`HandlersOK`): a copy of the list that some handler will write back
must be fit to be written when it does. Since a deletion under way makes every such
copy a crossing, the others' copies can be carried across every step. `NewsOK` says
where a turn's messages may be; it is also what the refinement needs to see that the
message a turn stores is new to `ChatFiles`.

*ChatRecovery.* `PruneIsConfirmed` relates what the tables count to what happened:
`Within` says that a candidate's passes and age never exceed those of `unseen`. A
candidate may know less (its table was dropped, a pass saw nothing), never more.

`StoreRefinesFiles` and `RecoveryRefinesFiles` close a circle without circularity: each
of the two modules is shown to keep to `ChatFiles` from its own steps alone. So what
`ChatRecovery` assumes of those who write (`Append`, `Insert`, `RemoveFile`) is what the
chat does, and the recovery, cut off anywhere, does no more than `Mend` allows.

*BrainHealth.* `CapsHold` and `SlotsAreCalls` rest on a balance for each role
(`SlotsOK`): today's count in the file plus `late` is the slots used up (`UsedUp`: by
calls made, and by refused ones) plus those that calls under way hold. A refund that
read a count of zero gives nothing back; the call leaves the balance all the same, so
`late` must be at least the number of such calls under way (`Unreturned`). The sets of
callers are counted, but `Procs` is not assumed finite: that only finitely many hold a
slot at once is part of the invariant. The rest of `BrainIInv` is about the breaker:
every copy of it is well-formed (`BreakerOK`) and, up to the first lost write, the
failures in the file are enough for the window of the last breaker. The two action
properties follow from the invariant and one fact about every step (`BreakerStep`): it
leaves the breaker, or puts that of a copy back, or wipes it, or opens it as the failure
in its copy has it.

Only model-checked: liveness (`DeliveredIsReviewed`, `LoneDaemonServes`,
`LockIsReleased`, `KilledChildDies`, `DeletedLeavesIndex`), since temporal reasoning
under fairness and ENABLED are out of the prover's reach. No model
needs recursion: the code's loops over tasks, entries and candidates are sets,
functions and steps.

## 6. What is left out, and why

- In `StopHook`: the contents of breaker, quiet hours and budget (one
  nondeterministic skip), `state.json`, XP, telemetry and the notification for
  uncommitted work: none decides what is consumed.
- In `StopMarker`: the switch that turns suppression off.
- In `Daemon`: pid reuse (the code names it as a limitation of the lock; the eviction
  shares it), the guard that refuses to stop a daemon with a paid run (it fails open),
  the verification of a restart, migrations at the start, timers of the running daemon.
- In `DistilWorker`: what a rule says, the adjudication log, the captures for
  evaluation.
- In `TaskRegistry`: the usage ledger, pid reuse, a results directory that cannot be
  listed at a start (nothing is scavenged then, and the next start does it).
- In `ChatStore`: the gates before a send (they write nothing), streaming, prompts,
  search, the sidecars of pinned anchors, message counts and titles, capture of facts (a
  read and a write of `memory.json` that keeps the list, as `ReanchorWrite` is), the v3
  layout that splits `memory.json` into two files, one that is unreadable, and the
  monthly sweep of call records (`pruneRuns`).
- In `ChatRecovery`: messages flagged `fts_skip`, lines that do not parse, a listed file
  that is gone when it is read (`readSession` returns no messages), the desync ratio
  (reported, not acted on).
- In `BrainHealth`: dates (a count of another day is zero, a window that is over is no
  breaker, as every reader takes them); time passes only between updates; the token
  budget is a nondeterministic gate; excerpts and the text a class is read from.
- Rendering, parsing, prompt assembly and installation: data the properties do not
  tell apart, or no state at all.

## 7. Plan

Done: `ReviewUnit` and `StopHook`, `ProcessLock`, `DistilWorker`, `TaskRegistry`,
`StopMarker`; then `TaskRegistry` with failing writes and `ps`, and its theorems;
`ChatFiles`, `ChatStore` and `ChatRecovery` with theirs; `BrainHealth`; `Daemon` over the
detailed lock, and the theorems of `Daemon` and `DistilWorker`; then the theorems of
`BrainHealth`, the abstract `Reviewer` and `RunLog` with their refinements, and what
remains true of the two sentences that are violated.

Next, in this order:

1. `BrainHealth` in the place of the breaker's part of `PolicySkip`.
2. The other half of `Reviewer`: what was not dealt with is reviewed again, as liveness
   under the fairness of hosts that go on delivering.
3. The other writers of `memory.json`: rules, consolidation, XP, from hooks and workers
   at the same time as the daemon.
4. Anchor sidecars and the sweep of call records in `ChatStore`.
