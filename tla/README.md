# NamiSync in TLA+

NamiSync mirrors a source tree onto a target, one way, on Windows. This
directory holds TLA+ modules translated from `src/namisync/`, the TLC
configurations that check them on small instances, and TLAPS proofs of the
central properties of the dispatcher, the events of a session, the named mutexes,
the executor, the ledger with its integrity sessions, and the chain from the scans to
the selection. `PROJECT.json` is the index: which definition models which lines, what every run checks, which hazards
and findings there are.

    tlc -workers 2 -config dispatcher_control.cfg MCDispatcher
    tlapm DispatcherExclusion.tla

## 1. The system and its parts

| Part | State it keeps | Operations | Talks to |
| --- | --- | --- | --- |
| Session lifecycle (`core/session.py`, `dispatcher/contracts.py`) | state, control flags, result of a session | transition table, control decisions, `run_session` | dispatcher |
| Dispatcher (`dispatcher/dispatcher.py`, `store.py`) | `_records`, `_pending`, `_reserved`, `_leases`, `_workers`, `_controls`, `_accepting` | submit, pause, resume, cancel, close, shutdown, `_schedule`, `_run_worker` | lock provider, workflows, event hubs; one scheduler thread, one worker thread for each launch |
| Custody (`dispatcher/custody.py`) | `_LOCAL_HELD`; named mutexes | acquire, release | dispatcher; other processes |
| Event hub and streams (`dispatcher/event_bus.py`, `core/events.py`) | replay buffer, streams with bounded queues | emit, subscribe, next, close | dispatcher threads emit, clients read |
| Audit pump (`dispatcher/event_bus.py`) | bounded queue, health, finalize handshake | offer, finalize, close, its thread | hub offers, observer is called |
| Execution workflow (`workflows/sync.py`) | the run | run_plan, run_execution, commitment | preflight, executor, recorder |
| Executor (`modules/executor.py`, `core/execution.py`) | statuses of the operations, in-flight temp, continuation, pending directories | execute and one routine for each kind of operation | filesystem, recorder, control checkpoint |
| Preflight (`modules/preflight.py`, `core/preflight.py`) | none | observation, judgment | filesystem |
| Recorder, writer (`db/recorder.py`, `db/writer.py`, `core/recording.py`) | ledger, run and operation tokens | start, record, flush, finish | SQLite, one writer |
| History (`db/history.py`) | rows of runs and operations | observe, finalize | audit pump |
| Verifier (`modules/verifier.py`, `core/integrity.py`) | the items of a selection and which are settled | baseline, verify, rebaseline, pause, cancel | filesystem, recorder |
| Scanner (`modules/scanner.py`) | the walk under way | walk of a root, completeness | filesystem |
| Planner, selection (`modules/planner.py`, `core/planning.py`, `workflows/selection.py`) | none | plan derivation, quarantine, safe subset | scans, ledger |
| Runtime (`workflows/runtime.py`, `models.py`) | services, plan artifacts | correspondence, commit, opening of a recording | all |
| Payload codec, repositories, schema, paths, CLI | none or SQL | conversion, queries, presentation | - |

What is hard here:

* **Threads.** The dispatcher changes a record in one critical section and acts
  on it in the next; callers, the scheduler, a worker and an older worker of the
  same session can all step in between. A transition is announced after the lock
  is released.
* **Slow or dead neighbours.** A subscriber that is too slow, an observer that
  hangs for ever, a lock that stays held, a file that stays open.
* **Failure in the middle.** A filesystem call may raise before or after it took
  effect; retries must recognise their own earlier work; a pause throws away all
  but the statuses; a crash leaves whatever is on the disk.
* **Other programs** that change sources and put files where targets are to go,
  also while a tree is walked or a file is hashed.
* **Stale views.** An integrity session records against rows that it was shown
  long ago; a plan is made from scans that are over.

Correctness, part by part:

* *Lifecycle and dispatcher*: contending sessions exclude each other and start
  in commit order; each session gets exactly one terminal and one result, which
  then never changes; custody always has a thread that returns it; an accepted
  cancel takes hold; no wakeup is lost; what shutdown reports is true.
* *Events*: no reliable event is lost without a Gap; queues are bounded;
  `audit=OK` is a fact; a hung observer delays nobody for ever; streams end.
* *Executor*: no version of a file is lost; only complete content is published;
  nothing foreign is overwritten; a reported outcome is what is on the disk, one
  for each operation; temps go; retries do not collide with themselves; a run
  ends.
* *Named mutexes*: all or nothing, exclusive across processes, nothing left
  behind, no deadlock.
* *Ledger and verifier*: evidence is of something that was on the disk; it changes
  only for a reason its author was shown; a repeated command changes nothing;
  every item of a session is settled once; a mismatch is decay.
* *Scanner, planner, selection, preflight*: a scan that calls itself complete is;
  nothing is removed because it was overlooked; a plan that passed can be carried
  out; at the end the target mirrors the source; what is blocked or filtered
  stays as it was.

## 2. Modules

| Module | Models |
| --- | --- |
| `SessionLifecycle` | states, terminal states and control decisions of `core/session.py` |
| `Dispatcher` | `SessionDispatcher`, `run_session`, the in-process lock provider |
| `DispatcherProofs`, `DispatcherExclusion` | theorems about `Dispatcher`: results; scheduling, custody and shutdown |
| `AuditPump` | `_AuditPump` and its observer |
| `EventHub` | `SessionEventHub` and its streams, over `AuditPump` |
| `SessionEvents` | one session's threads over its hub: composition of the three |
| `EventsProofs` | theorems about `SessionEvents`, its hub and its pump |
| `Executor` | `run_execution`, `execute`, the comparison made by `preflight` |
| `ExecutorProofs`, `ExecutorOutcomes` | theorems about `Executor`: the disk, and what a run reports |
| `Leases` | abstract: what a lock provider promises |
| `NamedMutexes` | `WindowsNamedMutexProvider`, over several processes; implements `Leases` |
| `CustodyProofs` | theorems about `NamedMutexes` |
| `Ledger` | the recorder's commands as transactions on the rows of one location; the disk; sync runs and inventory scans that write them |
| `Verifier` | integrity sessions over `Ledger` |
| `VerifierProofs` | theorems about `Ledger` and `Verifier` |
| `Trees` | paths, keys and Unicode forms; directory trees |
| `Scanner` | the walk, and other programs beside it |
| `Planner` | the pure planner, as operators |
| `Selection` | the quarantine and the safe subset |
| `Planning` | scan, plan, select, review, commit, preflight, execute: composition of the four |
| `PlanningProofs` | theorems about the scans, the plan, the selection, and what an execution leaves alone |
| `MC*` | instances for TLC |

Definitions keep the names of the code (`_schedule`, `_cleanup_inflight`,
`_start_directory`, ...). An operator whose comment begins with `Mutant:` is a
plausible bug: it stands beside the definition it varies and no specification
uses it.

### Dispatcher

Each action is one block under `_condition`, one call into the lock provider or
one call into the workflow; nothing else of the code is visible to another
thread. `pc[s][k]` is where worker thread `k` of session `s` is: two threads of
one session can exist at once (a paused worker still in its `finally` while the
resumed one starts; or a cancel that queues a session twice), so a session has
`Slots` threads. `job` and `aim` are the thread's local values, `pending` the
deque by position, `owner` the provider's table, `grip` the lease a thread took
out of `_leases` and is about to release. `_release_custody` is several actions
(`Pop`, `Unlock`, `Unreserve`), since it leaves the lock for the release itself.
`shutdown` is a caller with its own steps and a deadline that may pass at any
moment. `prepare`, the acquisition and `open` raise for sessions in `Faulty`.

Whether a caller waits, before it resumes, until the worker of the pause has
retired is the constant `PromptResume`. The code does not enforce it. With
`TRUE` the model is the code with arbitrary callers, and two properties
fail (sections 5 and 6). With `FALSE` it is the code with patient callers: what holds
then is not spoiled by that one race.

### SessionEvents

The transition is one action (`Transition` inside it), its announcement another
(`Announce`), by the same thread: `voice[t]` is what thread `t` has still to
say. An envelope is a body and a sequence number; a body is a state, an item,
progress, a Gap or the terminal. The pump's thread calls the observer, which may
return, raise or never come back. `finalize` is the handshake with its timeout;
`close` of a session takes the hub out of the table first and closes its streams
afterwards, and `subscribe` looks the hub up first and subscribes afterwards.
Waiting times are not modelled: a wait with a timeout may end by the timeout
whenever it waits. `cancel` is the flag of the session's control: a cancel that is
accepted in PAUSING sets it and nothing else, a resume resets it, and a worker that
ends and finds it in a PAUSED session makes that session CANCELING (`WorkerDone`).

### Executor

`fs[o][p]` is what is at place `p` of operation `o`: its source, its target, the
prior place of a moved file, the temp, the place in the trash, and `spare`, a
partial backup in the trash. Content is abstract: the old version, the new one,
a part of it, a drifted one, a foreign file, a directory. `bare` has the targets
without their intended metadata. Each step between two calls into the filesystem
is an action. A call in `Flaky` may raise; the calls ending in `_late` raise
after they took effect. `cont` is the continuation that makes a retry skip what
is done, `why` the exception being handled. An update that keeps the old version
does so in steps: `Backup` reserves the place in the trash and makes the hardlink or
begins the copy, `copy_backup` copies and renames, `Backed` takes the stats of the
continuation. `live` is the target as the update has seen it: when the copy
began, and then `continuation.live_stat`, which is what `Recheck` compares with. A
backup is `torn` when the target was written to while it was copied. `forgotten` is
history: what was settled before a pause in a run whose recording was degraded then.
A pause or a cancel is met at the
checkpoints of the code only. `Start` is `run_execution`: a fresh preflight of
the remaining operations and a fresh state. `Meddle` is any other program.

The model leaves out: the bytes and their hashes, capacity, roots and volumes
(`Planning` has the preflight's view of them), and the executor's branch for blocked operations, since the
preflight of `run_execution` refuses a plan that has one. A partial backup may
stay in the trash (`docs/EXECUTOR.md` says so), so `TempsReclaimed` is about
temps at the target. Between the last guard of an update and its replace another
program may still swap the target; the documentation names this window, and
`ForeignKept` does not claim it closed. It claims nothing of updates;
`LateChangeKept` says what an update does keep (and section 6 what it does not).

### NamedMutexes

A resource is the number of its place in the sorted order of `acquire`. `handles`
is the list of mutexes a thread has taken, `owner` the kernel's table. The steps
are the calls into the kernel: the cancel check and CreateMutexW, the wait, one
turn of the loop of `_release_handles`. Any of them may fail. A process may die at
any step; its mutexes are abandoned and the next waiter gets them, which the code
treats as success. `KeepsPromise` is the refinement: with the resources of the
threads that are between the return of `acquire` and the call of `release` for
`lease`, every behaviour is one of `Leases`.

### Ledger and Verifier

`db` is what the tables say of one target location: a row for each key (id,
presence, stat, evidence, time of the last verification, reappearance, scope
token), the pairs of the mapping and the receipts of the commands. A command is
one transaction (`Transact`): it is applied and answered; or the database stays
busy and nothing is changed; or it is committed and the caller gets an error, and
may send the same command again (`Repeat`). `Identified` says whether the file
system of the source gives files an identity; without one the recorder makes no
pairs (`recorder.py:1164`). Sync operations, inventory scans and
integrity sessions all look at the disk in one step and record in a later one.
The disk is edited in place, decays without a trace in any stat (`Rot`), loses
and regains files. `had` has every pair of a stat and a content that existed.
`todo` has the keys that the plan of the run under way has not come to: a plan
has one operation at most that takes a key as its target or moves it away
(`claimed_target_keys` and `moved_from_keys`, `planner.py:324-325`, `506`), so a
run writes a row once.

A session reads in chunks, and everything may happen between two of them. The
stat after the read is that of the open handle, as in the code.

### Planning

A tree maps paths to entries. Names have a key (case) and a form (Unicode), as in
`core/pathing.py`. `Scanner` lists a directory in one step and looks the entries
up one by one; other programs change the trees in between. `Planner` derives the
whole plan with operators that follow the sections of `plan`. Its input has the source keys
that the snapshot of the mapping calls ambiguous; the repository never names one
(`repositories.py:253`). `Selection` is the
loop of `derive_execution_selection`, one exclusion at a time. `Judge` is an
observation with its verdict, for the review and again before each execution.
Execution is coarse: an operation finds what it expects and takes effect, or
fails (`Executor` has the rest). Free space is counted in files.

## 3. Runs that pass

| Run | Instance | Properties |
| --- | --- | --- |
| `dispatcher_control` | two sessions on one resource; one is paused, resumed, canceled, closed, and faulty | `Exclusive`, `NoCustodyLeak`, `PausedHoldsNothing`, `OneTerminal`, `NoLostWakeup`, `TerminalIsFinal` |
| `dispatcher_teardown` | shutdown against every control and fault of one session, which a cancel may launch twice; fair threads | `ShutdownSettles`, `CancelSettles` |
| `dispatcher_liveness` | two contending sessions of one worker thread each, one paused, resumed and canceled, both faulty, fair threads | `CommittedSettles` |
| `events_streams` | a slow subscriber, all queues smaller than what is emitted | `NoSilentLoss` |
| `events_audit` | an observer that raises or hangs for ever, an audit queue of one, one item and one control call, and a cancel on top of a pause | `TypeOK`, `AuditTruthful`, `ResultPublished` |
| `executor_control` | all ten kinds, no hardlinks, pause, cancel, two faults of any call | `VersionsKept`, `SuccessIsReal`, `ResultIsExact`, `RecordingTruthful` |
| `executor_drift` | an update with a copied backup and other operations, two changes by other programs, a file that stays locked for ever, pause, cancel, a fault | `PublishedWhole`, `TempsReclaimed`, `ForeignKept`, `LateChangeKept`, `Terminates` |
| `executor_retry` | update, move-update, delete; four faults, three retries, a policy that stops at a failed operation | `TypeOK`, `NoSelfCollision` |
| `custody` | three threads of two processes whose wants form a ring; failing calls, cancels, deaths; fair threads | `NoStrayMutex`, `KeepsPromise`, `WaitersProgress` |
| `ledger` | two integrity sessions in any mode, a sync run and a scan over two keys | `EvidenceReal`, `PairsOneToOne`, `SettledOnce`, `MismatchIsDecay`, `NoSilentRebase`, `RepeatsAreNoops` |
| `planning` | all pairs of small trees under four options; trees that change and scans that fail; little room; a pause | `ScanHonest`, `RemovalJustified`, `GreatestSafe`, `PlanRuns`, `ResumeAccepted`, `Mirrored`, `Kept` |

What they show, beyond the table: in `dispatcher_control` a session's custody is
always with a thread that will return it, also when `prepare`, the acquisition
or `open` raise and when a cancel makes the scheduler start a second worker. In
`dispatcher_teardown` a shutdown that reports completion leaves nothing queued,
reserved or able to enter. In `events_streams` a consumer that is too slow can
tell from the Gap what it missed. In `events_audit` an `audit=OK` is only given
when the observer took every event owed to it before the handshake. In the
executor's runs the old version of each displaced file is at its place or in the
trash in every state, so also after a crash, and a backup is in its place in the
trash as a whole or not at all, in the middle of its copy too. In
`executor_drift` a file that another program writes after the backup of an update,
before the last guard or while a retry is due, is never overwritten, by that retry
or after a pause and a resume. In `executor_control` a run that
calls its recording in order has its successes in the ledger over pauses and
failures of the recorder, but for the two ways section 6 names. In
`dispatcher_teardown` the session may have two threads at once, and an accepted cancel
settles it all the same, unless the scheduler that it is queued for has ended. In `custody` the mutexes are a correct
lease whatever fails; a mutex that the kernel refuses to release is the only thing
that may stay behind, until its thread ends. In `ledger` a session that is late
never overwrites evidence it was not shown, and a file that is rewritten between
two chunks is never called decayed. In `planning` the result of a reviewed sync is
compared with the trees themselves, not with the plan: `Mirrored` and `Kept` are
the reference definition of what a sync should do.

Every property of a passing run is broken by at least one mutant of the code
listed in `PROJECT.json` (a dropped guard, a missing notification, a swapped
order), so none holds for lack of behaviour.

`custody` is checked for deadlock: threads always have a next session. The other
runs are not, since these systems may stop: callers need
not call again, a session ends, the scheduler exits after shutdown, a paused
session waits for its resume. What must not stop is stated by the liveness
properties and, for the scheduler, by `NoLostWakeup`.

## 4. Bounds, and why they are enough

* *Sessions.* Two suffice for mutual exclusion and for lost wakeups. Each session
  id is submitted once; the code never reuses one.
* *Slots* = 2 threads of one session. A third thread would need a second pause,
  or a second double launch, while the first retired thread has still not run
  its `finally`; it meets the same two tables in the same way. `_schedule` waits
  for a free slot: this is the only place where the bound restricts behaviour.
  `dispatcher_liveness` has one slot for each of its two sessions, since liveness
  over two by two is out of TLC's reach here; `dispatcher_teardown` checks the cancel
  with two slots of one session.
* *Faulty, Controlled, Pausable* are one session where the other one is the
  undisturbed contender, whose treatment is what the properties are about.
* *Replay, subscriber and audit capacities* of 1 or 2 with more events than that
  (`MaxItems` and the state changes), so overrun, ejection, truncated replay and
  a full audit queue all happen. `MaxControls` bounds control calls, but for a cancel on top of a
  pause under way, which can come once for each pause. `events_audit` has one of
  each: with the start and the end of the session that is more than its queue of
  one holds, and more than its replay buffer of two.
* *MaxFaults, MaxRetries, MaxPauses, MaxDrifts* name the faults, attempts,
  pauses and outside changes of a run. Operations share only the parent
  directory and dependencies, so plans have one operation of each kind; the ten
  kinds run together in `executor_control`.
* *Mutexes*: a ring of three is the smallest that no pair of threads can show, and
  two processes let one die with threads of its own beside another.
* *MaxClock, MaxEvents* of the ledger: four events are enough for a copy, a
  session that is shown its row, a change of the row by somebody else and the late
  record, or for a command, its lost answer, another command and the repetition.
  `Identified` is TRUE, as without identities there are no pairs at all.
  Two keys are the two ends of a move. Sessions and file systems are symmetric.
* *Worlds* of `planning`: trees of up to three levels, with a name that has another
  spelling and another Unicode form. Worlds in which others interfere have one or
  two changes (`budget`); a pause comes once. In every world the keys of the target
  differ (`WorldsAssumption`: the target is on a file system that tells no more names
  apart than the keys do), filters are paths, and `None` is none of the values it is
  compared with. Two worlds have a target file with two names; a source file with two
  names is in the others too.

## 5. The run that shows a disagreement

Here the code does something that a line of its documentation rules out.
`findings` in `PROJECT.json` quotes the line.

* `dispatcher_prompt_resume` (`Exclusive`). A worker publishes PAUSED and is
  descheduled before its `finally`. The session is resumed and started again. The
  old worker's `finally` releases the custody of the new one, and a contending
  session runs beside it.

## 6. Further disagreements

Unless it says otherwise, TLC finds each of the following with a small change of a
configuration, given in parentheses. They have no run of their own; the properties are the last
definitions of their modules, or are checked in section 3 under an instance that
avoids the behaviour.

* *Out of order.* `_release_custody` runs at the settlement of a session and again
  in the `finally` of its worker (`dispatcher.py:646`). In between the next session
  may have been reserved; the second call withdraws its reservation, and a third
  session that contends may acquire first. `docs/DISPATCHER.md:134`: "Contending
  committed sets start in commit order on every declared resource". (Three sessions
  in `dispatcher_control`; no property of this project states the order.)
* *Degraded, then canceled.* `execute` keeps a recorder failure in its own state;
  after a cancel `run_execution` finishes the run with RecordingStatus.OK
  (`sync.py:176-183`). A resumed run begins with a recording in order
  (`executor.py:674-684`) and forgets that it was degraded before the pause.
  `docs/EXECUTOR.md:258`: "Recording failures are never swallowed".
  (`RecordingTruthful` in `executor_control` without its exception for canceled
  results, or without the one for `forgotten` operations. That nothing else is
  swallowed is what the property says.)
* *An edit taken for the reviewed version.* The guard before the backup compares the
  target with the plan (`executor.py:1213`), but the one after it with the stat
  that the continuation took after the backup (`executor.py:1262`, `1302-1308`). What
  another program writes in between is overwritten, although it came before the
  last guard; without hardlinks that is the time of copying a whole file, and the
  backup may then be `torn`. `docs/EXECUTOR.md:325-326`: "Target appearance/change after
  preflight but before mutation is detected by the final guard when it occurs before
  that guard". The test `test_update_external_swap_bound_preserves_planned_old_and_attests_new`
  accepts a swap in this window as part of the one that the documentation discloses
  (`docs/EXECUTOR.md:66-67`, `139-141`), so it is no finding. (`ReviewedIsReplaced` in
  `executor_drift`. What comes later is kept: `LateChangeKept`.)
* *One old file, two operations.* A source file is matched with a target file that
  differs in Unicode form only (`planner.py:79-115`), and a recorded pair makes the
  same target file the old place of another source file (`_move_pair`,
  `planner.py:182-228`, asks only for keys the source has). The plan passes review;
  the operation that comes second fails. `docs/PLANNER.md:116-118` wants a "safe
  target-side move". (`MovesApart` in `planning`. `PlanRuns` and `Mirrored` hold
  wherever `MovesApart` and `Unshared` do.)
* *One old file, two names.* Where both names of a hard-linked target file have to
  be changed, the first operation changes the link count, and the guard of the second
  compares it with the plan's (`executor.py:1985`, `preflight.py:387`): a run that
  nobody disturbs fails with a drift, and so does its resume. (`PlanRuns` without
  `Unshared`; links that are in the trash are not counted in the model.)
* *A directory that never goes.* The planner does not see ignored entries
  (`scanner.py:366`), so it plans the cleanup of a directory that holds one, and
  the removal fails in every run. (Found by reading; no world has an ignored file
  in a directory to be cleaned up.)
* *Reappearance.* A row that goes from missing to unsupported and then to present
  is not marked as reappeared (`recorder.py:505-507`, `533-544`), and a move clears
  the mark of the row it takes over without evidence from a read
  (`recorder.py:1064`). `docs/FEATURES.md:192`: "surfaced as reappeared until a
  matching hash or new baseline resolves the state". (Found by reading; the
  converse, that such evidence always clears the mark, is part of
  `NoSilentRebase`.)
* *A cancel that is lost.* A cancel accepted in PAUSING ("cancel will settle after
  the in-progress pause drain", `dispatcher.py:300`) is dropped by a resume that
  comes before the worker has handled it: `reset()` at `dispatcher.py:270`.
  (`CancelIsKept` with the constants of `dispatcher_prompt_resume`.)
* *Custody after shutdown.* A cancel of a PENDING session that a worker already
  has queues it again (`dispatcher.py:303-308`); the second worker settles it, and
  shutdown reports completion while the first still holds its lease;
  `docs/DISPATCHER.md:150` wants shutdown to "verify all locks released".
  (`ShutdownTruthful` with the constants of `dispatcher_teardown`.)
* *A session nobody runs.* The scheduler ends although a paused session is left
  (`dispatcher.py:433-434`); once resumed or canceled it is queued for nobody;
  `docs/ARCHITECTURE.md:1209-1210`: "Every session reaches a terminal".
  (`CancelSettles` in `dispatcher_teardown` without `Stranded`.)
* *Unrun after work.* A resumed session whose acquisition or open fails gets
  Disposition.UNRUN (`dispatcher.py:473`, `496`), which "never started working"
  (`docs/ARCHITECTURE.md:488`). (`UnrunNeverStarted` in `dispatcher_control`.)
* *One too many.* A truncated replay and its Gap make one event more than the
  capacity of the queue (`event_bus.py:310-315`). (`QueueBounded` in
  `events_streams` with `SubscriberCapacity = 1`.)
* *Audit after the audit.* A control call emits its StateChanged after it left the
  lock (`dispatcher.py:252`, `274`, `310`), possibly after the audit was finalized
  as OK; `docs/ARCHITECTURE.md:1215-1217`: "a RELIABLE event reaches the history
  observer or the session's audit axis reads DEGRADED". (`AuditComplete` in
  `events_audit`.)
* *State of the past.* Two transitions are announced in the opposite order; a late
  subscriber is told the one that has passed. (`CurrentState` in `events_audit`.)
* *A stream without end.* A subscription between the two halves of a close
  (`dispatcher.py:226-230`, `328-332`) is never closed. (`StreamsEnd` under
  `FairSpec` with one subscriber.)
* *Colliding with itself.* A copy whose metadata call meets a sharing violation is
  retried and finds its own published file at the destination
  (`executor.py:1168`); `docs/EXECUTOR.md:364-367` promises a sharing violation
  "rather than false drift/occupancy". (`NoSelfCollision` for a plan with a copy
  and "metadata" in `Flaky`. A trash whose rename raises after it took effect, an
  update whose readonly bit cannot be put back, and an update whose stat of the
  finished backup raises (`executor.py:1261-1264`), are of the same kind; `Stumbles` in
  `ExecutorOutcomes` lists them all.) A pause does it too: an update whose replace
  failed leaves its backup in the trash, keeps no continuation over the pause, and
  collides with that backup when it is resumed, as the trash of the run keeps its
  name. (`NoSelfCollision` with `MaxPauses = 1`, `Hardlinks = FALSE`.)
* *A resume that is refused.* Preflight compares a directory that is to be removed
  exactly (`preflight.py:385-388`), though the plan's own removals have changed it;
  `docs/EXECUTOR.md:222`: a resume "continues only unreached work". `ResumeAccepted`
  in `planning` shows that this is the only case.
  (`ResumeContinues` in `executor_control` with `MaxFaults = 0`.)
* *Undressed directories.* A cancel after a resume leaves the timestamps of a
  directory finished before the pause (`executor.py:906-928`).
  (`DirectoriesDressed` in `executor_control` with `MaxFaults = 0`.)

## 7. Fairness

* *Dispatcher*: weak fairness of the scheduler, of every submit or shutdown call
  that is under way, and of every worker thread: the operating system runs each
  runnable thread, and a workflow returns or reaches a checkpoint, which is its
  contract. Nobody is obliged to call a method; the provider is not obliged to
  fail; a deadline is not obliged to pass.
* *Events*: weak fairness of the threads that announce, of the worker (each of
  its waits has a timeout), of a subscribe call and a close under way. The pump
  and the observer have none: they may hang.
* *Executor*: weak fairness of its one thread. Requests, drifts and faults have
  none; its sleeps between retries are bounded by the policy.

* *Named mutexes*: weak fairness of each thread inside `acquire`, in its session and
  in `release`: a session that has its lease gives it back. Nobody is obliged to
  start a session, to cancel one, or to die. The kernel is not obliged to be fair
  among waiters, so `WaitersProgress` promises progress of somebody, not of each.
* `CommittedSettles` excepts a contender that is paused and resumed for ever: with
  each resume it may take the lock again just before the waiting worker polls.

## 8. What is proved

### Dispatcher

The proofs hold for any finite set of sessions and any resources, slots and
outcomes. The assumption on the constants is `DispatcherAssumption`: types, and
that the name for a free resource is not a session.

* `TypeCorrect`: `Spec => []TypeOK`, which no run repeats.
* `TerminalOnce`: `Spec => []OneTerminal`, and `ResultIsFinal`:
  `Spec => TerminalIsFinal`. Neither is inductive, as two threads may be on their
  way to settle one session. `RunnerInv` says for each session that a thread
  between settling and emitting is the only one of its kind and that record,
  result and emission agree with how far it has come (`NotCommitted`,
  `Publishing`, `Emitting`, `OneFinisher`, `Unsettled`, `Published`, `Emitted`).
* `Exclusion`: if callers resume only after the paused worker has retired
  (`~PromptResume`), then `Spec => []Exclusive`. `dispatcher_prompt_resume` shows
  that the assumption is needed. The argument has two layers. `CustodyInv`: a
  lease in `_leases`, in a thread's hands after `acquire` or on its way out
  really owns all its resources, and there is one of these at most
  (`LeaseHolds`, `OneLease`, `Gripped`). `SchedulingInv`: a session that is neither
  canceling nor over has one worker thread or one queue entry, never two of
  either; a thread on its way to open the workflow, and one that runs it, hold
  the lease, and the latter is the session's only thread (`NeverInterrupted`,
  `OneWorker`, `Granted`, `RunsAlone`). So nobody but the running thread can give
  up the lease it runs under. Two contending sessions in their workflows would both
  own a resource they share.
* `CustodyReturns`: `Spec => []NoCustodyLeak`, whenever callers resume, cancel or
  close. `ReleaseInv` accounts for everything that is held: what is locked belongs
  to a lease in `_leases` or in the hands of a thread (`Backed`), and what is
  reserved to a session with a thread that is before its release or in it (`Owed`).
  A thread with a lease in hand is about to use it or to release it (`GripIsBusy`); a
  lease in `_leases` has a thread that will take it out (`LeaseIsPopped`). For that a
  session that goes on must have one thread at most that may still work, and no queue
  entry beside it (`OneActive`), and a thread in its last release does nothing
  else (`Phases`, `LostIsGone`).
* `PauseReleases`: if `~PromptResume`, then `Spec => []PausedHoldsNothing`. On top of
  `ReleaseInv`: a lease of a session that goes on is in use by a thread
  (`LeaseInUse`), and a paused session has none, in `_leases` or in a hand
  (`PausedIsEmpty`).
* `WakeupsArrive`: `Spec => []NoLostWakeup`, for every caller. Whoever makes an
  entry startable (a submission, a resume, a cancel, a release) notifies in the same
  critical section or has still to do so.
* `CompleteIsFinal`: if `~PromptResume`, then `Spec => []ShutdownSettles`.
  `TeardownInv`: when the scheduler has ended nothing is accepted any more and no
  session that goes on or is queued has a thread (`Ended`); shutdown reports
  completion only when nothing is unfinished and the scheduler has ended
  (`Drained`, `Reported`), and then nothing becomes unfinished again.

The hypothesis `~PromptResume` of the last two is needed as well: with it dropped,
TLC breaks both properties. The `finally` of the worker of a pause takes the lease
of the next worker and still holds it when that one pauses; and the scheduler may
end while a worker of a session that goes on still runs, after which a cancel queues
the session for nobody.

The invariants used in these proofs also hold in TLC on the instances of
`dispatcher_control`, `dispatcher_prompt_resume` and `dispatcher_teardown`, the
conditional ones on those without prompt resumes.

### Events

For any subscribers, callers, outcomes and bounds, and any positive capacities
(`AuditAssumption`, `HubAssumption`, `EventsAssumption`):

* `EventTypes`: `Spec => []TypeOK`, with the bounds of the replay buffer and of
  the audit queue.
* `AuditIsTrue`: `Spec => []AuditTruthful`. `PumpInv`: while the audit is not
  degraded, each event offered is heard, being told, or in the queue (`Accounted`);
  what is owed stands before the finalize command in the queue (`OwedFirst`), so it
  is heard when that command is taken (`Finalizing`).
* `NothingLostSilently`: `Spec => []NoSilentLoss`. A consumer's history is what it
  took followed by what waits. `HubInv` says of each history that it is in order and
  says what was emitted (`Sound`), and, until its consumer hangs up or the session
  ends, that it has each reliable event that was asked for or a Gap that announces
  it (`Told`); that an ejected stream ends in a Gap, which stands for all that
  comes later; and that the replay buffer lacks no reliable event after its first
  (`Contiguous`), which is what lets `subscribe` start with a tail of it.

The lemmas are about buffers and say nothing of the state: appending an event
(`Extends`), leaving out a Progress (`Drops`), giving up a queue for a Gap
(`Ejects`), cutting the front off (`ReplayShortens`), a Gap before a tail
(`GapThenTail`). `TypeOK` is not inductive by itself: that `replay` stays bounded
needs `Coalesced` never to lengthen a buffer (`CoalescedIs`).

### Named mutexes

For any processes, threads and wants, and any resources of which there is a
greatest (`ConstantsAssumption`):

* `MutexTypeCorrect`: `Spec => []TypeOK`.
* `NothingStray`: `Spec => []NoStrayMutex`.
* `PromiseKept`: `Spec => KeepsPromise`, the refinement of `Leases`.
* `NoRing`: `Spec => []NoCircularWait`: in every set of threads there is one that
  waits for none of the set. A waiting thread owns only mutexes that come before
  the one it waits for (`Ascending`), so along a ring the numbers would grow for
  ever; the proof takes the thread of the set that waits for the greatest.

All four rest on one inductive invariant, `IInv`: a handle in a list means
ownership and, unless its release was refused, the reverse; a thread outside the
provider has an empty list; a lease is whole; a refusal is of a thread that is
giving back; and `Ascending`. Without the first pair a free mutex could not be
told from a stray one, without the third the refinement fails at `Acquire`.

### Executor

For any operations, kinds, dependencies, sets of failing calls and bounds
(`PlanAssumption`). `ExecutorProofs` has what is on the disk:

* `ExecutorTypeCorrect`: `Spec => []TypeOK`.
* `WholeFiles`: `Spec => []PublishedWhole`.
* `DisplacedKept`: `Spec => []VersionsKept`.
* `SuccessOnDisk`: `Spec => []SuccessIsReal`.

They share the inductive invariant `IInv`. For each operation it has three parts,
`Whole`, `Kept` and `Done`: what may be at its places (a torn backup only where
another program has meddled), where the displaced version is, and what holds once
it is settled. They are inductive only together with
`InHand`, which says for every stage of the operation in hand, and for every
continuation a retry may find, which steps have taken effect: that is what lets a
retry skip them. `Booked` says that the operation in hand has no outcome yet, nor
has a directory that waits for the end of the run.

`ExecutorOutcomes` has what a run reports:

* `ResultOnDisk`: `Spec => []ResultIsExact`. `Reached` adds that every operation
  the loop has passed is settled or a directory that waits, and that a directory
  whose metadata may have been disturbed is on the list of those to be restored.
* `ForeignSurvives`: `Spec => ForeignKept`, an action property, one step of the
  proof for each action that writes to the disk.
* `NoTempLeft`: `"cleanup" \notin Flaky /\ Spec => []TempsReclaimed`. If the
  removal of a temp itself fails, the temp stays. `Tidy`:
  only the operation in hand has a temp, and then it is in flight.
* `LedgerComplete`: `Spec => []RecordingTruthful`, for every sequence of pauses,
  resumes and cancels. `Faithful`: while the recording of the call of `execute` under
  way is in order, the ledger has every success but those that an earlier, degraded
  part of the run lost (`forgotten`), and the result says what the recording was.
  The two exceptions in the property are the ones of section 6.
* `LateChangesAreKept`: `Spec => LateChangeKept`. `Noticed` is what holds from the
  change on: the attempt in hand has either no continuation, and then a guard that
  compares with the plan before it, or one whose `live_stat` is of another version;
  and every way on, also that of a retry, a pause and a resume, leads through such a
  guard.
* `RetriesDoNotCollide`: `Recoverable /\ Spec => []NoSelfCollision`. `Recoverable` is
  what has to be excluded: pauses, and for each kind of operation the calls in `Stumbles`
  (section 6); TLC breaks the property with each of them alone. `Smooth`: an
  operation that the loop has still to come to is as the plan expects (`Pristine`),
  and the one in hand has had no effect, or has the continuation that tells the retry
  what it has done, or is past its last step that may fail (`Halfway`). So no guard of
  an attempt, first or later, meets anything but what the plan or the continuation
  says.

### Ledger and verifier

For any finite set of keys, any sessions, file systems and bounds
(`LedgerAssumption`, `ModesAssumption`), all six properties of the run `ledger`:

* `OneOutcomeEach`: `Spec => []SettledOnce`. `SettledInv` ties the outcomes of a
  session to its completed items: one for each of these, none for the others.
* `EvidenceWasHad`: `Spec => []EvidenceReal`.
* `PairsStayOneToOne`: `Spec => []PairsOneToOne`.
* `RepeatsChangeNothing`: `Spec => RepeatsAreNoops`.
* `MismatchMeansDecay`: `Spec => []MismatchIsDecay`.
* `RebaseHasReason`: `Spec => NoSilentRebase`.

The lemmas about the ledger's operators come first: what each command writes
(`RowsWritten`), that ids stay unique (`Sound`), how an answer depends on the
receipts (`AnswerWrites`). The inductive invariant `VerifierInv` then has

* `DiskInv`, with the fact that a step only ages files (`Aging`): a file is left
  alone, gets a stamp later than all before, or loses one chunk under its stamp;
* `LedgerInv`: rows and commands under way have real evidence, and a command whose
  answer was lost has left its receipt;
* `RunInv`: the tokens of runs and scans under way differ and are not ahead of the
  count of events;
* `SessionInv`: what a session was shown; what it has read (`HasRead`: as long as
  the stamp has not moved, the chunks read so far are, with those to come, content
  the file had); and what its command says.

`MismatchIsDecay` follows since the evidence and the chunks are both content under
the stat that the session checked twice. `NoSilentRebase` needs `TokenInv` as well:
once a row has a token, no operation or scan that is still to be recorded for it
has the same (`Spent`). That is what makes the comparison of tokens in
`_apply_integrity` a guard against a reappearance the session was not shown, and it
rests on a plan having one operation for a key.

### Planning

For any names, trees, correspondences, options, filters, ignores, faults and changes
by other programs (`PathsAssumption`, `NoneAssumption`, `WorldsAssumption`,
`OptionsAssumption`). Paths are sequences of names, so lemmas about prefixes, parents
and keys come first, then lemmas about trees and what one change leaves of them.

* `ScansAreHonest`: `Spec => []ScanHonest`. `Honest` says of a walk under way that an
  entry which was left alone has been reported or is still awaited (`Covered`): it is
  in the listing, or below an entry of the listing or a directory that is still to be
  listed (`Awaited`); and that what was left alone is there as it was listed
  (`Settled`). Without the second part an entry could slip through with a directory
  that another program replaces between its listing and its lookup.
* `RemovalsAreJustified`: `Spec => []RemovalJustified`. A finished scan has reported no
  path twice (`Once`: each directory is entered and listed once) and, when complete, no
  key twice (`Sorted`, `Reliable`). From two such scans the planner takes away nothing
  that the source reported, except where an entry of the source blocks it
  (`TakesHindered`); and such an operation is not selected (`NotTaken`). `ScanHonest`
  turns "reported" into "was there".
* `PlansAreWellFormed`: `Spec => []WellFormed`. No two operations of a plan share an id
  (`OneId`), and dependencies come first (`NeedsMet` for the directories to be created,
  `CleanupsMet` for what empties a directory).
* `SelectionGreatest`: `Spec => []GreatestSafe`. The inductive part is `Sparing`:
  everything that is ruled out by itself is withheld, and no closed set that avoids it
  has lost an operation. That the loop's result is closed follows from its end and from
  the plan being well formed.
* `ProtectedIsKept`: `Spec => []Kept`, through the execution. As long as nobody
  interferes, a scan reports the target as it is (`Surveyed`), so that each operation
  acts on an entry that was there (`PlanFounded`). The target stays a tree with a
  directory above every entry (`Tidy`), and an operation that finds what it expects
  changes only the places it strikes (`EffectConfined`). What is protected is not
  struck (`ShieldedNotStruck`): a filter leaves out what is below its paths as well, and
  what is above a blocked path is a directory that a cleanup would have to depend on.
  `Guarded` carries this over the steps of the run.

## 9. What is only model-checked

Liveness under fairness, and everything with ENABLED, is out of the prover's
reach: `Terminates`, `CancelSettles`, `CommittedSettles`, `ResultPublished`,
`WaitersProgress`.

Three properties compare the plan with the trees at the end of the run and are
checked by TLC for all pairs of small trees: that a plan can be carried out (the
second half of `PlanRuns`; the first, `WellFormed`, is proved), `ResumeAccepted` and
`Mirrored`. Their argument needs, for every pair of operations of a plan, that the
first leaves what the second expects: ten kinds against ten kinds, over trees whose
keys collide. It is within the prover's reach but has not been carried out.

## 10. Not modelled, and the plan

Not modelled:

* the payload codec, the SQL of repositories and schema, presentation: no state of
  their own;
* the scan of selected paths, which the sync workflow does not use, and the rows of
  directories in the ledger;
* volumes without stable file identities and with coarse times: the planner then
  finds no moves and compares with a tolerance;
* the fingerprint of a commitment, since nothing in the process can change a plan;
* the rows of the history behind the audit pump: an idempotent insert under one
  token, whose late finalization may contradict the degraded audit of the result;
* the wiring of the runtime and its order of closing; two concurrent `close` calls
  of one session, of which the second raises KeyError (`dispatcher.py:328`); the
  client that subscribes again after an ejection (`cli.py:298`);
* the Windows handle API below the executor and the reader.

Left to do, in this order:

1. `History`: rows and finalization behind the audit pump, composed with it.
2. The execute-then-verify session: `Executor` and `Verifier` under one dispatcher
   session.
3. An abstract specification of a session, implemented by `Dispatcher`.
