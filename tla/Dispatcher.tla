----------------------------- MODULE Dispatcher -----------------------------
(***************************************************************************)
(* The session dispatcher: dispatcher/dispatcher.py together with the      *)
(* generic runner run_session of core/session.py and the in-process lock   *)
(* provider of dispatcher/custody.py.                                      *)
(*                                                                         *)
(* The threads are the callers of the public methods (submit, pause,       *)
(* resume, cancel, close, shutdown), the scheduler thread, and one worker  *)
(* thread for every launch of a session.  Every action is one block under  *)
(* self._condition, one call into the lock provider, or one call into the  *)
(* registered workflow; the code runs nothing else between two of them     *)
(* that another thread can see.                                            *)
(***************************************************************************)
EXTENDS SessionLifecycle, Naturals, FiniteSets

CONSTANTS
    Sessions,       \* the sessions that may be submitted, each at most once
    Resources,      \* the ResourceIds that prepare() may name
    Res,            \* Res[s]: the resources prepare() declares for s
    Pausable,       \* the sessions whose registration has supports_pause
    Slots,          \* bound: simultaneous worker threads of one session
    Controlled,     \* the sessions callers cancel and close
    Faulty,         \* the sessions whose prepare, lease or open may raise
    Returns,        \* how a workflow ends by itself: the status returned, "failed" if it raises
    MayShutdown,    \* whether the application calls shutdown
    PromptResume    \* FALSE: callers resume only once the pause's worker retired

ASSUME DispatcherAssumption ==
    /\ IsFiniteSet(Sessions)
    /\ "free" \notin Sessions
    /\ Res \in [Sessions -> SUBSET Resources]
    /\ Pausable \subseteq Sessions
    /\ Controlled \subseteq Sessions
    /\ Faulty \subseteq Sessions
    /\ Returns \subseteq TERMINAL_STATES
    /\ MayShutdown \in BOOLEAN
    /\ PromptResume \in BOOLEAN

Absent   == "absent"      \* the id is not a key of self._records
NoResult == "none"        \* record.result is None
Free     == "free"        \* the resource is not in _LOCAL_HELD

VARIABLES
    admission,  \* where the submit call of a session is
    state,      \* record.state, or Absent
    started,    \* the sessions whose record has a started_at
    result,     \* record.result, by its status
    unrun,      \* the sessions whose result the runner gave Disposition.UNRUN
    pauseReq,   \* _Control._pause
    cancelReq,  \* _Control._cancel
    pending,    \* the deque _pending: position of a session in it, 0 if absent
    reserved,   \* _reserved
    leases,     \* keys of _leases
    owner,      \* the lock provider: the session whose lease holds a resource
    workers,    \* keys of _workers
    accepting,  \* _accepting
    sched,      \* scheduler thread: scanning, waiting on the condition, exited
    pc,         \* where each worker thread is
    job,        \* what a worker thread was given to _run_core
    aim,        \* the outcome a worker thread settles, or that it retires
    grip,       \* grip[s]: threads of s with a lease object not in _leases
    terminals,  \* number of Terminal events emitted for a session
    shut,       \* where the shutdown call is
    shutTodo,   \* the candidates shutdown has still to cancel
    report      \* ShutdownResult: the facts collected so far

lifecycle == << state, started, result, unrun >>
control   == << pauseReq, cancelReq >>
custody   == << reserved, leases, owner, grip >>
threads   == << pc, job, aim, workers >>
teardown  == << shut, shutTodo, report >>
vars == << admission, lifecycle, control, pending, custody, threads, accepting,
           sched, terminals, teardown >>

-----------------------------------------------------------------------------
AdmissionStep == { "new", "preparing", "committed", "unwinding", "submitted", "refused" }

Step == { "idle", "start", "acquire", "leased", "open", "core", "invoke",
          "pop", "unlock", "unlockLost", "unreserve", "settle", "publish",
          "terminal", "retire" }

Job == { "none", "run", "cancel", "fail" }

Aim == { "none", "paused", "retire" } \cup TERMINAL_STATES

(***************************************************************************)
(* Type invariant.                                                         *)
(***************************************************************************)
TypeOK ==
    /\ admission \in [Sessions -> AdmissionStep]
    /\ state \in [Sessions -> SessionState \cup { Absent }]
    /\ started \subseteq Sessions
    /\ result \in [Sessions -> TERMINAL_STATES \cup { NoResult }]
    /\ unrun \subseteq Sessions
    /\ pauseReq \subseteq Sessions
    /\ cancelReq \subseteq Sessions
    /\ pending \in [Sessions -> Nat]
    /\ reserved \subseteq Resources
    /\ leases \subseteq Sessions
    /\ owner \in [Resources -> Sessions \cup { Free }]
    /\ workers \subseteq Sessions
    /\ accepting \in BOOLEAN
    /\ sched \in { "scanning", "waiting", "exited" }
    /\ pc \in [Sessions -> [Slots -> Step]]
    /\ job \in [Sessions -> [Slots -> Job]]
    /\ aim \in [Sessions -> [Slots -> Aim]]
    /\ grip \in [Sessions -> SUBSET Slots]
    /\ terminals \in [Sessions -> Nat]
    /\ shut \in { "open", "canceling", "waiting", "joining", "returned" }
    /\ shutTodo \subseteq Sessions
    /\ report \in [complete : BOOLEAN, custody_released : BOOLEAN]

Init ==
    /\ admission = [s \in Sessions |-> "new"]
    /\ state = [s \in Sessions |-> Absent]
    /\ started = {}
    /\ result = [s \in Sessions |-> NoResult]
    /\ unrun = {}
    /\ pauseReq = {}
    /\ cancelReq = {}
    /\ pending = [s \in Sessions |-> 0]
    /\ reserved = {}
    /\ leases = {}
    /\ owner = [r \in Resources |-> Free]
    /\ workers = {}
    /\ accepting = TRUE
    /\ sched = "scanning"
    /\ pc = [s \in Sessions |-> [k \in Slots |-> "idle"]]
    /\ job = [s \in Sessions |-> [k \in Slots |-> "none"]]
    /\ aim = [s \in Sessions |-> [k \in Slots |-> "none"]]
    /\ grip = [s \in Sessions |-> {}]
    /\ terminals = [s \in Sessions |-> 0]
    /\ shut = "open"
    /\ shutTodo = {}
    /\ report = [complete |-> FALSE, custody_released |-> FALSE]

-----------------------------------------------------------------------------
(***************************************************************************)
(* Helpers.                                                                *)
(***************************************************************************)

\* Mutant: the notification is forgotten.
Unnotified == sched

\* self._condition.notify_all() wakes a scheduler that waits.
Notified == IF sched = "waiting" THEN "scanning" ELSE sched

Queued == { s \in Sessions : pending[s] > 0 }

\* self._pending.append(s)
Appended(s) == [pending EXCEPT ![s] = Cardinality(Queued) + 1]

\* The deque of the sessions that stay, in their order.
Remaining(kept) ==
    [s \in Sessions |-> IF s \in kept
                        THEN Cardinality({ t \in kept : pending[t] <= pending[s] })
                        ELSE 0]

_is_settled(s) == is_terminal(state[s]) /\ result[s] # NoResult

Admitting == { s \in Sessions : admission[s] \in { "preparing", "committed", "unwinding" } }

-----------------------------------------------------------------------------
(***************************************************************************)
(* Submission.  _admit runs outside the lock until it commits.             *)
(***************************************************************************)
Submit(s) ==
    /\ admission[s] = "new"
    /\ accepting
    /\ admission' = [admission EXCEPT ![s] = "preparing"]
    /\ UNCHANGED << lifecycle, control, pending, custody, threads, accepting, sched,
                    terminals, teardown >>

\* The block that makes the session visible; nobody is notified in it.
Commit(s) ==
    /\ admission[s] = "preparing"
    /\ accepting
    /\ admission' = [admission EXCEPT ![s] = "committed"]
    /\ state' = [state EXCEPT ![s] = "pending"]
    /\ pending' = Appended(s)
    /\ UNCHANGED << started, result, unrun, control, custody, threads, accepting, sched,
                    terminals, teardown >>

\* _admit raises: prepare, the audit factory or the store failed, or shutdown
\* began meanwhile (AdmissionClosed, after the store entry is dropped again).
AdmitRaises(s) ==
    /\ admission[s] = "preparing"
    /\ s \in Faulty \/ ~ accepting
    /\ admission' = [admission EXCEPT ![s] = "unwinding"]
    /\ UNCHANGED << lifecycle, control, pending, custody, threads, accepting, sched,
                    terminals, teardown >>

\* The call leaves: after a commit _admit emits PENDING and notifies, and the
\* finally of submit gives up its place in _admitting and notifies in any case.
\* The two blocks are one step, since only shutdown's complete reads _admitting
\* and giving it up earlier can only make complete true more often.
SubmitReturns(s) ==
    /\ admission[s] \in { "committed", "unwinding" }
    /\ admission' = [admission EXCEPT ![s] = IF @ = "committed" THEN "submitted" ELSE "refused"]
    /\ sched' = Notified
    /\ UNCHANGED << lifecycle, control, pending, custody, threads, accepting,
                    terminals, teardown >>

-----------------------------------------------------------------------------
(***************************************************************************)
(* Control.                                                                *)
(***************************************************************************)
pause(s) ==
    /\ PauseAccepted(state[s], s \in Pausable)
    /\ pauseReq' = pauseReq \cup { s }
    /\ state' = [state EXCEPT ![s] = "pausing"]
    /\ sched' = Notified
    /\ UNCHANGED << admission, started, result, unrun, cancelReq, pending, custody,
                    threads, accepting, terminals, teardown >>

resume(s) ==
    /\ ResumeAccepted(state[s])
    /\ PromptResume \/ s \notin workers
    /\ pauseReq' = pauseReq \ { s }
    /\ cancelReq' = cancelReq \ { s }
    /\ state' = [state EXCEPT ![s] = "pending"]
    /\ pending' = Appended(s)
    /\ sched' = Notified
    /\ UNCHANGED << admission, started, result, unrun, custody, threads, accepting,
                    terminals, teardown >>

\* The body of cancel, which shutdown calls for each of its candidates too.
Canceling(s) ==
    /\ cancelReq' = cancelReq \cup { s }
    /\ IF state[s] = "pausing"
       THEN UNCHANGED << state, pending, sched >>
       ELSE /\ state' = [state EXCEPT ![s] = "canceling"]
            /\ pending' = IF state[s] \in { "pending", "paused", "interrupted" }
                             /\ s \notin Queued
                          THEN Appended(s) ELSE pending
            /\ sched' = Notified
    /\ UNCHANGED << admission, started, result, unrun, pauseReq, custody, threads,
                    accepting, terminals >>

cancel(s) ==
    /\ s \in Controlled
    /\ CancelAccepted(state[s])
    /\ Canceling(s)
    /\ UNCHANGED teardown

\* close: a settled session leaves every table; its hub closes its streams.
close(s) ==
    /\ s \in Controlled
    /\ state[s] # Absent
    /\ _is_settled(s)
    /\ state' = [state EXCEPT ![s] = Absent]
    /\ UNCHANGED << admission, started, result, unrun, control, pending, custody, threads,
                    accepting, sched, terminals, teardown >>

-----------------------------------------------------------------------------
(***************************************************************************)
(* Teardown.  One caller calls shutdown, once; its deadline may pass at    *)
(* any moment while it waits.                                              *)
(***************************************************************************)
shutdown ==
    /\ MayShutdown
    /\ shut = "open"
    /\ shut' = "canceling"
    /\ accepting' = FALSE
    /\ shutTodo' = { s \in Sessions : state[s] # Absent /\ ~ is_terminal(state[s]) }
    /\ sched' = Notified
    /\ UNCHANGED << admission, lifecycle, control, pending, custody, threads,
                    terminals, report >>

ShutdownCancel(s) ==
    /\ shut = "canceling"
    /\ s \in shutTodo
    /\ shutTodo' = shutTodo \ { s }
    /\ IF CancelAccepted(state[s])
       THEN Canceling(s)
       ELSE UNCHANGED << admission, lifecycle, control, pending, custody, threads,
                         accepting, sched, terminals >>
    /\ UNCHANGED << shut, report >>

ShutdownWaits ==
    /\ shut = "canceling"
    /\ shutTodo = {}
    /\ shut' = "waiting"
    /\ UNCHANGED << admission, lifecycle, control, pending, custody, threads,
                    accepting, sched, terminals, shutTodo, report >>

Unfinished == { s \in Sessions : state[s] # Absent /\ ~ _is_settled(s) }

\* The wait loop ends, drained or past its deadline, and collects its facts.
ShutdownCollects ==
    /\ shut = "waiting"
    /\ shut' = "joining"
    /\ report' = [complete         |-> Unfinished = {},
                  custody_released |-> leases = {} /\ reserved = {}]
    /\ UNCHANGED << admission, lifecycle, control, pending, custody, threads,
                    accepting, sched, terminals, shutTodo >>

\* Mutant: shutdown does not look at the scheduler nor at submit calls under way.
ShutdownAssumes ==
    /\ shut = "joining"
    /\ shut' = "returned"
    /\ report' = [report EXCEPT !.complete = @ /\ report.custody_released]
    /\ UNCHANGED << admission, lifecycle, control, pending, custody, threads,
                    accepting, sched, terminals, shutTodo >>

\* scheduler.join returns, joined or past the deadline; the hubs of the settled
\* sessions close, in time or not; the result is built.
ShutdownReturns ==
    /\ shut = "joining"
    /\ shut' = "returned"
    /\ \E observersClosed \in BOOLEAN :
         report' = [report EXCEPT !.complete = /\ @
                                               /\ observersClosed
                                               /\ report.custody_released
                                               /\ sched = "exited"
                                               /\ Admitting = {}]
    /\ UNCHANGED << admission, lifecycle, control, pending, custody, threads,
                    accepting, sched, terminals, shutTodo >>

-----------------------------------------------------------------------------
(***************************************************************************)
(* The scheduler thread.  One scan of _pending under the lock: a PENDING   *)
(* session is passed over when one of its resources is reserved or wanted  *)
(* by a PENDING session before it in the deque (that one either reserved   *)
(* them in this scan or is itself waiting for them); every other entry is  *)
(* selected, whatever its state.                                           *)
(***************************************************************************)
Before(s) == { t \in Queued : pending[t] < pending[s] /\ state[t] = "pending" }

Blocked(s) ==
    /\ state[s] = "pending"
    /\ Res[s] \cap (reserved \cup UNION { Res[t] : t \in Before(s) }) # {}

\* Mutant: only PENDING entries leave the deque.
SelectedPending == { s \in Queued : state[s] = "pending" /\ ~ Blocked(s) }

Selected == { s \in Queued : ~ Blocked(s) }

Launched == { s \in Selected : state[s] # Absent }

\* Thread(target=self._run_worker): a thread of s that does not run yet.
Fresh(s) == { k \in Slots : pc[s][k] = "idle" }

_schedule ==
    /\ sched = "scanning"
    /\ Selected # {}
    /\ \A s \in Launched : Fresh(s) # {}
    /\ reserved' = reserved \cup UNION { Res[s] : s \in { t \in Selected : state[t] = "pending" } }
    /\ pending' = Remaining(Queued \ Selected)
    /\ workers' = workers \cup Launched
    /\ pc' = [s \in Sessions |->
                IF s \in Launched
                THEN [pc[s] EXCEPT ![CHOOSE k \in Fresh(s) : TRUE] = "start"]
                ELSE pc[s]]
    /\ UNCHANGED << admission, lifecycle, control, leases, owner, grip, job, aim,
                    accepting, sched, terminals, teardown >>

\* Nothing to launch: return when torn down and drained, else wait.
SchedulerRests ==
    /\ sched = "scanning"
    /\ Selected = {}
    /\ sched' = IF ~ accepting /\ Queued = {} /\ workers = {} THEN "exited" ELSE "waiting"
    /\ UNCHANGED << admission, lifecycle, control, pending, custody, threads,
                    accepting, terminals, teardown >>

-----------------------------------------------------------------------------
(***************************************************************************)
(* A worker thread, _run_worker.  Goto, RunCore, Ends and Unwind move one  *)
(* thread.                                                                 *)
(***************************************************************************)
Goto(s, k, step) ==
    /\ pc' = [pc EXCEPT ![s][k] = step]
    /\ UNCHANGED << job, aim >>

\* _run_core is called with an invocation, with a failure, or with neither.
RunCore(s, k, what) ==
    /\ pc' = [pc EXCEPT ![s][k] = "core"]
    /\ job' = [job EXCEPT ![s][k] = what]
    /\ UNCHANGED aim

\* Mutant: the outcome is settled before custody is released.
EndsHolding(s, k, outcome) ==
    /\ pc' = [pc EXCEPT ![s][k] = "settle"]
    /\ aim' = [aim EXCEPT ![s][k] = outcome]
    /\ UNCHANGED job

\* The work ends; settle begins by releasing custody.
Ends(s, k, outcome) ==
    /\ pc' = [pc EXCEPT ![s][k] = "pop"]
    /\ aim' = [aim EXCEPT ![s][k] = outcome]
    /\ UNCHANGED job

\* The body returns or raises: the finally releases custody and retires.
Unwind(s, k) ==
    /\ pc' = [pc EXCEPT ![s][k] = "pop"]
    /\ aim' = [aim EXCEPT ![s][k] = "retire"]
    /\ job' = [job EXCEPT ![s][k] = "none"]

\* The first block reads the record, which close may have removed (KeyError).
WorkerStarts(s, k) ==
    /\ pc[s][k] = "start"
    /\ IF state[s] = Absent           THEN Unwind(s, k)
       ELSE IF state[s] = "canceling" THEN RunCore(s, k, "cancel")
                                      ELSE Goto(s, k, "acquire")
    /\ UNCHANGED << admission, lifecycle, control, pending, custody, workers,
                    accepting, sched, terminals, teardown >>

\* Mutant: the provider does not wait for the holders.
AcquireHeld(s, k) ==
    /\ pc[s][k] = "acquire"
    /\ s \notin cancelReq
    /\ owner' = [r \in Resources |-> IF r \in Res[s] THEN s ELSE owner[r]]
    /\ grip' = [grip EXCEPT ![s] = @ \cup { k }]
    /\ Goto(s, k, "leased")
    /\ UNCHANGED << admission, lifecycle, control, pending, reserved, leases,
                    workers, accepting, sched, terminals, teardown >>

\* InProcessResourceLockProvider.acquire succeeds, all or nothing.
Acquire(s, k) ==
    /\ pc[s][k] = "acquire"
    /\ s \notin cancelReq
    /\ \A r \in Res[s] : owner[r] = Free
    /\ owner' = [r \in Resources |-> IF r \in Res[s] THEN s ELSE owner[r]]
    /\ grip' = [grip EXCEPT ![s] = @ \cup { k }]
    /\ Goto(s, k, "leased")
    /\ UNCHANGED << admission, lifecycle, control, pending, reserved, leases,
                    workers, accepting, sched, terminals, teardown >>

AcquireCanceled(s, k) ==
    /\ pc[s][k] = "acquire"
    /\ s \in cancelReq
    /\ RunCore(s, k, "cancel")
    /\ UNCHANGED << admission, lifecycle, control, pending, custody, workers,
                    accepting, sched, terminals, teardown >>

AcquireFails(s, k) ==
    /\ pc[s][k] = "acquire"
    /\ s \in Faulty
    /\ RunCore(s, k, "fail")
    /\ UNCHANGED << admission, lifecycle, control, pending, custody, workers,
                    accepting, sched, terminals, teardown >>

\* The lease is stored before the record is read again.
Register(s, k) ==
    /\ pc[s][k] = "leased"
    /\ leases' = leases \cup { s }
    /\ grip' = [grip EXCEPT ![s] = @ \ { k }]
    /\ IF state[s] = Absent           THEN Unwind(s, k)
       ELSE IF state[s] = "canceling" THEN RunCore(s, k, "cancel")
                                      ELSE Goto(s, k, "open")
    /\ UNCHANGED << admission, lifecycle, control, pending, reserved, owner,
                    workers, accepting, sched, terminals, teardown >>

\* registration.open(payload) returns a fresh invocation, which reads nothing
\* that threads share, and the block after it begins the run.  A record that
\* close removed is a KeyError, a terminal one an IllegalTransition.
Begin(s, k) ==
    /\ pc[s][k] = "open"
    /\ IF state[s] \in SessionState \ { "canceling" } /\ Legal(state[s], "running")
       THEN /\ state' = [state EXCEPT ![s] = "running"]
            /\ started' = started \cup { s }
            /\ sched' = Notified
            /\ RunCore(s, k, "run")
       ELSE /\ UNCHANGED << state, started, sched >>
            /\ IF state[s] = "canceling" THEN RunCore(s, k, "cancel")
                                         ELSE Unwind(s, k)
    /\ UNCHANGED << admission, result, unrun, control, pending, custody, workers, accepting,
                    terminals, teardown >>

OpenFails(s, k) ==
    /\ pc[s][k] = "open"
    /\ s \in Faulty
    /\ RunCore(s, k, "fail")
    /\ UNCHANGED << admission, lifecycle, control, pending, custody, workers, accepting,
                    sched, terminals, teardown >>

(***************************************************************************)
(* _run_core and run_session.                                              *)
(***************************************************************************)

\* work() up to the invocation: the checkpoint first, then the job.  The item
\* accumulator is gone (KeyError) once another worker emitted the Terminal.
Core(s, k) ==
    /\ pc[s][k] = "core"
    /\ IF state[s] = Absent \/ terminals[s] > 0          THEN Unwind(s, k)
       ELSE IF s \in cancelReq                           THEN Ends(s, k, "canceled")
       ELSE IF s \in pauseReq                            THEN Ends(s, k, "paused")
       ELSE IF job[s][k] = "fail"                        THEN Ends(s, k, "failed")
       ELSE IF job[s][k] = "cancel"                      THEN Ends(s, k, "canceled")
                                                         ELSE Goto(s, k, "invoke")
    /\ UNCHANGED << admission, lifecycle, control, pending, custody, workers,
                    accepting, sched, terminals, teardown >>

\* invocation.run(context): it returns, raises, or stops at a checkpoint.  A
\* pause replaces the payload by a snapshot; one that raises is a raise of the
\* workflow.
Invoke(s, k) ==
    /\ pc[s][k] = "invoke"
    /\ \/ \E status \in Returns : Ends(s, k, status)
       \/ /\ s \in cancelReq
          /\ Ends(s, k, "canceled")
       \/ /\ s \in pauseReq \ cancelReq
          /\ Ends(s, k, "paused")
    /\ UNCHANGED << admission, lifecycle, control, pending, custody, workers,
                    accepting, sched, terminals, teardown >>

\* _release_custody, first block.  It is called by _settle and again by the
\* finally of _run_worker, and takes whatever lease the session has by then.
Pop(s, k) ==
    /\ pc[s][k] = "pop"
    /\ leases' = leases \ { s }
    /\ grip' = IF s \in leases THEN [grip EXCEPT ![s] = @ \cup { k }] ELSE grip
    /\ Goto(s, k, IF state[s] = Absent THEN "unlockLost" ELSE "unlock")
    /\ UNCHANGED << admission, lifecycle, control, pending, reserved, owner,
                    workers, accepting, sched, terminals, teardown >>

AfterRelease(s, k) == IF aim[s][k] = "retire" THEN "retire" ELSE "settle"

\* lease.release(), outside the lock; a lost record leaves _reserved alone.
Unlock(s, k) ==
    /\ pc[s][k] \in { "unlock", "unlockLost" }
    /\ owner' = [r \in Resources |->
                   IF k \in grip[s] /\ r \in Res[s] THEN Free ELSE owner[r]]
    /\ grip' = [grip EXCEPT ![s] = @ \ { k }]
    /\ Goto(s, k, IF pc[s][k] = "unlock" THEN "unreserve" ELSE AfterRelease(s, k))
    /\ sched' = IF pc[s][k] = "unlock" THEN sched ELSE Notified
    /\ UNCHANGED << admission, lifecycle, control, pending, reserved, leases,
                    workers, accepting, terminals, teardown >>

\* Mutant: the reservation is kept.
UnreserveNothing(s, k) ==
    /\ pc[s][k] = "unreserve"
    /\ sched' = Notified
    /\ Goto(s, k, AfterRelease(s, k))
    /\ UNCHANGED << admission, lifecycle, control, pending, reserved, leases, owner, grip,
                    workers, accepting, terminals, teardown >>

\* _release_custody, last block.
Unreserve(s, k) ==
    /\ pc[s][k] = "unreserve"
    /\ reserved' = reserved \ Res[s]
    /\ sched' = Notified
    /\ Goto(s, k, AfterRelease(s, k))
    /\ UNCHANGED << admission, lifecycle, control, pending, leases, owner, grip,
                    workers, accepting, terminals, teardown >>

\* _settle's transition.  The result stays None until the audit is settled.
Settle(s, k) ==
    /\ pc[s][k] = "settle"
    /\ IF state[s] # Absent /\ Legal(state[s], aim[s][k])
       THEN /\ state' = [state EXCEPT ![s] = aim[s][k]]
            /\ result' = [result EXCEPT ![s] = NoResult]
            /\ sched' = Notified
            /\ IF aim[s][k] = "paused" THEN Unwind(s, k)
                                       ELSE Goto(s, k, "publish")
       ELSE /\ UNCHANGED << state, result, sched >>
            /\ Unwind(s, k)
    /\ UNCHANGED << admission, started, unrun, control, pending, custody, workers,
                    accepting, terminals, teardown >>

\* The disposition the runner gives a canceled or failed result: a failed lease
\* or open is UNRUN, a cancel before the invocation is by started_at.
Unrun(s, k) == job[s][k] = "fail" \/ (job[s][k] = "cancel" /\ s \notin started)

\* Mutant: the result is not stored in the record.
PublishNothing(s, k) ==
    /\ pc[s][k] = "publish"
    /\ Goto(s, k, "terminal")
    /\ UNCHANGED << admission, lifecycle, control, pending, custody, workers,
                    accepting, sched, terminals, teardown >>

\* hub.finalize_audit answers, at the latest after its timeout, and the result
\* with the audit axis settled is published.
PublishResult(s, k) ==
    /\ pc[s][k] = "publish"
    /\ result' = [result EXCEPT ![s] = aim[s][k]]
    /\ unrun' = IF aim[s][k] \in { "canceled", "failed" } /\ Unrun(s, k)
                THEN unrun \cup { s } ELSE unrun
    /\ sched' = Notified
    /\ Goto(s, k, "terminal")
    /\ UNCHANGED << admission, state, started, control, pending, custody, workers,
                    accepting, terminals, teardown >>

\* The sole Terminal event; then _run_core drops the item accumulator.
EmitTerminal(s, k) ==
    /\ pc[s][k] = "terminal"
    /\ terminals' = [terminals EXCEPT ![s] = @ + 1]
    /\ Unwind(s, k)
    /\ UNCHANGED << admission, lifecycle, control, pending, custody, workers,
                    accepting, sched, teardown >>

\* _worker_done: a cancel accepted during the pause drain takes effect here.
WorkerDone(s, k) ==
    /\ pc[s][k] = "retire"
    /\ workers' = workers \ { s }
    /\ IF state[s] = "paused" /\ s \in cancelReq
       THEN /\ state' = [state EXCEPT ![s] = "canceling"]
            /\ pending' = Appended(s)
       ELSE UNCHANGED << state, pending >>
    /\ sched' = Notified
    /\ pc' = [pc EXCEPT ![s][k] = "idle"]
    /\ aim' = [aim EXCEPT ![s][k] = "none"]
    /\ UNCHANGED job
    /\ UNCHANGED << admission, started, result, unrun, control, custody, accepting,
                    terminals, teardown >>

-----------------------------------------------------------------------------
Submission(s) == Submit(s) \/ Commit(s) \/ AdmitRaises(s) \/ SubmitReturns(s)

Control(s) == pause(s) \/ resume(s) \/ cancel(s) \/ close(s)

Teardown ==
    \/ shutdown
    \/ \E s \in Sessions : ShutdownCancel(s)
    \/ ShutdownWaits
    \/ ShutdownCollects
    \/ ShutdownReturns

Scheduler == _schedule \/ SchedulerRests

Worker(s, k) ==
    \/ WorkerStarts(s, k)
    \/ Acquire(s, k) \/ AcquireCanceled(s, k) \/ AcquireFails(s, k)
    \/ Register(s, k) \/ Begin(s, k) \/ OpenFails(s, k)
    \/ Core(s, k) \/ Invoke(s, k)
    \/ Pop(s, k) \/ Unlock(s, k) \/ Unreserve(s, k)
    \/ Settle(s, k) \/ PublishResult(s, k) \/ EmitTerminal(s, k)
    \/ WorkerDone(s, k)

Next ==
    \/ \E s \in Sessions : Submission(s) \/ Control(s)
    \/ Teardown
    \/ Scheduler
    \/ \E s \in Sessions, k \in Slots : Worker(s, k)

Spec == Init /\ [][Next]_vars

(***************************************************************************)
(* Fairness.  The operating system runs every thread that can take a step: *)
(* the scheduler, a submit or shutdown call that is under way, and every   *)
(* worker, whose workflow returns or reaches a checkpoint.  Nothing makes  *)
(* a caller call, the provider fail, or a deadline pass.                   *)
(***************************************************************************)
WorkerProgress(s, k) == Worker(s, k) /\ ~ AcquireFails(s, k)

Fairness ==
    /\ WF_vars(Scheduler)
    /\ \A s \in Sessions :
          WF_vars(Commit(s) \/ AdmitRaises(s) \/ SubmitReturns(s))
    /\ WF_vars((\E s \in Sessions : ShutdownCancel(s)) \/ ShutdownWaits)
    /\ \A s \in Sessions, k \in Slots : WF_vars(WorkerProgress(s, k))

FairSpec == Spec /\ Fairness

-----------------------------------------------------------------------------
(***************************************************************************)
(* Properties.                                                             *)
(***************************************************************************)
Live(s) == \E k \in Slots : pc[s][k] # "idle"

\* Two sessions that share a resource never run workflow code at the same time,
\* nor do two threads of one session: _reserved and the leases keep them apart.
Exclusive ==
    \A s, t \in Sessions : \A j, k \in Slots :
        pc[s][j] = "invoke" /\ pc[t][k] = "invoke" /\ <<s, j>> # <<t, k>>
            => s # t /\ Res[s] \cap Res[t] = {}

\* Nothing is held for good: a resource that is locked, or reserved by the
\* scheduler, belongs to a session with a worker thread that will release it.
NoCustodyLeak ==
    /\ \A r \in Resources : owner[r] # Free => Live(owner[r])
    /\ \A r \in reserved : \E s \in Sessions : r \in Res[s] /\ Live(s)

\* PAUSED is visible only after the session's custody is released.
PausedHoldsNothing ==
    \A s \in Sessions : state[s] = "paused" =>
        s \notin leases /\ \A r \in Resources : owner[r] # s

\* Exactly-one terminal emission, and only for a session whose final result is
\* published, whatever worker threads race for the session.
OneTerminal ==
    \A s \in Sessions :
        /\ terminals[s] <= 1
        /\ terminals[s] = 1 => result[s] # NoResult /\ state[s] \in { result[s], Absent }

\* No wakeup is lost: when the scheduler waits although an entry of _pending
\* could be launched, the submit call that committed it has still to notify; and
\* when entries wait, some thread is left that will notify it.
NoLostWakeup ==
    sched = "waiting" =>
        /\ Selected # {} => \E s \in Sessions : admission[s] = "committed"
        /\ Queued # {} => \E s \in Sessions : admission[s] = "committed" \/ Live(s)

\* What complete=True of ShutdownResult says about sessions is a fact that lasts:
\* all are settled, none can enter any more, and nothing is queued or reserved.
ShutdownSettles ==
    shut = "returned" /\ report.complete =>
        Unfinished = {} /\ Admitting = {} /\ Queued = {} /\ reserved = {}

\* A terminal record changes no more, except that close removes it, and a
\* published result is never replaced.
TerminalIsFinal ==
    [][\A s \in Sessions : is_terminal(state[s]) =>
            /\ state'[s] \in { state[s], Absent }
            /\ result[s] # NoResult => result'[s] = result[s]]_vars

\* Every committed session is settled in the end, or waits paused for a resume,
\* unless another one is paused and resumed for ever: no wakeup of the scheduler
\* is lost and no thread waits for another forever.
CommittedSettles ==
    \A s \in Sessions :
        \/ state[s] = "pending" ~> (state[s] \in { "paused", Absent } \/ _is_settled(s))
        \/ \E t \in Sessions \ {s} : []<>(state[t] = "paused") /\ []<>(state[t] # "paused")

\* A session on the deque of a scheduler that is no more.
Stranded(s) == sched = "exited" /\ s \in Queued

\* An accepted cancel settles the session, also when it puts the session back on
\* a deque that a worker already has, unless shutdown has ended the scheduler
\* that it needs.
CancelSettles ==
    \A s \in Sessions :
        (s \in cancelReq /\ state[s] # Absent)
            ~> (state[s] = Absent \/ _is_settled(s) \/ Stranded(s))

-----------------------------------------------------------------------------
(***************************************************************************)
(* Promises of the documentation that the code does not keep in every      *)
(* behaviour.  The README describes the behaviours that break them.        *)
(***************************************************************************)
\* An accepted cancel is never taken back: the flag it set stays up for as long
\* as the session is live (with prompt resumes).
CancelIsKept == [][cancelReq \subseteq cancelReq']_vars

\* complete=True and custody_released=True of ShutdownResult are facts: every
\* admitted session is settled and no resource is locked or reserved.
ShutdownTruthful ==
    shut = "returned" /\ report.complete =>
        /\ Unfinished = {}
        /\ reserved = {}
        /\ \A r \in Resources : owner[r] = Free

\* A session whose invocation ran is never reported as unrun.
UnrunNeverStarted == unrun \cap started = {}
=============================================================================
