-------------------------- MODULE DispatcherProofs --------------------------
(***************************************************************************)
(* Proofs about the dispatcher, for any finite set of sessions and any     *)
(* resources, controls and faults.                                         *)
(***************************************************************************)
EXTENDS Dispatcher, FiniteSetTheorems, TLAPS

\* Counting a set of sessions gives a natural number.
LEMMA CountIsNat ==
    ASSUME NEW S \in SUBSET Sessions
    PROVE  Cardinality(S) \in Nat
<1>1. IsFiniteSet(S)
    BY FS_Subset, DispatcherAssumption
<1>2. QED
    BY <1>1, FS_CardinalityType

\* Appending keeps the deque well formed and adds one entry.
LEMMA AppendedFacts ==
    ASSUME TypeOK, NEW s \in Sessions
    PROVE  /\ Appended(s) \in [Sessions -> Nat]
           /\ \A t \in Sessions : t # s => Appended(s)[t] = pending[t]
<1>1. Queued \in SUBSET Sessions
    BY DEF Queued
<1>2. Cardinality(Queued) \in Nat
    BY <1>1, CountIsNat
<1>3. QED
    BY <1>2 DEF Appended, TypeOK

\* Removing the selected entries keeps the deque well formed and adds nothing.
LEMMA RemainingFacts ==
    ASSUME TypeOK, NEW kept \in SUBSET Sessions
    PROVE  /\ Remaining(kept) \in [Sessions -> Nat]
           /\ \A s \in Sessions : Remaining(kept)[s] > 0 => s \in kept
<1>1. ASSUME NEW s \in Sessions
      PROVE  Cardinality({ t \in kept : pending[t] <= pending[s] }) \in Nat
    BY CountIsNat
<1>2. QED
    BY <1>1 DEF Remaining

\* The slot that a launch takes is one of the session's idle slots.
LEMMA FreshChoice ==
    ASSUME NEW s \in Sessions, Fresh(s) # {}
    PROVE  (CHOOSE k \in Fresh(s) : TRUE) \in Fresh(s)
    OBVIOUS

-----------------------------------------------------------------------------
(***************************************************************************)
(* The runner's invariant.  At most one thread of a session is past its    *)
(* settle, the record is terminal from there on, and the result and the    *)
(* Terminal event follow in that order.                                    *)
(***************************************************************************)
Finishing == { "publish", "terminal" }

NotCommitted(s) ==
    admission[s] \in { "new", "preparing" } =>
        /\ state[s] = Absent /\ result[s] = NoResult /\ terminals[s] = 0 /\ pending[s] = 0
        /\ \A k \in Slots : pc[s][k] = "idle"

Publishing(s) ==
    \A k \in Slots : pc[s][k] = "publish" =>
        aim[s][k] = state[s] /\ state[s] \in TERMINAL_STATES /\ result[s] = NoResult

Emitting(s) ==
    \A k \in Slots : pc[s][k] = "terminal" => result[s] # NoResult /\ terminals[s] = 0

OneFinisher(s) ==
    \A j, k \in Slots : pc[s][j] \in Finishing /\ pc[s][k] \in Finishing => j = k

Unsettled(s) ==
    state[s] \in SessionState \ TERMINAL_STATES =>
        /\ result[s] = NoResult /\ terminals[s] = 0
        /\ \A k \in Slots : pc[s][k] \notin Finishing

Published(s) == result[s] # NoResult => state[s] \in { result[s], Absent }

Emitted(s) ==
    /\ terminals[s] \in { 0, 1 }
    /\ terminals[s] = 1 =>
         result[s] # NoResult /\ \A k \in Slots : pc[s][k] \notin Finishing

RunnerInv ==
    \A s \in Sessions :
        /\ NotCommitted(s) /\ Publishing(s) /\ Emitting(s) /\ OneFinisher(s)
        /\ Unsettled(s) /\ Published(s) /\ Emitted(s)

-----------------------------------------------------------------------------
\* The type invariant holds initially.
LEMMA InitType == Init => TypeOK
    BY DEF Init, TypeOK, AdmissionStep, SessionState, Absent, NoResult, Free,
           Step, Job, Aim

\* A submit call keeps the types.
LEMMA SubmissionType ==
    ASSUME TypeOK, NEW s \in Sessions, Submission(s)
    PROVE  TypeOK'
<1> USE DEF TypeOK, lifecycle, control, custody, threads, teardown
<1>1. CASE Submit(s)
    BY <1>1 DEF Submit, AdmissionStep
<1>2. CASE Commit(s)
    BY <1>2, AppendedFacts DEF Commit, AdmissionStep, SessionState
<1>3. CASE AdmitRaises(s)
    BY <1>3 DEF AdmitRaises, AdmissionStep
<1>4. CASE SubmitReturns(s)
    BY <1>4 DEF SubmitReturns, AdmissionStep, Notified
<1>5. QED
    BY <1>1, <1>2, <1>3, <1>4 DEF Submission

\* cancel's body keeps the types.
LEMMA CancelingType ==
    ASSUME TypeOK, NEW s \in Sessions, Canceling(s), UNCHANGED << shut, report >>,
           shutTodo' \subseteq Sessions
    PROVE  TypeOK'
<1>1. state' \in [Sessions -> SessionState \cup { Absent }]
    BY DEF TypeOK, Canceling, SessionState
<1>2. pending' \in [Sessions -> Nat]
    BY AppendedFacts DEF TypeOK, Canceling
<1>3. sched' \in { "scanning", "waiting", "exited" }
    BY DEF TypeOK, Canceling, Notified
<1>4. QED
    BY <1>1, <1>2, <1>3 DEF TypeOK, Canceling, custody, threads

\* A control call keeps the types.
LEMMA ControlType ==
    ASSUME TypeOK, NEW s \in Sessions, Control(s)
    PROVE  TypeOK'
<1> USE DEF TypeOK, lifecycle, control, custody, threads, teardown
<1>1. CASE pause(s)
    BY <1>1 DEF pause, Notified, SessionState
<1>2. CASE resume(s)
    BY <1>2, AppendedFacts DEF resume, Notified, SessionState
<1>3. CASE cancel(s)
    BY <1>3, CancelingType DEF cancel
<1>4. CASE close(s)
    BY <1>4 DEF close
<1>5. QED
    BY <1>1, <1>2, <1>3, <1>4 DEF Control

\* Teardown keeps the types.
LEMMA TeardownType ==
    ASSUME TypeOK, Teardown
    PROVE  TypeOK'
<1> USE DEF TypeOK, lifecycle, control, custody, threads, teardown
<1>1. CASE shutdown
    BY <1>1 DEF shutdown, Notified
<1>2. ASSUME NEW s \in Sessions, ShutdownCancel(s)
      PROVE  TypeOK'
    <2>1. shutTodo' \subseteq Sessions /\ UNCHANGED << shut, report >>
        BY <1>2 DEF ShutdownCancel
    <2>2. CASE CancelAccepted(state[s])
        BY <1>2, <2>1, <2>2, CancelingType DEF ShutdownCancel
    <2>3. CASE ~ CancelAccepted(state[s])
        BY <1>2, <2>1, <2>3 DEF ShutdownCancel
    <2>4. QED
        BY <2>2, <2>3
<1>3. CASE ShutdownWaits
    BY <1>3 DEF ShutdownWaits
<1>4. CASE ShutdownCollects
    BY <1>4 DEF ShutdownCollects
<1>5. CASE ShutdownReturns
    BY <1>5 DEF ShutdownReturns
<1>6. QED
    BY <1>1, <1>2, <1>3, <1>4, <1>5 DEF Teardown

\* The scheduler keeps the types.
LEMMA SchedulerType ==
    ASSUME TypeOK, Scheduler
    PROVE  TypeOK'
<1> USE DEF TypeOK, lifecycle, control, custody, threads, teardown
<1>1. CASE _schedule
    <2>1. reserved' \subseteq Resources
        BY <1>1, DispatcherAssumption DEF _schedule, Selected, Queued
    <2>2. pending' \in [Sessions -> Nat]
        BY <1>1, RemainingFacts DEF _schedule, Selected, Queued
    <2>3. pc' \in [Sessions -> [Slots -> Step]]
        <3>1. ASSUME NEW s \in Sessions, s \in Launched
              PROVE  (CHOOSE k \in Fresh(s) : TRUE) \in Slots
            BY <1>1, <3>1, FreshChoice DEF _schedule, Fresh
        <3>2. QED
            BY <1>1, <3>1 DEF _schedule, Step
    <2>4. workers' \subseteq Sessions
        BY <1>1 DEF _schedule, Launched, Selected, Queued
    <2>5. QED
        BY <1>1, <2>1, <2>2, <2>3, <2>4 DEF _schedule
<1>2. CASE SchedulerRests
    BY <1>2 DEF SchedulerRests
<1>3. QED
    BY <1>1, <1>2 DEF Scheduler

\* The transition table: its edges lead to states, and what an outcome may
\* settle is PAUSED from PAUSING, or a terminal status.
LEMMA LegalFacts ==
    ASSUME TypeOK, NEW s \in Sessions, state[s] # Absent
    PROVE  /\ \A b : Legal(state[s], b) => b \in SessionState
           /\ Legal(state[s], "running") => state[s] = "pending"
           /\ Legal(state[s], "paused") => state[s] = "pausing"
           /\ \A b : Legal(state[s], b) => state[s] \notin TERMINAL_STATES
<1>1. state[s] \in SessionState
    BY DEF TypeOK
<1>2. QED
    BY <1>1 DEF Legal, LEGAL_TRANSITIONS, SessionState, TERMINAL_STATES

\* Updating one thread in a table of threads keeps the table's type.
LEMMA TableUpdate ==
    ASSUME NEW V, NEW f \in [Sessions -> [Slots -> V]],
           NEW s \in Sessions, NEW k \in Slots, NEW v \in V
    PROVE  [f EXCEPT ![s][k] = v] \in [Sessions -> [Slots -> V]]
<1>1. [f[s] EXCEPT ![k] = v] \in [Slots -> V]
    OBVIOUS
<1>2. QED
    BY <1>1

\* Reading a table of threads after one thread was updated.
LEMMA TableRead ==
    ASSUME NEW V, NEW f \in [Sessions -> [Slots -> V]],
           NEW s \in Sessions, NEW k \in Slots, NEW v,
           NEW t \in Sessions, NEW j \in Slots
    PROVE  [f EXCEPT ![s][k] = v][t][j] = IF t = s /\ j = k THEN v ELSE f[t][j]
<1>1. CASE t # s
    BY <1>1
<1>2. CASE t = s
    <2>1. [f EXCEPT ![s][k] = v][s] = [f[s] EXCEPT ![k] = v]
        OBVIOUS
    <2>2. [f[s] EXCEPT ![k] = v][j] = IF j = k THEN v ELSE f[s][j]
        OBVIOUS
    <2>3. QED
        BY <1>2, <2>1, <2>2
<1>3. QED
    BY <1>1, <1>2

ThreadsOK ==
    /\ pc \in [Sessions -> [Slots -> Step]]
    /\ job \in [Sessions -> [Slots -> Job]]
    /\ aim \in [Sessions -> [Slots -> Aim]]

\* The moves of a thread keep the types of the thread tables.
LEMMA MovesType ==
    ASSUME TypeOK, NEW s \in Sessions, NEW k \in Slots
    PROVE  /\ \A step \in Step : Goto(s, k, step) => ThreadsOK'
           /\ \A what \in Job : RunCore(s, k, what) => ThreadsOK'
           /\ \A outcome \in Aim : Ends(s, k, outcome) => ThreadsOK'
           /\ Unwind(s, k) => ThreadsOK'
<1> USE TableUpdate DEF TypeOK, ThreadsOK
<1>1. ASSUME NEW step \in Step, Goto(s, k, step)
      PROVE  ThreadsOK'
    BY <1>1 DEF Goto
<1>2. ASSUME NEW what \in Job, RunCore(s, k, what)
      PROVE  ThreadsOK'
    <2>1. "core" \in Step
        BY DEF Step
    <2>2. QED
        BY <1>2, <2>1 DEF RunCore
<1>3. ASSUME NEW outcome \in Aim, Ends(s, k, outcome)
      PROVE  ThreadsOK'
    <2>1. "pop" \in Step
        BY DEF Step
    <2>2. QED
        BY <1>3, <2>1 DEF Ends
<1>4. ASSUME Unwind(s, k)
      PROVE  ThreadsOK'
    <2>1. "pop" \in Step /\ "retire" \in Aim /\ "none" \in Job
        BY DEF Step, Aim, Job
    <2>2. QED
        BY <1>4, <2>1 DEF Unwind
<1>5. QED
    BY <1>1, <1>2, <1>3, <1>4

\* Where the moves of a thread leave every thread.
LEMMA MoveReads ==
    ASSUME TypeOK, NEW s \in Sessions, NEW k \in Slots,
           NEW t \in Sessions, NEW j \in Slots
    PROVE  /\ \A step : Goto(s, k, step) =>
                /\ pc'[t][j] = IF t = s /\ j = k THEN step ELSE pc[t][j]
                /\ job'[t][j] = job[t][j] /\ aim'[t][j] = aim[t][j]
           /\ \A what : RunCore(s, k, what) =>
                /\ pc'[t][j] = IF t = s /\ j = k THEN "core" ELSE pc[t][j]
                /\ job'[t][j] = IF t = s /\ j = k THEN what ELSE job[t][j]
                /\ aim'[t][j] = aim[t][j]
           /\ \A outcome : Ends(s, k, outcome) =>
                /\ pc'[t][j] = IF t = s /\ j = k THEN "pop" ELSE pc[t][j]
                /\ job'[t][j] = job[t][j]
                /\ aim'[t][j] = IF t = s /\ j = k THEN outcome ELSE aim[t][j]
           /\ Unwind(s, k) =>
                /\ pc'[t][j] = IF t = s /\ j = k THEN "pop" ELSE pc[t][j]
                /\ job'[t][j] = IF t = s /\ j = k THEN "none" ELSE job[t][j]
                /\ aim'[t][j] = IF t = s /\ j = k THEN "retire" ELSE aim[t][j]
<1> USE TableRead DEF TypeOK
<1>1. \A step : Goto(s, k, step) =>
        /\ pc'[t][j] = IF t = s /\ j = k THEN step ELSE pc[t][j]
        /\ job'[t][j] = job[t][j] /\ aim'[t][j] = aim[t][j]
    BY DEF Goto
<1>2. \A what : RunCore(s, k, what) =>
        /\ pc'[t][j] = IF t = s /\ j = k THEN "core" ELSE pc[t][j]
        /\ job'[t][j] = IF t = s /\ j = k THEN what ELSE job[t][j]
        /\ aim'[t][j] = aim[t][j]
    BY DEF RunCore
<1>3. \A outcome : Ends(s, k, outcome) =>
        /\ pc'[t][j] = IF t = s /\ j = k THEN "pop" ELSE pc[t][j]
        /\ job'[t][j] = job[t][j]
        /\ aim'[t][j] = IF t = s /\ j = k THEN outcome ELSE aim[t][j]
    BY DEF Ends
<1>4. Unwind(s, k) =>
        /\ pc'[t][j] = IF t = s /\ j = k THEN "pop" ELSE pc[t][j]
        /\ job'[t][j] = IF t = s /\ j = k THEN "none" ELSE job[t][j]
        /\ aim'[t][j] = IF t = s /\ j = k THEN "retire" ELSE aim[t][j]
    BY DEF Unwind
<1>5. QED
    BY <1>1, <1>2, <1>3, <1>4

\* A worker thread keeps the types of the thread tables.
LEMMA WorkerMovesType ==
    ASSUME TypeOK, NEW s \in Sessions, NEW k \in Slots, Worker(s, k)
    PROVE  ThreadsOK'
<1> USE MovesType, DispatcherAssumption DEF Step, Job, Aim
<1>1. CASE WorkerStarts(s, k)
    BY <1>1 DEF WorkerStarts
<1>2. CASE Acquire(s, k)
    BY <1>2 DEF Acquire
<1>3. CASE AcquireCanceled(s, k)
    BY <1>3 DEF AcquireCanceled
<1>4. CASE AcquireFails(s, k)
    BY <1>4 DEF AcquireFails
<1>5. CASE Register(s, k)
    BY <1>5 DEF Register
<1>6. CASE Begin(s, k)
    BY <1>6 DEF Begin
<1>7. CASE OpenFails(s, k)
    BY <1>7 DEF OpenFails
<1>8. CASE Core(s, k)
    BY <1>8 DEF Core, TERMINAL_STATES
<1>9. CASE Invoke(s, k)
    BY <1>9 DEF Invoke, TERMINAL_STATES
<1>10. CASE Pop(s, k)
    BY <1>10 DEF Pop
<1>11. CASE Unlock(s, k)
    BY <1>11 DEF Unlock, AfterRelease
<1>12. CASE Unreserve(s, k)
    BY <1>12 DEF Unreserve, AfterRelease
<1>13. CASE Settle(s, k)
    BY <1>13 DEF Settle
<1>14. CASE PublishResult(s, k)
    BY <1>14 DEF PublishResult
<1>15. CASE EmitTerminal(s, k)
    BY <1>15 DEF EmitTerminal
<1>16. CASE WorkerDone(s, k)
    BY <1>16, TableUpdate DEF WorkerDone, TypeOK, ThreadsOK
<1>17. QED
    BY <1>1, <1>2, <1>3, <1>4, <1>5, <1>6, <1>7, <1>8, <1>9, <1>10, <1>11, <1>12, <1>13,
       <1>14, <1>15, <1>16 DEF Worker

\* A transition of one record keeps the type of the table.
LEMMA OneRecordMoves ==
    ASSUME TypeOK, NEW s \in Sessions, NEW next \in SessionState,
           state' = state \/ state' = [state EXCEPT ![s] = next]
    PROVE  state' \in [Sessions -> SessionState \cup { Absent }]
<1>1. state \in [Sessions -> SessionState \cup { Absent }]
    BY DEF TypeOK
<1>2. QED
    BY <1>1

\* A worker thread keeps the types.
LEMMA WorkerType ==
    ASSUME TypeOK, RunnerInv, NEW s \in Sessions, NEW k \in Slots, Worker(s, k)
    PROVE  TypeOK'
<1> USE WorkerMovesType, DispatcherAssumption
        DEF TypeOK, ThreadsOK, lifecycle, control, custody, threads, teardown
<1>1. CASE WorkerStarts(s, k)
    BY <1>1 DEF WorkerStarts
<1>2. CASE Acquire(s, k)
    BY <1>2 DEF Acquire
<1>3. CASE AcquireCanceled(s, k)
    BY <1>3 DEF AcquireCanceled
<1>4. CASE AcquireFails(s, k)
    BY <1>4 DEF AcquireFails
<1>5. CASE Register(s, k)
    BY <1>5 DEF Register
<1>6. CASE Begin(s, k)
    <2>1. state' \in [Sessions -> SessionState \cup { Absent }]
        BY <1>6 DEF Begin, SessionState
    <2>2. sched' \in { "scanning", "waiting", "exited" }
        BY <1>6 DEF Begin, Notified
    <2>3. started' \subseteq Sessions
        BY <1>6 DEF Begin
    <2>4. QED
        BY <1>6, <2>1, <2>2, <2>3 DEF Begin
<1>7. CASE OpenFails(s, k)
    BY <1>7 DEF OpenFails
<1>8. CASE Core(s, k)
    BY <1>8 DEF Core
<1>9. CASE Invoke(s, k)
    BY <1>9 DEF Invoke
<1>10. CASE Pop(s, k)
    BY <1>10 DEF Pop
<1>11. CASE Unlock(s, k)
    BY <1>11 DEF Unlock, Free, Notified
<1>12. CASE Unreserve(s, k)
    BY <1>12 DEF Unreserve, Notified
<1>13. CASE Settle(s, k)
    <2>1. state[s] # Absent /\ Legal(state[s], aim[s][k]) => aim[s][k] \in SessionState
        BY LegalFacts
    <2>2. state' \in [Sessions -> SessionState \cup { Absent }]
        BY <1>13, <2>1 DEF Settle
    <2>3. result' \in [Sessions -> TERMINAL_STATES \cup { NoResult }]
        BY <1>13 DEF Settle
    <2>4. sched' \in { "scanning", "waiting", "exited" }
        BY <1>13 DEF Settle, Notified
    <2>5. QED
        BY <1>13, <2>2, <2>3, <2>4 DEF Settle
<1>14. CASE PublishResult(s, k)
    BY <1>14 DEF PublishResult, Notified, RunnerInv, Publishing
<1>15. CASE EmitTerminal(s, k)
    BY <1>15 DEF EmitTerminal
<1>16. CASE WorkerDone(s, k)
    <2>0. "canceling" \in SessionState
        BY DEF SessionState
    <2>1. state' \in [Sessions -> SessionState \cup { Absent }]
        <3>1. state' = state \/ state' = [state EXCEPT ![s] = "canceling"]
            BY ONLY <1>16, Zenon DEF WorkerDone
        <3>2. QED
            BY <2>0, <3>1, OneRecordMoves
    <2>2. pending' \in [Sessions -> Nat]
        BY <1>16, AppendedFacts DEF WorkerDone
    <2>3. sched' \in { "scanning", "waiting", "exited" }
        BY <1>16 DEF WorkerDone, Notified
    <2>4. QED
        BY <1>16, <2>1, <2>2, <2>3 DEF WorkerDone
<1>17. QED
    BY <1>1, <1>2, <1>3, <1>4, <1>5, <1>6, <1>7, <1>8, <1>9, <1>10, <1>11, <1>12, <1>13,
       <1>14, <1>15, <1>16 DEF Worker

-----------------------------------------------------------------------------
(***************************************************************************)
(* The runner's invariant is inductive together with the types.            *)
(***************************************************************************)
\* A move of one thread short of its settle, which leaves the record alone,
\* keeps the runner's invariant.
LEMMA QuietMove ==
    ASSUME RunnerInv, NEW s \in Sessions, NEW k \in Slots,
           UNCHANGED << admission, state, result, terminals, pending >>,
           pc[s][k] # "idle", pc'[s][k] \notin Finishing,
           \A t \in Sessions, j \in Slots :
               t # s \/ j # k => pc'[t][j] = pc[t][j] /\ aim'[t][j] = aim[t][j]
    PROVE  RunnerInv'
<1> SUFFICES ASSUME NEW t \in Sessions
             PROVE  /\ NotCommitted(t)' /\ Publishing(t)' /\ Emitting(t)' /\ OneFinisher(t)'
                    /\ Unsettled(t)' /\ Published(t)' /\ Emitted(t)'
    BY DEF RunnerInv
<1>0. /\ NotCommitted(t) /\ Publishing(t) /\ Emitting(t) /\ OneFinisher(t)
      /\ Unsettled(t) /\ Published(t) /\ Emitted(t)
    BY DEF RunnerInv
<1>1. /\ admission'[t] = admission[t] /\ state'[t] = state[t] /\ result'[t] = result[t]
      /\ terminals'[t] = terminals[t] /\ pending'[t] = pending[t]
    OBVIOUS
<1>2. \A j \in Slots : pc'[t][j] \in Finishing => pc'[t][j] = pc[t][j] /\ aim'[t][j] = aim[t][j]
    OBVIOUS
<1>3. NotCommitted(t)'
    BY <1>0, <1>1 DEF NotCommitted
<1>4. Publishing(t)' /\ Emitting(t)' /\ OneFinisher(t)'
    BY <1>0, <1>1, <1>2 DEF Publishing, Emitting, OneFinisher, Finishing
<1>5. Unsettled(t)' /\ Published(t)' /\ Emitted(t)'
    BY <1>0, <1>1, <1>2 DEF Unsettled, Published, Emitted
<1>6. QED
    BY <1>3, <1>4, <1>5

\* The steps of a worker that settle nothing keep the runner's invariant.
LEMMA WorkerQuiet ==
    ASSUME TypeOK, RunnerInv, NEW s \in Sessions, NEW k \in Slots,
           \/ WorkerStarts(s, k) \/ Acquire(s, k) \/ AcquireCanceled(s, k) \/ AcquireFails(s, k)
           \/ Register(s, k) \/ OpenFails(s, k) \/ Core(s, k) \/ Invoke(s, k)
           \/ Pop(s, k) \/ Unlock(s, k) \/ Unreserve(s, k)
    PROVE  RunnerInv'
<1> DEFINE Moved ==
        /\ UNCHANGED << admission, state, result, terminals, pending >>
        /\ pc[s][k] # "idle" /\ pc'[s][k] \notin Finishing
        /\ \A t \in Sessions, j \in Slots :
               t # s \/ j # k => pc'[t][j] = pc[t][j] /\ aim'[t][j] = aim[t][j]
<1> USE DEF Finishing, lifecycle, control, custody, threads, teardown
<1>1. CASE WorkerStarts(s, k)
    <2>1. Moved
        BY <1>1, MoveReads DEF WorkerStarts
    <2>2. QED
        BY <2>1, QuietMove
<1>2. CASE Acquire(s, k)
    <2>1. Moved
        BY <1>2, MoveReads DEF Acquire
    <2>2. QED
        BY <2>1, QuietMove
<1>3. CASE AcquireCanceled(s, k)
    <2>1. Moved
        BY <1>3, MoveReads DEF AcquireCanceled
    <2>2. QED
        BY <2>1, QuietMove
<1>4. CASE AcquireFails(s, k)
    <2>1. Moved
        BY <1>4, MoveReads DEF AcquireFails
    <2>2. QED
        BY <2>1, QuietMove
<1>5. CASE Register(s, k)
    <2>1. Moved
        BY <1>5, MoveReads DEF Register
    <2>2. QED
        BY <2>1, QuietMove
<1>6. CASE OpenFails(s, k)
    <2>1. Moved
        BY <1>6, MoveReads DEF OpenFails
    <2>2. QED
        BY <2>1, QuietMove
<1>7. CASE Core(s, k)
    <2>1. Moved
        BY <1>7, MoveReads DEF Core
    <2>2. QED
        BY <2>1, QuietMove
<1>8. CASE Invoke(s, k)
    <2>1. Moved
        BY <1>8, MoveReads DEF Invoke
    <2>2. QED
        BY <2>1, QuietMove
<1>9. CASE Pop(s, k)
    <2>1. Moved
        BY <1>9, MoveReads DEF Pop
    <2>2. QED
        BY <2>1, QuietMove
<1>10. CASE Unlock(s, k)
    <2>1. Moved
        BY <1>10, MoveReads DEF Unlock, AfterRelease
    <2>2. QED
        BY <2>1, QuietMove
<1>11. CASE Unreserve(s, k)
    <2>1. Moved
        BY <1>11, MoveReads DEF Unreserve, AfterRelease
    <2>2. QED
        BY <2>1, QuietMove
<1>12. QED
    BY <1>1, <1>2, <1>3, <1>4, <1>5, <1>6, <1>7, <1>8, <1>9, <1>10, <1>11

\* A worker's step keeps the runner's invariant.
LEMMA WorkerRunner ==
    ASSUME TypeOK, RunnerInv, NEW s \in Sessions, NEW k \in Slots, Worker(s, k)
    PROVE  RunnerInv'
<1> USE DEF RunnerInv, NotCommitted, Publishing, Emitting, OneFinisher, Unsettled, Published,
            Emitted, Finishing, lifecycle, control, custody, threads, teardown
<1>1. CASE WorkerStarts(s, k)
    BY <1>1, WorkerQuiet
<1>2. CASE Acquire(s, k)
    BY <1>2, WorkerQuiet
<1>3. CASE AcquireCanceled(s, k)
    BY <1>3, WorkerQuiet
<1>4. CASE AcquireFails(s, k)
    BY <1>4, WorkerQuiet
<1>5. CASE Register(s, k)
    BY <1>5, WorkerQuiet
<1>6. CASE Begin(s, k)
    <2>1. /\ UNCHANGED << admission, result, terminals, pending >>
          /\ pc[s][k] = "open"
        BY <1>6 DEF Begin
    <2>2. ASSUME NEW t \in Sessions, NEW j \in Slots
          PROVE  /\ pc'[t][j] = IF t = s /\ j = k THEN pc'[s][k] ELSE pc[t][j]
                 /\ pc'[s][k] \in { "core", "pop" }
                 /\ pc'[t][j] \in Finishing => aim'[t][j] = aim[t][j]
        BY <1>6, MoveReads DEF Begin
    <2>3. \/ state' = state
          \/ state[s] = "pending" /\ state' = [state EXCEPT ![s] = "running"]
        BY <1>6, LegalFacts DEF Begin, TypeOK, SessionState, Absent
    <2>4. CASE state' = state
        BY <2>1, <2>2, <2>4
    <2>5. CASE state[s] = "pending" /\ state' = [state EXCEPT ![s] = "running"]
        <3>1. ASSUME NEW t \in Sessions, t # s
              PROVE  /\ NotCommitted(t)' /\ Publishing(t)' /\ Emitting(t)'
                     /\ OneFinisher(t)' /\ Unsettled(t)' /\ Published(t)' /\ Emitted(t)'
            BY <2>1, <2>2, <2>5, <3>1 DEF TypeOK
        <3>2. state'[s] = "running" /\ admission[s] \notin { "new", "preparing" }
            BY <2>1, <2>5 DEF TypeOK
        <3>3. /\ result[s] = NoResult /\ terminals[s] = 0
              /\ \A j \in Slots : pc[s][j] \notin Finishing
            BY <2>5 DEF SessionState, TERMINAL_STATES
        <3>4. \A j \in Slots : pc'[s][j] \notin Finishing
            BY <2>2, <3>3
        <3>5. /\ NotCommitted(s)' /\ Publishing(s)' /\ Emitting(s)'
              /\ OneFinisher(s)' /\ Unsettled(s)' /\ Published(s)' /\ Emitted(s)'
            BY <2>1, <3>2, <3>3, <3>4
        <3>6. QED
            BY <3>1, <3>5
    <2>6. QED
        BY <2>3, <2>4, <2>5
<1>7. CASE OpenFails(s, k)
    BY <1>7, WorkerQuiet
<1>8. CASE Core(s, k)
    BY <1>8, WorkerQuiet
<1>9. CASE Invoke(s, k)
    BY <1>9, WorkerQuiet
<1>10. CASE Pop(s, k)
    BY <1>10, WorkerQuiet
<1>11. CASE Unlock(s, k)
    BY <1>11, WorkerQuiet
<1>12. CASE Unreserve(s, k)
    BY <1>12, WorkerQuiet
<1>13. CASE Settle(s, k)
    <2>1. CASE ~ (state[s] # Absent /\ Legal(state[s], aim[s][k]))
        <3>1. /\ UNCHANGED << admission, state, result, terminals, pending >>
              /\ pc[s][k] # "idle" /\ pc'[s][k] \notin Finishing
              /\ \A t \in Sessions, j \in Slots :
                    t # s \/ j # k => pc'[t][j] = pc[t][j] /\ aim'[t][j] = aim[t][j]
            BY <1>13, <2>1, MoveReads DEF Settle
        <3>2. QED
            BY <3>1, QuietMove
    <2>2. CASE state[s] # Absent /\ Legal(state[s], aim[s][k])
        <3>1. /\ state' = [state EXCEPT ![s] = aim[s][k]]
              /\ result' = [result EXCEPT ![s] = NoResult]
              /\ UNCHANGED << admission, terminals, pending >>
            BY <1>13, <2>2 DEF Settle
        <3>2. /\ state[s] \in SessionState \ TERMINAL_STATES
              /\ aim[s][k] \in SessionState
            BY <2>2, LegalFacts DEF TypeOK
        <3>3. /\ result[s] = NoResult /\ terminals[s] = 0
              /\ \A j \in Slots : pc[s][j] \notin Finishing
            BY <3>2
        <3>4. CASE aim[s][k] = "paused"
            <4>1. Unwind(s, k)
                BY <1>13, <2>2, <3>4 DEF Settle
            <4>2. ASSUME NEW t \in Sessions, t # s
                  PROVE  /\ NotCommitted(t)' /\ Publishing(t)' /\ Emitting(t)'
                         /\ OneFinisher(t)' /\ Unsettled(t)' /\ Published(t)' /\ Emitted(t)'
                BY <3>1, <4>1, <4>2, MoveReads DEF TypeOK
            <4>3. /\ state'[s] = "paused" /\ result'[s] = NoResult
                  /\ terminals'[s] = 0 /\ admission'[s] = admission[s]
                BY <3>1, <3>3, <3>4 DEF TypeOK
            <4>4. \A j \in Slots : pc'[s][j] \notin Finishing
                BY <3>3, <4>1, MoveReads
            <4>5. admission[s] \notin { "new", "preparing" }
                BY <2>2
            <4>6. /\ NotCommitted(s)' /\ Publishing(s)' /\ Emitting(s)'
                  /\ OneFinisher(s)' /\ Unsettled(s)' /\ Published(s)' /\ Emitted(s)'
                BY <4>3, <4>4, <4>5
            <4>7. QED
                BY <4>2, <4>6
        <3>5. CASE aim[s][k] # "paused"
            <4>1. Goto(s, k, "publish")
                BY <1>13, <2>2, <3>5 DEF Settle
            <4>2. aim[s][k] \in TERMINAL_STATES
                BY <3>2, <3>5 DEF TypeOK, Aim, SessionState, TERMINAL_STATES
            <4>3. ASSUME NEW t \in Sessions, t # s
                  PROVE  /\ NotCommitted(t)' /\ Publishing(t)' /\ Emitting(t)'
                         /\ OneFinisher(t)' /\ Unsettled(t)' /\ Published(t)' /\ Emitted(t)'
                BY <3>1, <4>1, <4>3, MoveReads DEF TypeOK
            <4>4. /\ state'[s] = aim[s][k] /\ result'[s] = NoResult
                  /\ terminals'[s] = 0 /\ admission'[s] = admission[s]
                BY <3>1, <3>3 DEF TypeOK
            <4>5. \A j \in Slots : /\ pc'[s][j] = IF j = k THEN "publish" ELSE pc[s][j]
                                   /\ aim'[s][j] = aim[s][j]
                BY <4>1, MoveReads
            <4>6. /\ NotCommitted(s)' /\ Publishing(s)' /\ Emitting(s)'
                  /\ OneFinisher(s)' /\ Unsettled(s)' /\ Published(s)' /\ Emitted(s)'
                BY <2>2, <3>2, <3>3, <4>2, <4>4, <4>5
            <4>7. QED
                BY <4>3, <4>6
        <3>6. QED
            BY <3>4, <3>5
    <2>3. QED
        BY <2>1, <2>2
<1>14. CASE PublishResult(s, k)
    BY <1>14, MoveReads DEF PublishResult, TypeOK, TERMINAL_STATES, NoResult
<1>15. CASE EmitTerminal(s, k)
    <2>1. /\ terminals' = [terminals EXCEPT ![s] = @ + 1]
          /\ Unwind(s, k)
          /\ UNCHANGED << admission, state, result, pending >>
        BY <1>15 DEF EmitTerminal
    <2>2. /\ pc[s][k] = "terminal" /\ result[s] # NoResult /\ terminals[s] = 0
          /\ \A j \in Slots : j # k => pc[s][j] \notin Finishing
        BY <1>15 DEF EmitTerminal
    <2>3. ASSUME NEW t \in Sessions, t # s
          PROVE  /\ NotCommitted(t)' /\ Publishing(t)' /\ Emitting(t)'
                 /\ OneFinisher(t)' /\ Unsettled(t)' /\ Published(t)' /\ Emitted(t)'
        BY <2>1, <2>3, MoveReads DEF TypeOK
    <2>4. terminals'[s] = 1
        BY <2>1, <2>2 DEF TypeOK
    <2>5. \A j \in Slots : /\ pc'[s][j] = IF j = k THEN "pop" ELSE pc[s][j]
                           /\ pc'[s][j] \notin Finishing
        BY <2>1, <2>2, MoveReads
    <2>6. state[s] \notin SessionState \ TERMINAL_STATES
        BY <2>2
    <2>7. admission[s] \notin { "new", "preparing" }
        BY <2>2
    <2>8. /\ NotCommitted(s)' /\ Publishing(s)' /\ Emitting(s)'
          /\ OneFinisher(s)' /\ Unsettled(s)' /\ Published(s)' /\ Emitted(s)'
        BY <2>1, <2>2, <2>4, <2>5, <2>6, <2>7
    <2>9. QED
        BY <2>3, <2>8
<1>16. CASE WorkerDone(s, k)
    BY <1>16, MoveReads, TableRead, AppendedFacts
       DEF WorkerDone, TypeOK, SessionState, TERMINAL_STATES, Absent
<1>17. QED
    BY <1>1, <1>2, <1>3, <1>4, <1>5, <1>6, <1>7, <1>8, <1>9, <1>10, <1>11, <1>12, <1>13,
       <1>14, <1>15, <1>16 DEF Worker

\* What a launch does to the threads of a session: at most one of them starts.
LEMMA LaunchReads ==
    ASSUME TypeOK, _schedule, NEW t \in Sessions
    PROVE  \/ pc'[t] = pc[t] /\ t \notin Launched
           \/ /\ t \in Launched
              /\ \E f \in Slots :
                    /\ pc[t][f] = "idle"
                    /\ \A j \in Slots : pc'[t][j] = IF j = f THEN "start" ELSE pc[t][j]
<1>1. CASE t \notin Launched
    BY <1>1 DEF _schedule
<1>2. CASE t \in Launched
    <2> DEFINE f == CHOOSE k \in Fresh(t) : TRUE
    <2>1. f \in Fresh(t)
        BY <1>2, FreshChoice DEF _schedule
    <2>2. pc'[t] = [pc[t] EXCEPT ![f] = "start"]
        BY <1>2 DEF _schedule
    <2>3. pc[t] \in [Slots -> Step]
        BY DEF TypeOK
    <2>4. f \in Slots /\ pc[t][f] = "idle"
        BY <2>1 DEF Fresh
    <2> HIDE DEF f
    <2>5. \A j \in Slots : pc'[t][j] = IF j = f THEN "start" ELSE pc[t][j]
        BY <2>2, <2>3, <2>4
    <2>6. QED
        BY <1>2, <2>4, <2>5
<1>3. QED
    BY <1>1, <1>2

\* Every other step keeps the runner's invariant.
LEMMA OthersRunner ==
    ASSUME TypeOK, RunnerInv,
           (\E s \in Sessions : Submission(s) \/ Control(s)) \/ Teardown \/ Scheduler
    PROVE  RunnerInv'
<1> USE DEF RunnerInv, NotCommitted, Publishing, Emitting, OneFinisher, Unsettled, Published,
            Emitted, Finishing, lifecycle, control, custody, threads, teardown
<1>1. ASSUME NEW s \in Sessions, Submit(s)
      PROVE  RunnerInv'
    BY <1>1 DEF Submit, TypeOK
<1>2. ASSUME NEW s \in Sessions, Commit(s)
      PROVE  RunnerInv'
    BY <1>2, AppendedFacts DEF Commit, TypeOK, SessionState, TERMINAL_STATES, Absent
<1>3. ASSUME NEW s \in Sessions, AdmitRaises(s)
      PROVE  RunnerInv'
    BY <1>3 DEF AdmitRaises, TypeOK
<1>4. ASSUME NEW s \in Sessions, SubmitReturns(s)
      PROVE  RunnerInv'
    BY <1>4 DEF SubmitReturns, TypeOK
<1>5. ASSUME NEW s \in Sessions, pause(s)
      PROVE  RunnerInv'
    BY <1>5 DEF pause, PauseAccepted, TypeOK, SessionState, TERMINAL_STATES, Absent
<1>6. ASSUME NEW s \in Sessions, resume(s)
      PROVE  RunnerInv'
    BY <1>6, AppendedFacts
       DEF resume, ResumeAccepted, TypeOK, SessionState, TERMINAL_STATES, Absent
<1>7. ASSUME NEW s \in Sessions, CancelAccepted(state[s]), Canceling(s)
      PROVE  RunnerInv'
    BY <1>7, AppendedFacts
       DEF Canceling, CancelAccepted, TypeOK, SessionState, TERMINAL_STATES, Absent
<1>8. ASSUME NEW s \in Sessions, close(s)
      PROVE  RunnerInv'
    BY <1>8 DEF close, _is_settled, is_terminal, TypeOK, SessionState, TERMINAL_STATES, Absent
<1>9. ASSUME NEW s \in Sessions, ShutdownCancel(s)
      PROVE  RunnerInv'
    BY <1>9, <1>7 DEF ShutdownCancel
<1>10. CASE shutdown \/ ShutdownWaits \/ ShutdownCollects \/ ShutdownReturns
    BY <1>10 DEF shutdown, ShutdownWaits, ShutdownCollects, ShutdownReturns
<1>11. CASE SchedulerRests
    BY <1>11 DEF SchedulerRests
<1>12. CASE _schedule
    <2>1. /\ UNCHANGED << admission, state, result, terminals, aim >>
          /\ pending' = Remaining(Queued \ Selected)
        BY <1>12 DEF _schedule
    <2>2. ASSUME NEW t \in Sessions
          PROVE  pending[t] = 0 => pending'[t] = 0
        <3>1. Queued \ Selected \in SUBSET Sessions
            BY DEF Queued
        <3>2. pending[t] = 0 => t \notin Queued \ Selected
            BY DEF Queued
        <3>3. QED
            BY <2>1, <3>1, <3>2, RemainingFacts
    <2>3. ASSUME NEW t \in Sessions
          PROVE  state[t] = Absent => pc'[t] = pc[t]
        BY <1>12, LaunchReads DEF Launched
    <2>4. ASSUME NEW t \in Sessions, NEW j \in Slots
          PROVE  pc'[t][j] \in Finishing => pc'[t][j] = pc[t][j]
        BY <1>12, LaunchReads
    <2>5. ASSUME NEW t \in Sessions
          PROVE  NotCommitted(t)'
        BY <2>1, <2>2, <2>3
    <2>6. ASSUME NEW t \in Sessions
          PROVE  /\ Publishing(t)' /\ Emitting(t)' /\ OneFinisher(t)'
                 /\ Unsettled(t)' /\ Published(t)' /\ Emitted(t)'
        <3>1. \A j \in Slots : pc'[t][j] \in Finishing => pc'[t][j] = pc[t][j]
            BY <2>4
        <3>2. QED
            BY <2>1, <3>1
    <2>7. QED
        BY <2>5, <2>6
<1>13. QED
    BY <1>1, <1>2, <1>3, <1>4, <1>5, <1>6, <1>7, <1>8, <1>9, <1>10, <1>11, <1>12
       DEF Submission, Control, cancel, Teardown, Scheduler

\* Types and the runner's invariant hold always: the induction.
LEMMA RunnerAlways == Spec => [](TypeOK /\ RunnerInv)
<1>1. Init => TypeOK /\ RunnerInv
    <2>1. Init => RunnerInv
        BY DEF Init, RunnerInv, NotCommitted, Publishing, Emitting, OneFinisher, Unsettled,
               Published, Emitted, Finishing, SessionState, TERMINAL_STATES, Absent, NoResult
    <2>2. QED
        BY <2>1, InitType
<1>2. TypeOK /\ RunnerInv /\ [Next]_vars => (TypeOK /\ RunnerInv)'
    <2> SUFFICES ASSUME TypeOK, RunnerInv, [Next]_vars
                 PROVE  (TypeOK /\ RunnerInv)'
        OBVIOUS
    <2>1. CASE UNCHANGED vars
        <3>1. TypeOK'
            BY <2>1 DEF vars, TypeOK, lifecycle, control, custody, threads, teardown
        <3>2. RunnerInv'
            BY <2>1 DEF vars, RunnerInv, NotCommitted, Publishing, Emitting, OneFinisher,
                        Unsettled, Published, Emitted, lifecycle, threads
        <3>3. QED
            BY <3>1, <3>2
    <2>2. CASE Next
        <3>1. TypeOK'
            BY <2>2, SubmissionType, ControlType, TeardownType, SchedulerType, WorkerType
               DEF Next
        <3>2. RunnerInv'
            BY <2>2, OthersRunner, WorkerRunner DEF Next
        <3>3. QED
            BY <3>1, <3>2
    <2>3. QED
        BY <2>1, <2>2
<1>3. QED
    BY <1>1, <1>2, PTL DEF Spec

\* Type correctness of the dispatcher: every table and every thread of it
\* stays within its type, whatever the callers and the workflows do.
THEOREM TypeCorrect == Spec => []TypeOK
    BY RunnerAlways, PTL

\* The runner emits at most one Terminal event for a session, and only after
\* the final result is published, however many workers race for the session.
THEOREM TerminalOnce == Spec => []OneTerminal
<1>1. TypeOK /\ RunnerInv => OneTerminal
    BY DEF OneTerminal, RunnerInv, Emitted, Published, TypeOK
<1>2. QED
    BY <1>1, RunnerAlways, PTL

-----------------------------------------------------------------------------
(***************************************************************************)
(* Finality.  Only a settle makes a record terminal, and the transition    *)
(* table has no edge out of a terminal state.                              *)
(***************************************************************************)
Final(s) ==
    is_terminal(state[s]) =>
        /\ state'[s] \in { state[s], Absent }
        /\ result[s] # NoResult => result'[s] = result[s]

\* A worker's step leaves a terminal record alone.
LEMMA WorkerFinal ==
    ASSUME TypeOK, RunnerInv, NEW s \in Sessions, NEW k \in Slots, Worker(s, k)
    PROVE  \A t \in Sessions : Final(t)
<1> USE DEF Final, is_terminal, lifecycle
<1>1. CASE Begin(s, k)
    BY <1>1, LegalFacts DEF Begin, TypeOK, SessionState, TERMINAL_STATES, Absent
<1>2. CASE Settle(s, k)
    BY <1>2, LegalFacts DEF Settle, TypeOK
<1>3. CASE PublishResult(s, k)
    BY <1>3 DEF PublishResult, RunnerInv, Publishing, TypeOK
<1>4. CASE WorkerDone(s, k)
    BY <1>4 DEF WorkerDone, TypeOK, TERMINAL_STATES
<1>5. CASE \/ WorkerStarts(s, k) \/ Acquire(s, k) \/ AcquireCanceled(s, k)
           \/ AcquireFails(s, k) \/ Register(s, k) \/ OpenFails(s, k) \/ Core(s, k)
           \/ Invoke(s, k) \/ Pop(s, k) \/ Unlock(s, k) \/ Unreserve(s, k)
           \/ EmitTerminal(s, k)
    <2>1. UNCHANGED << state, result >>
        BY <1>5 DEF WorkerStarts, Acquire, AcquireCanceled, AcquireFails, Register, OpenFails,
                    Core, Invoke, Pop, Unlock, Unreserve, EmitTerminal
    <2>2. QED
        BY <2>1
<1>6. QED
    BY <1>1, <1>2, <1>3, <1>4, <1>5 DEF Worker

\* Every other step leaves a terminal record alone, or closes it.
LEMMA OthersFinal ==
    ASSUME TypeOK, RunnerInv,
           (\E s \in Sessions : Submission(s) \/ Control(s)) \/ Teardown \/ Scheduler
    PROVE  \A t \in Sessions : Final(t)
<1> USE DEF Final, is_terminal, lifecycle, TypeOK
<1>1. ASSUME NEW s \in Sessions, Submission(s)
      PROVE  \A t \in Sessions : Final(t)
    BY <1>1 DEF Submission, Submit, Commit, AdmitRaises, SubmitReturns,
                RunnerInv, NotCommitted, TERMINAL_STATES, Absent
<1>2. ASSUME NEW s \in Sessions, CancelAccepted(state[s]), Canceling(s)
      PROVE  \A t \in Sessions : Final(t)
    BY <1>2 DEF Canceling, CancelAccepted
<1>3. ASSUME NEW s \in Sessions, pause(s) \/ resume(s) \/ close(s)
      PROVE  \A t \in Sessions : Final(t)
    BY <1>3 DEF pause, resume, close, PauseAccepted, ResumeAccepted, TERMINAL_STATES
<1>4. CASE Teardown
    BY <1>4, <1>2 DEF Teardown, shutdown, ShutdownCancel, ShutdownWaits, ShutdownCollects,
                      ShutdownReturns
<1>5. CASE Scheduler
    BY <1>5 DEF Scheduler, _schedule, SchedulerRests
<1>6. QED
    BY <1>1, <1>2, <1>3, <1>4, <1>5 DEF Control, cancel

\* A terminal record is never changed again except by close, and a published
\* result is never replaced, however many workers still run for the session.
THEOREM ResultIsFinal == Spec => TerminalIsFinal
<1>1. ASSUME TypeOK, RunnerInv, [Next]_vars
      PROVE  [\A s \in Sessions : Final(s)]_vars
    BY <1>1, WorkerFinal, OthersFinal DEF Next
<1>2. QED
    BY <1>1, RunnerAlways, PTL DEF Spec, TerminalIsFinal, Final
=============================================================================
