------------------------ MODULE DispatcherExclusion -------------------------
(***************************************************************************)
(* Proofs about the dispatcher's scheduling: contending sessions never run *)
(* at the same time, what a session holds is given back and a paused one   *)
(* holds nothing, no wakeup of the scheduler is lost, and a complete       *)
(* shutdown leaves nothing behind.  Exclusion, pauses and shutdown need    *)
(* callers that resume a session only after the worker of its pause has    *)
(* retired; the rest holds for every caller.                               *)
(***************************************************************************)
EXTENDS DispatcherProofs, WellFoundedInduction

(***************************************************************************)
(* The custody invariant.  A lease object, in _leases or in the hands of a *)
(* thread, holds every resource of its session, and there is only one.     *)
(***************************************************************************)
Holds(s) == \A r \in Res[s] : owner[r] = s

LeaseHolds(s) ==
    /\ s \in leases => Holds(s)
    /\ grip[s] # {} => Holds(s)

OneLease(s) ==
    Res[s] # {} =>
        /\ s \in leases => grip[s] = {}
        /\ \A j, k \in grip[s] : j = k

Gripped(s) == \A k \in Slots : pc[s][k] = "leased" => k \in grip[s]

CustodyInv == \A s \in Sessions : LeaseHolds(s) /\ OneLease(s) /\ Gripped(s)

(***************************************************************************)
(* The scheduling invariant, for callers that resume only after the        *)
(* pause's worker retired.  A session that is neither canceling nor over   *)
(* has one worker thread or one queue entry, never two of either, so only  *)
(* the thread that runs the workflow can give up the lease it runs under.  *)
(***************************************************************************)
Busy(s, k) == pc[s][k] # "idle"

Running(s, k) ==
    pc[s][k] = "invoke" \/ (pc[s][k] = "core" /\ job[s][k] \notin { "cancel", "fail" })

NeverInterrupted(s) == state[s] # "interrupted"

OneWorker(s) ==
    state[s] \in { "pending", "running", "pausing", "paused" } =>
        /\ \A j, k \in Slots : Busy(s, j) /\ Busy(s, k) => j = k
        /\ \A k \in Slots : Busy(s, k) => s \in workers /\ pending[s] = 0
        /\ pending[s] > 0 => state[s] = "pending"

Granted(s) ==
    \A k \in Slots :
        state[s] = "pending" /\ pc[s][k] \in { "leased", "open" } => Holds(s)

RunsAlone(s) ==
    \A k \in Slots : Running(s, k) =>
        /\ state[s] \in { "running", "pausing", "canceling" }
        /\ pending[s] = 0
        /\ \A j \in Slots : Busy(s, j) => j = k
        /\ Holds(s)

SchedulingInv ==
    \A s \in Sessions : NeverInterrupted(s) /\ OneWorker(s) /\ Granted(s) /\ RunsAlone(s)

-----------------------------------------------------------------------------
(***************************************************************************)
(* The frame of a worker's step.                                           *)
(***************************************************************************)
\* A worker moves itself and no other thread.
LEMMA OtherThreads ==
    ASSUME TypeOK, NEW s \in Sessions, NEW k \in Slots, Worker(s, k),
           NEW t \in Sessions, NEW j \in Slots, t # s \/ j # k
    PROVE  pc'[t][j] = pc[t][j] /\ job'[t][j] = job[t][j] /\ aim'[t][j] = aim[t][j]
<1>1. CASE WorkerDone(s, k)
    BY <1>1, TableRead DEF WorkerDone, TypeOK
<1>2. CASE ~ WorkerDone(s, k)
    <2>1. \/ \E step : Goto(s, k, step)
          \/ \E what : RunCore(s, k, what)
          \/ \E outcome : Ends(s, k, outcome)
          \/ Unwind(s, k)
        BY <1>2 DEF Worker, WorkerStarts, Acquire, AcquireCanceled, AcquireFails, Register, Begin,
                    OpenFails, Core, Invoke, Pop, Unlock, Unreserve, Settle, PublishResult,
                    EmitTerminal
    <2>2. QED
        BY <2>1, MoveReads
<1>3. QED
    BY <1>1, <1>2

\* A worker leaves the records and the queue entries of other sessions alone.
LEMMA OtherSessions ==
    ASSUME TypeOK, NEW s \in Sessions, NEW k \in Slots, Worker(s, k),
           NEW t \in Sessions, t # s
    PROVE  /\ state'[t] = state[t] /\ pending'[t] = pending[t]
           /\ t \in workers' <=> t \in workers
           /\ t \in leases' <=> t \in leases
           /\ grip'[t] = grip[t]
<1> USE DEF TypeOK, lifecycle, custody, threads
<1>1. CASE WorkerDone(s, k)
    BY <1>1, AppendedFacts DEF WorkerDone
<1>2. CASE Begin(s, k) \/ Settle(s, k) \/ PublishResult(s, k)
    BY <1>2 DEF Begin, Settle, PublishResult
<1>3. CASE Acquire(s, k) \/ Register(s, k) \/ Pop(s, k) \/ Unlock(s, k) \/ Unreserve(s, k)
    BY <1>3 DEF Acquire, Register, Pop, Unlock, Unreserve
<1>4. CASE \/ WorkerStarts(s, k) \/ AcquireCanceled(s, k) \/ AcquireFails(s, k)
           \/ OpenFails(s, k) \/ Core(s, k) \/ Invoke(s, k) \/ EmitTerminal(s, k)
    BY <1>4 DEF WorkerStarts, AcquireCanceled, AcquireFails, OpenFails, Core, Invoke,
                EmitTerminal
<1>5. QED
    BY <1>1, <1>2, <1>3, <1>4 DEF Worker

\* Only these steps of a worker touch the lock provider or a lease.
LEMMA CustodyFrame ==
    ASSUME TypeOK, NEW s \in Sessions, NEW k \in Slots, Worker(s, k),
           ~ Acquire(s, k), ~ Register(s, k), ~ Pop(s, k), ~ Unlock(s, k)
    PROVE  UNCHANGED << leases, owner, grip >> /\ pc'[s][k] # "leased"
<1> USE DEF custody
<1>1. CASE WorkerDone(s, k)
    BY <1>1, TableRead DEF WorkerDone, TypeOK
<1>2. CASE Begin(s, k) \/ Settle(s, k) \/ PublishResult(s, k) \/ Unreserve(s, k)
    BY <1>2, MoveReads DEF Begin, Settle, PublishResult, Unreserve, AfterRelease
<1>3. CASE \/ WorkerStarts(s, k) \/ AcquireCanceled(s, k) \/ AcquireFails(s, k)
           \/ OpenFails(s, k) \/ Core(s, k) \/ Invoke(s, k) \/ EmitTerminal(s, k)
    BY <1>3, MoveReads DEF WorkerStarts, AcquireCanceled, AcquireFails, OpenFails, Core, Invoke,
                           EmitTerminal
<1>4. QED
    BY <1>1, <1>2, <1>3 DEF Worker

\* A worker takes only free resources and frees only its session's own, so the
\* resources of every other session stay as they are.
LEMMA HoldsKept ==
    ASSUME TypeOK, CustodyInv, NEW s \in Sessions, NEW k \in Slots, Worker(s, k),
           NEW t \in Sessions, t # s, Holds(t)
    PROVE  Holds(t)'
<1> USE DispatcherAssumption DEF Holds, TypeOK, Free
<1>1. CASE Acquire(s, k)
    BY <1>1 DEF Acquire
<1>2. CASE Unlock(s, k)
    <2>1. k \in grip[s] => \A r \in Res[s] : owner[r] = s
        BY DEF CustodyInv, LeaseHolds
    <2>2. QED
        BY <1>2, <2>1 DEF Unlock
<1>3. CASE ~ Acquire(s, k) /\ ~ Unlock(s, k)
    <2>1. owner' = owner
        BY <1>3, CustodyFrame DEF Register, Pop
    <2>2. QED
        BY <2>1
<1>4. QED
    BY <1>1, <1>2, <1>3

-----------------------------------------------------------------------------
(***************************************************************************)
(* The custody invariant, for every caller.                                *)
(***************************************************************************)
\* A worker's step keeps the custody invariant of its own session.
LEMMA WorkerCustody ==
    ASSUME TypeOK, CustodyInv, NEW s \in Sessions, NEW k \in Slots, Worker(s, k)
    PROVE  LeaseHolds(s)' /\ OneLease(s)' /\ Gripped(s)'
<1> USE DispatcherAssumption DEF LeaseHolds, OneLease, Gripped, Holds
<1>0. LeaseHolds(s) /\ OneLease(s) /\ Gripped(s)
    BY DEF CustodyInv
<1>1. CASE Acquire(s, k)
    <2>1. /\ \A r \in Res[s] : owner[r] = Free /\ owner'[r] = s
          /\ leases' = leases /\ grip'[s] = grip[s] \cup { k }
        BY <1>1 DEF Acquire, TypeOK
    <2>2. Res[s] # {} => s \notin leases /\ grip[s] = {}
        BY <1>0, <2>1 DEF Free
    <2>3. Gripped(s)'
        BY <1>0, <2>1, OtherThreads
    <2>4. QED
        BY <2>1, <2>2, <2>3
<1>2. CASE Register(s, k)
    <2>1. /\ owner' = owner /\ leases' = leases \cup { s } /\ grip'[s] = grip[s] \ { k }
          /\ k \in grip[s]
        BY <1>0, <1>2 DEF Register, TypeOK
    <2>2. pc'[s][k] # "leased"
        BY <1>2, MoveReads DEF Register
    <2>3. Gripped(s)'
        BY <1>0, <2>1, <2>2, OtherThreads
    <2>4. QED
        BY <1>0, <2>1, <2>3
<1>3. CASE Pop(s, k)
    <2>1. /\ owner' = owner /\ leases' = leases \ { s }
          /\ grip'[s] = IF s \in leases THEN grip[s] \cup { k } ELSE grip[s]
        BY <1>3 DEF Pop, TypeOK
    <2>2. pc'[s][k] # "leased"
        BY <1>3, MoveReads DEF Pop
    <2>3. Gripped(s)'
        BY <1>0, <2>1, <2>2, OtherThreads
    <2>4. QED
        BY <1>0, <2>1, <2>3
<1>4. CASE Unlock(s, k)
    <2>1. /\ leases' = leases /\ grip'[s] = grip[s] \ { k }
          /\ k \notin grip[s] => \A r \in Res[s] : owner'[r] = owner[r]
        BY <1>4 DEF Unlock, TypeOK
    <2>2. pc'[s][k] # "leased"
        BY <1>4, MoveReads DEF Unlock, AfterRelease
    <2>3. Gripped(s)'
        BY <1>0, <2>1, <2>2, OtherThreads
    <2>4. Res[s] # {} /\ k \in grip[s] => s \notin leases' /\ grip'[s] = {}
        BY <1>0, <2>1
    <2>5. QED
        BY <1>0, <2>1, <2>3, <2>4
<1>5. CASE ~ Acquire(s, k) /\ ~ Register(s, k) /\ ~ Pop(s, k) /\ ~ Unlock(s, k)
    <2>1. UNCHANGED << leases, owner, grip >> /\ pc'[s][k] # "leased"
        BY <1>5, CustodyFrame
    <2>2. Gripped(s)'
        BY <1>0, <2>1, OtherThreads
    <2>3. QED
        BY <1>0, <2>1, <2>2
<1>6. QED
    BY <1>1, <1>2, <1>3, <1>4, <1>5

\* Callers and the scheduler touch neither the provider nor a lease.
LEMMA OthersKeepCustody ==
    ASSUME TypeOK,
           (\E s \in Sessions : Submission(s) \/ Control(s)) \/ Teardown \/ Scheduler
    PROVE  /\ UNCHANGED << leases, owner, grip >>
           /\ \A t \in Sessions, j \in Slots : pc'[t][j] = "leased" => pc[t][j] = "leased"
<1> USE DEF custody, threads
<1>1. CASE _schedule
    <2>1. UNCHANGED << leases, owner, grip >>
        BY <1>1 DEF _schedule
    <2>2. ASSUME NEW t \in Sessions, NEW j \in Slots
          PROVE  pc'[t][j] = "leased" => pc[t][j] = "leased"
        BY <1>1, LaunchReads
    <2>3. QED
        BY <2>1, <2>2
<1>2. CASE ~ _schedule
    <2>1. UNCHANGED << leases, owner, grip, pc >>
        BY <1>2 DEF Submission, Submit, Commit, AdmitRaises, SubmitReturns,
                    Control, pause, resume, cancel, Canceling, close, Teardown, shutdown,
                    ShutdownCancel, ShutdownWaits, ShutdownCollects, ShutdownReturns, Scheduler, SchedulerRests
    <2>2. QED
        BY <2>1
<1>3. QED
    BY <1>1, <1>2

\* Types, the runner's and the custody invariant hold always.
LEMMA CustodyAlways == Spec => [](TypeOK /\ RunnerInv /\ CustodyInv)
<1>1. Init => CustodyInv
    BY DEF Init, CustodyInv, LeaseHolds, OneLease, Gripped
<1>2. TypeOK /\ CustodyInv /\ [Next]_vars => CustodyInv'
    <2> SUFFICES ASSUME TypeOK, CustodyInv, [Next]_vars
                 PROVE  CustodyInv'
        OBVIOUS
    <2>1. ASSUME NEW s \in Sessions, NEW k \in Slots, Worker(s, k)
          PROVE  CustodyInv'
        <3>1. ASSUME NEW t \in Sessions, t # s
              PROVE  LeaseHolds(t)' /\ OneLease(t)' /\ Gripped(t)'
            <4>1. /\ t \in leases' <=> t \in leases
                  /\ grip'[t] = grip[t]
                  /\ Holds(t) => Holds(t)'
                BY <2>1, <3>1, OtherSessions, HoldsKept
            <4>2. \A j \in Slots : pc'[t][j] = pc[t][j]
                BY <2>1, <3>1, OtherThreads
            <4>3. QED
                BY <4>1, <4>2 DEF CustodyInv, LeaseHolds, OneLease, Gripped
        <3>2. QED
            BY <2>1, <3>1, WorkerCustody DEF CustodyInv
    <2>2. CASE (\E s \in Sessions : Submission(s) \/ Control(s)) \/ Teardown \/ Scheduler
        BY <2>2, OthersKeepCustody DEF CustodyInv, LeaseHolds, OneLease, Gripped, Holds
    <2>3. CASE UNCHANGED vars
        BY <2>3 DEF vars, custody, threads, CustodyInv, LeaseHolds, OneLease, Gripped, Holds
    <2>4. QED
        BY <2>1, <2>2, <2>3 DEF Next
<1>3. QED
    BY <1>1, <1>2, RunnerAlways, PTL DEF Spec

-----------------------------------------------------------------------------
(***************************************************************************)
(* The scheduling invariant, for callers that wait before they resume.     *)
(***************************************************************************)
SchedulingOf(s) == NeverInterrupted(s) /\ OneWorker(s) /\ Granted(s) /\ RunsAlone(s)

\* A worker's step keeps the scheduling invariant of its own session.
LEMMA WorkerScheduling ==
    ASSUME TypeOK, CustodyInv, SchedulingInv,
           NEW s \in Sessions, NEW k \in Slots, Worker(s, k)
    PROVE  SchedulingOf(s)'
<1> USE DEF SchedulingOf, NeverInterrupted, OneWorker, Granted, RunsAlone, Running, Busy
<1>0. /\ NeverInterrupted(s) /\ OneWorker(s) /\ Granted(s) /\ RunsAlone(s)
      /\ \A j \in Slots : j # k => pc'[s][j] = pc[s][j] /\ job'[s][j] = job[s][j]
    BY OtherThreads DEF SchedulingInv
<1>1. ASSUME UNCHANGED << state, pending, workers, owner >>, pc[s][k] # "idle",
             pc'[s][k] # "idle", ~ Running(s, k)',
             pc'[s][k] \in { "leased", "open" } => pc[s][k] \in { "leased", "open" }
      PROVE  SchedulingOf(s)'
    BY <1>0, <1>1 DEF Holds
<1>2. CASE \/ WorkerStarts(s, k) \/ AcquireCanceled(s, k) \/ AcquireFails(s, k)
           \/ OpenFails(s, k) \/ Invoke(s, k) \/ Register(s, k)
    <2>1. /\ UNCHANGED << state, pending, workers, owner >>
          /\ pc[s][k] # "idle"
        BY <1>2 DEF WorkerStarts, AcquireCanceled, AcquireFails, OpenFails, Invoke, Register,
                    lifecycle, custody, threads
    <2>2. /\ pc'[s][k] # "idle" /\ ~ Running(s, k)'
          /\ pc'[s][k] \in { "leased", "open" } => pc[s][k] \in { "leased", "open" }
        BY <1>2, MoveReads DEF WorkerStarts, AcquireCanceled, AcquireFails, OpenFails, Invoke,
                               Register
    <2>3. QED
        BY <1>1, <2>1, <2>2
<1>3. CASE Pop(s, k) \/ Unreserve(s, k) \/ PublishResult(s, k) \/ EmitTerminal(s, k)
    <2>1. /\ UNCHANGED << state, pending, workers, owner >>
          /\ pc[s][k] # "idle"
        BY <1>3 DEF Pop, Unreserve, PublishResult, EmitTerminal, lifecycle, custody, threads
    <2>2. /\ pc'[s][k] # "idle" /\ ~ Running(s, k)'
          /\ pc'[s][k] \notin { "leased", "open" }
        BY <1>3, MoveReads DEF Pop, Unreserve, PublishResult, EmitTerminal, AfterRelease
    <2>3. QED
        BY <1>1, <2>1, <2>2
<1>4. CASE Acquire(s, k)
    <2>1. /\ UNCHANGED << state, pending, workers >>
          /\ pc[s][k] = "acquire"
        BY <1>4 DEF Acquire, lifecycle
    <2>2. pc'[s][k] = "leased"
        BY <1>4, MoveReads DEF Acquire
    <2>3. Holds(s)'
        BY <1>4, DispatcherAssumption DEF Acquire, Holds
    <2>4. QED
        BY <1>0, <2>1, <2>2, <2>3
<1>5. CASE Begin(s, k)
    <2>1. /\ UNCHANGED << pending, workers, owner >>
          /\ pc[s][k] = "open"
        BY <1>5 DEF Begin, custody, threads
    <2>2. CASE state[s] \in SessionState \ { "canceling" } /\ Legal(state[s], "running")
        <3>1. /\ state[s] = "pending" /\ state'[s] = "running"
              /\ pc'[s][k] = "core"
            BY <1>5, <2>2, MoveReads, LegalFacts
               DEF Begin, TypeOK, SessionState, Absent
        <3>2. Holds(s)'
            BY <1>0, <2>1, <3>1 DEF Holds
        <3>3. QED
            BY <1>0, <2>1, <3>1, <3>2
    <2>3. CASE ~ (state[s] \in SessionState \ { "canceling" } /\ Legal(state[s], "running"))
        <3>1. /\ state' = state /\ pc'[s][k] # "idle" /\ ~ Running(s, k)'
              /\ pc'[s][k] \notin { "leased", "open" }
            BY <1>5, <2>3, MoveReads DEF Begin
        <3>2. QED
            BY <1>1, <2>1, <3>1
    <2>4. QED
        BY <2>2, <2>3
<1>6. CASE Core(s, k)
    <2>1. /\ UNCHANGED << state, pending, workers, owner >>
          /\ pc[s][k] = "core"
        BY <1>6 DEF Core, lifecycle, custody
    <2>2. pc'[s][k] \in { "pop", "invoke" }
        BY <1>6, MoveReads DEF Core
    <2>3. CASE pc'[s][k] = "pop"
        BY <1>1, <2>1, <2>3
    <2>4. CASE pc'[s][k] = "invoke"
        <3>1. Running(s, k)
            BY <1>6, <2>4, MoveReads DEF Core
        <3>2. QED
            BY <1>0, <2>1, <2>4, <3>1 DEF Holds
    <2>5. QED
        BY <2>2, <2>3, <2>4
<1>7. CASE Unlock(s, k)
    <2>1. /\ UNCHANGED << state, pending, workers >>
          /\ pc[s][k] \in { "unlock", "unlockLost" }
        BY <1>7 DEF Unlock, lifecycle
    <2>2. pc'[s][k] \in { "unreserve", "retire", "settle" }
        BY <1>7, MoveReads DEF Unlock, AfterRelease
    <2>3. QED
        BY <1>0, <2>1, <2>2
<1>8. CASE Settle(s, k)
    <2>1. /\ UNCHANGED << pending, workers, owner >>
          /\ pc[s][k] = "settle" /\ pc'[s][k] \in { "pop", "publish" }
        BY <1>8, MoveReads DEF Settle, custody
    <2>2. CASE state'[s] = state[s]
        BY <1>0, <2>1, <2>2 DEF Holds
    <2>3. CASE state'[s] # state[s]
        <3>1. /\ Legal(state[s], aim[s][k]) /\ state[s] # Absent
              /\ state'[s] = aim[s][k]
            BY <1>8, <2>3 DEF Settle, TypeOK
        <3>2. \/ state'[s] = "paused" /\ state[s] = "pausing"
              \/ state'[s] \in TERMINAL_STATES
            <4>1. aim[s][k] \in Aim
                BY DEF TypeOK
            <4>2. aim[s][k] \in SessionState
                BY <3>1, LegalFacts
            <4>3. aim[s][k] = "paused" => state[s] = "pausing"
                BY <3>1, LegalFacts
            <4>4. QED
                BY <3>1, <4>1, <4>2, <4>3 DEF Aim, SessionState
        <3>3. QED
            BY <1>0, <2>1, <3>2 DEF Holds, TERMINAL_STATES
    <2>4. QED
        BY <2>2, <2>3
<1>9. CASE WorkerDone(s, k)
    <2>1. /\ pc[s][k] = "retire" /\ pc'[s][k] = "idle" /\ owner' = owner
          /\ \/ state'[s] = "canceling"
             \/ state'[s] = state[s] /\ pending'[s] = pending[s]
        BY <1>9, TableRead DEF WorkerDone, TypeOK, custody
    <2>2. QED
        BY <1>0, <2>1 DEF Holds
<1>10. QED
    BY <1>2, <1>3, <1>4, <1>5, <1>6, <1>7, <1>8, <1>9 DEF Worker

\* Every other step keeps the scheduling invariant.
LEMMA OthersScheduling ==
    ASSUME ~ PromptResume, TypeOK, RunnerInv, SchedulingInv,
           (\E s \in Sessions : Submission(s) \/ Control(s)) \/ Teardown \/ Scheduler
    PROVE  SchedulingInv'
<1> USE DEF NeverInterrupted, OneWorker, Granted, RunsAlone, Running, Busy
<1>0. owner' = owner /\ \A t \in Sessions : Holds(t)' <=> Holds(t)
    BY OthersKeepCustody DEF Holds
<1>1. ASSUME UNCHANGED << state, pending, workers, pc, job >>
      PROVE  SchedulingInv'
    BY <1>0, <1>1 DEF SchedulingInv
<1>2. ASSUME NEW s \in Sessions,
             UNCHANGED << workers, pc, job >>,
             \A t \in Sessions : t # s => state'[t] = state[t] /\ pending'[t] = pending[t],
             SchedulingOf(s)'
      PROVE  SchedulingInv'
    BY <1>0, <1>2 DEF SchedulingInv, SchedulingOf
<1>3. ASSUME NEW s \in Sessions, Submission(s)
      PROVE  SchedulingInv'
    <2>1. CASE Commit(s)
        <3>1. /\ UNCHANGED << workers, pc, job >>
              /\ \A t \in Sessions : t # s => state'[t] = state[t] /\ pending'[t] = pending[t]
              /\ state'[s] = "pending"
            BY <2>1, AppendedFacts DEF Commit, threads, TypeOK
        <3>2. \A k \in Slots : pc[s][k] = "idle"
            BY <2>1 DEF Commit, RunnerInv, NotCommitted
        <3>3. SchedulingOf(s)'
            BY <3>1, <3>2 DEF SchedulingOf
        <3>4. QED
            BY <1>2, <3>1, <3>3
    <2>2. CASE ~ Commit(s)
        BY <1>1, <1>3, <2>2
           DEF Submission, Submit, AdmitRaises, SubmitReturns, lifecycle, threads
    <2>3. QED
        BY <2>1, <2>2
<1>4. ASSUME NEW s \in Sessions, CancelAccepted(state[s]), Canceling(s)
      PROVE  SchedulingInv'
    <2>1. /\ UNCHANGED << workers, pc, job >>
          /\ \A t \in Sessions : t # s => state'[t] = state[t] /\ pending'[t] = pending[t]
        BY <1>4, AppendedFacts DEF Canceling, threads, TypeOK
    <2>2. CASE state[s] = "pausing"
        BY <1>1, <1>4, <2>1, <2>2 DEF Canceling
    <2>3. CASE state[s] # "pausing"
        <3>1. /\ state'[s] = "canceling"
              /\ state[s] \in { "running", "canceling" } => pending'[s] = pending[s]
            BY <1>4, <2>3 DEF Canceling, TypeOK
        <3>2. SchedulingOf(s)'
            BY <1>0, <2>1, <2>3, <3>1 DEF SchedulingOf, SchedulingInv
        <3>3. QED
            BY <1>2, <2>1, <3>2
    <2>4. QED
        BY <2>2, <2>3
<1>5. ASSUME NEW s \in Sessions, pause(s)
      PROVE  SchedulingInv'
    <2>1. /\ UNCHANGED << workers, pc, job, pending >>
          /\ \A t \in Sessions : t # s => state'[t] = state[t]
          /\ state[s] = "running" /\ state'[s] = "pausing"
        BY <1>5 DEF pause, PauseAccepted, threads, TypeOK
    <2>2. SchedulingOf(s)'
        BY <1>0, <2>1 DEF SchedulingOf, SchedulingInv
    <2>3. QED
        BY <1>2, <2>1, <2>2
<1>6. ASSUME NEW s \in Sessions, resume(s)
      PROVE  SchedulingInv'
    <2>1. /\ UNCHANGED << workers, pc, job >>
          /\ \A t \in Sessions : t # s => state'[t] = state[t] /\ pending'[t] = pending[t]
          /\ state[s] \in { "paused", "interrupted" } /\ state'[s] = "pending"
          /\ s \notin workers
        BY <1>6, AppendedFacts DEF resume, ResumeAccepted, threads, TypeOK
    <2>2. \A k \in Slots : pc[s][k] = "idle"
        BY <2>1 DEF SchedulingInv
    <2>3. SchedulingOf(s)'
        BY <2>1, <2>2 DEF SchedulingOf
    <2>4. QED
        BY <1>2, <2>1, <2>3
<1>7. ASSUME NEW s \in Sessions, close(s)
      PROVE  SchedulingInv'
    <2>1. /\ UNCHANGED << workers, pc, job, pending >>
          /\ \A t \in Sessions : t # s => state'[t] = state[t]
          /\ state[s] \in TERMINAL_STATES /\ state'[s] = Absent
        BY <1>7 DEF close, _is_settled, is_terminal, threads, TypeOK
    <2>2. SchedulingOf(s)'
        BY <2>1 DEF SchedulingOf, SchedulingInv, TERMINAL_STATES, Absent
    <2>3. QED
        BY <1>2, <2>1, <2>2
<1>8. CASE Teardown
    <2>1. ASSUME NEW s \in Sessions, ShutdownCancel(s)
          PROVE  SchedulingInv'
        BY <1>1, <1>4, <2>1 DEF ShutdownCancel, lifecycle, threads
    <2>2. CASE shutdown \/ ShutdownWaits \/ ShutdownCollects \/ ShutdownReturns
        BY <1>1, <2>2 DEF shutdown, ShutdownWaits, ShutdownCollects, ShutdownReturns,
                          lifecycle, threads
    <2>3. QED
        BY <1>8, <2>1, <2>2 DEF Teardown
<1>9. CASE SchedulerRests
    BY <1>1, <1>9 DEF SchedulerRests, lifecycle, threads
<1>10. CASE _schedule
    <2> SUFFICES ASSUME NEW t \in Sessions
                 PROVE  SchedulingOf(t)'
        BY DEF SchedulingInv, SchedulingOf
    <2>1. /\ UNCHANGED << state, job >> /\ workers' = workers \cup Launched
          /\ pending' = Remaining(Queued \ Selected)
        BY <1>10 DEF _schedule, lifecycle
    <2>2. pending'[t] = 0 \/ (t \in Queued /\ t \notin Selected)
        <3>1. Queued \ Selected \in SUBSET Sessions
            BY DEF Queued
        <3>2. QED
            BY <2>1, <3>1, RemainingFacts
    <2>3. pending[t] = 0 => pending'[t] = 0
        BY <2>2 DEF Queued
    <2>4. NeverInterrupted(t) /\ OneWorker(t) /\ Granted(t) /\ RunsAlone(t)
        BY DEF SchedulingInv
    <2>5. CASE pc'[t] = pc[t] /\ t \notin Launched
        <3>1. pending'[t] > 0 => pending[t] > 0
            BY <2>2 DEF Queued
        <3>2. QED
            BY <1>0, <2>1, <2>3, <2>4, <2>5, <3>1 DEF SchedulingOf
    <2>6. ASSUME t \in Launched, NEW f \in Slots, pc[t][f] = "idle",
                 \A j \in Slots : pc'[t][j] = IF j = f THEN "start" ELSE pc[t][j]
          PROVE  SchedulingOf(t)'
        <3>1. pending[t] > 0 /\ pending'[t] = 0 /\ t \in workers'
            BY <2>1, <2>2, <2>6 DEF Launched, Selected, Queued
        <3>2. \A j \in Slots : ~ Running(t, j)
            BY <2>4, <3>1
        <3>3. \A j \in Slots : ~ Running(t, j)'
            BY <2>1, <2>6, <3>2
        <3>4. state[t] \in { "pending", "running", "pausing", "paused" } =>
                 \A j \in Slots : pc[t][j] = "idle"
            BY <2>4, <3>1
        <3>5. QED
            BY <1>0, <2>1, <2>4, <2>6, <3>1, <3>3, <3>4 DEF SchedulingOf
    <2>7. QED
        BY <1>10, <2>5, <2>6, LaunchReads
<1>11. QED
    BY <1>3, <1>4, <1>5, <1>6, <1>7, <1>8, <1>9, <1>10 DEF Control, cancel, Scheduler

\* The scheduling invariant holds always when callers wait before they resume.
LEMMA SchedulingAlways ==
    ASSUME ~ PromptResume
    PROVE  Spec => []SchedulingInv
<1> DEFINE IInv == TypeOK /\ RunnerInv /\ CustodyInv
<1>1. Init => SchedulingInv
    BY DEF Init, SchedulingInv, NeverInterrupted, OneWorker, Granted, RunsAlone, Running, Busy,
           Absent
<1>2. IInv /\ SchedulingInv /\ [Next]_vars => SchedulingInv'
    <2> SUFFICES ASSUME TypeOK, RunnerInv, CustodyInv, SchedulingInv, [Next]_vars
                 PROVE  SchedulingInv'
        OBVIOUS
    <2>1. ASSUME NEW s \in Sessions, NEW k \in Slots, Worker(s, k)
          PROVE  SchedulingInv'
        <3>1. ASSUME NEW t \in Sessions, t # s
              PROVE  SchedulingOf(t)'
            <4>1. /\ state'[t] = state[t] /\ pending'[t] = pending[t]
                  /\ t \in workers' <=> t \in workers
                BY <2>1, <3>1, OtherSessions
            <4>2. \A j \in Slots : pc'[t][j] = pc[t][j] /\ job'[t][j] = job[t][j]
                BY <2>1, <3>1, OtherThreads
            <4>3. Holds(t) => Holds(t)'
                BY <2>1, <3>1, HoldsKept
            <4>4. NeverInterrupted(t) /\ OneWorker(t) /\ Granted(t) /\ RunsAlone(t)
                BY DEF SchedulingInv
            <4>5. QED
                BY <4>1, <4>2, <4>3, <4>4
                   DEF SchedulingOf, NeverInterrupted, OneWorker, Granted, RunsAlone, Running, Busy
        <3>2. SchedulingOf(s)'
            BY <2>1, WorkerScheduling
        <3>3. QED
            BY <3>1, <3>2 DEF SchedulingInv, SchedulingOf
    <2>2. CASE (\E s \in Sessions : Submission(s) \/ Control(s)) \/ Teardown \/ Scheduler
        BY <2>2, OthersScheduling
    <2>3. CASE UNCHANGED vars
        BY <2>3 DEF vars, lifecycle, custody, threads, SchedulingInv, NeverInterrupted, OneWorker,
                    Granted, RunsAlone, Running, Busy, Holds
    <2>4. QED
        BY <2>1, <2>2, <2>3 DEF Next
<1>3. QED
    BY <1>1, <1>2, CustodyAlways, PTL DEF Spec

\* Contending sessions never run workflow code at the same time, and neither
\* do two workers of one session, provided that a caller resumes a session
\* only after the worker of its pause retired.  Without that the theorem is
\* false: the finally of that worker releases the lease of the next one.
THEOREM Exclusion ==
    ASSUME ~ PromptResume
    PROVE  Spec => []Exclusive
<1>1. TypeOK /\ SchedulingInv => Exclusive
    BY DEF Exclusive, SchedulingInv, RunsAlone, Running, Busy, Holds
<1>2. QED
    BY <1>1, SchedulingAlways, CustodyAlways, PTL

-----------------------------------------------------------------------------
(***************************************************************************)
(* Release.  What a thread still holds it still gives back, for every      *)
(* caller.  A thread is active until it unwinds; while its session goes on *)
(* there is at most one active thread of it, and none while an entry of    *)
(* the session waits in _pending.                                          *)
(***************************************************************************)
Early == { "start", "acquire", "leased", "open", "core", "invoke" }

Releasing == { "pop", "unlock", "unlockLost", "unreserve", "retire" }

Ongoing == { "pending", "running", "pausing", "paused" }

Active(s, k) == Busy(s, k) /\ aim[s][k] # "retire"

Phases(s) ==
    \A k \in Slots :
        /\ pc[s][k] \notin Releasing => aim[s][k] # "retire"
        /\ pc[s][k] = "retire" => aim[s][k] = "retire"

LostIsGone(s) == \A k \in Slots : pc[s][k] = "unlockLost" => state[s] = Absent

OneActive(s) ==
    state[s] \in Ongoing =>
        /\ \A j, k \in Slots : Active(s, j) /\ Active(s, k) => j = k
        /\ \A k \in Slots : Active(s, k) => pending[s] = 0 /\ state[s] # "paused"
        /\ pending[s] > 0 => state[s] = "pending"

GripIsBusy(s) == \A k \in grip[s] : pc[s][k] \in { "leased", "unlock", "unlockLost" }

LeaseIsPopped(s) == s \in leases => \E k \in Slots : Active(s, k) \/ pc[s][k] = "pop"

ThreadsRelease(s) ==
    /\ Phases(s) /\ LostIsGone(s) /\ NeverInterrupted(s) /\ OneActive(s)
    /\ GripIsBusy(s) /\ LeaseIsPopped(s)

\* Whatever is locked is locked by a lease object that still exists.
Backed ==
    \A r \in Resources : owner[r] # Free =>
        r \in Res[owner[r]] /\ (owner[r] \in leases \/ grip[owner[r]] # {})

\* A thread that reserved and has still to give the reservation back: it is
\* about to, or its record is there when it pops, since no thread of the
\* session is about to settle.
Owes(s, k) ==
    \/ pc[s][k] \in { "unlock", "unreserve" }
    \/ /\ pc[s][k] \in Early \cup { "pop" }
       /\ state[s] \notin TERMINAL_STATES \cup { Absent }
       /\ \A j \in Slots : pc[s][j] # "settle"

Owed == \A r \in reserved : \E s \in Sessions, k \in Slots : r \in Res[s] /\ Owes(s, k)

ReleaseInv == (\A s \in Sessions : ThreadsRelease(s)) /\ Backed /\ Owed

-----------------------------------------------------------------------------
\* A worker never brings a closed session back.
LEMMA AbsentStays ==
    ASSUME TypeOK, NEW s \in Sessions, NEW k \in Slots, Worker(s, k), state[s] = Absent
    PROVE  state'[s] = Absent
<1>1. CASE Begin(s, k) \/ Settle(s, k) \/ WorkerDone(s, k)
    BY <1>1 DEF Begin, Settle, WorkerDone, SessionState, Absent
<1>2. CASE ~ (Begin(s, k) \/ Settle(s, k) \/ WorkerDone(s, k))
    BY <1>2 DEF Worker, WorkerStarts, Acquire, AcquireCanceled, AcquireFails, Register,
                OpenFails, Core, Invoke, Pop, Unlock, Unreserve, PublishResult, EmitTerminal,
                lifecycle
<1> QED BY <1>1, <1>2

\* A worker keeps the order of its own phases.
LEMMA WorkerPhases ==
    ASSUME TypeOK, ReleaseInv, NEW s \in Sessions, NEW k \in Slots, Worker(s, k)
    PROVE  Phases(s)' /\ LostIsGone(s)'
<1> USE DEF Phases, LostIsGone, Releasing
<1>0. /\ Phases(s) /\ LostIsGone(s)
      /\ \A j \in Slots : j # k => pc'[s][j] = pc[s][j] /\ aim'[s][j] = aim[s][j]
    BY OtherThreads DEF ReleaseInv, ThreadsRelease
<1>1. state[s] = Absent => state'[s] = Absent
    BY AbsentStays
<1>2. /\ pc'[s][k] \notin Releasing => aim'[s][k] # "retire"
      /\ pc'[s][k] = "retire" => aim'[s][k] = "retire"
      /\ pc'[s][k] = "unlockLost" => state'[s] = Absent
    <2>1. CASE \/ WorkerStarts(s, k) \/ Acquire(s, k) \/ AcquireCanceled(s, k)
               \/ AcquireFails(s, k) \/ Register(s, k) \/ Begin(s, k) \/ OpenFails(s, k)
        BY <1>0, <2>1, MoveReads DEF WorkerStarts, Acquire, AcquireCanceled, AcquireFails,
                                     Register, Begin, OpenFails
    <2>2. CASE Core(s, k) \/ Invoke(s, k)
        BY <1>0, <2>2, MoveReads DEF Core, Invoke
    <2>3. CASE Pop(s, k)
        BY <1>0, <2>3, MoveReads DEF Pop, lifecycle
    <2>4. CASE Unlock(s, k) \/ Unreserve(s, k)
        BY <1>0, <2>4, MoveReads DEF Unlock, Unreserve, AfterRelease
    <2>5. CASE Settle(s, k) \/ PublishResult(s, k) \/ EmitTerminal(s, k)
        BY <1>0, <2>5, MoveReads DEF Settle, PublishResult, EmitTerminal
    <2>6. CASE WorkerDone(s, k)
        BY <2>6, TableRead DEF WorkerDone, TypeOK
    <2> QED BY <2>1, <2>2, <2>3, <2>4, <2>5, <2>6 DEF Worker
<1> QED BY <1>0, <1>1, <1>2

\* An active worker stays the only one while its session goes on.
LEMMA WorkerActive ==
    ASSUME TypeOK, ReleaseInv, NEW s \in Sessions, NEW k \in Slots, Worker(s, k)
    PROVE  NeverInterrupted(s)' /\ OneActive(s)'
<1> USE DEF NeverInterrupted, OneActive, Active, Busy, Ongoing
<1>0. /\ NeverInterrupted(s) /\ OneActive(s) /\ Phases(s)
      /\ \A j \in Slots : j # k => pc'[s][j] = pc[s][j] /\ aim'[s][j] = aim[s][j]
    BY OtherThreads DEF ReleaseInv, ThreadsRelease
<1>1. ASSUME UNCHANGED << state, pending >>, Active(s, k)' => Active(s, k)
      PROVE  NeverInterrupted(s)' /\ OneActive(s)'
    BY <1>0, <1>1
<1>2. CASE \/ WorkerStarts(s, k) \/ Acquire(s, k) \/ AcquireCanceled(s, k)
           \/ AcquireFails(s, k) \/ Register(s, k) \/ OpenFails(s, k)
    <2>1. UNCHANGED << state, pending >>
        BY <1>2 DEF WorkerStarts, Acquire, AcquireCanceled, AcquireFails, Register, OpenFails,
                    lifecycle
    <2>2. Active(s, k)' => Active(s, k)
        BY <1>2, MoveReads DEF WorkerStarts, Acquire, AcquireCanceled, AcquireFails, Register,
                               OpenFails
    <2> QED BY <1>1, <2>1, <2>2
<1>3. CASE Core(s, k) \/ Invoke(s, k)
    <2>1. UNCHANGED << state, pending >> /\ pc[s][k] \in { "core", "invoke" }
        BY <1>3 DEF Core, Invoke, lifecycle
    <2>2. Active(s, k)
        BY <1>0, <2>1 DEF Phases, Releasing
    <2> QED BY <1>1, <2>1, <2>2
<1>4. CASE \/ Pop(s, k) \/ Unlock(s, k) \/ Unreserve(s, k) \/ PublishResult(s, k)
           \/ EmitTerminal(s, k)
    <2>1. UNCHANGED << state, pending >>
        BY <1>4 DEF Pop, Unlock, Unreserve, PublishResult, EmitTerminal, lifecycle
    <2>2. Active(s, k)' => Active(s, k)
        BY <1>4, MoveReads DEF Pop, Unlock, Unreserve, PublishResult, EmitTerminal
    <2> QED BY <1>1, <2>1, <2>2
<1>5. CASE Begin(s, k)
    <2>1. pending' = pending /\ pc[s][k] = "open" /\ Active(s, k)
        BY <1>0, <1>5 DEF Begin, Phases, Releasing
    <2>2. CASE state' = state
        BY <1>1, <2>1, <2>2
    <2>3. CASE state' # state
        <3>1. state[s] = "pending" /\ state'[s] = "running"
            BY <1>5, <2>3, LegalFacts DEF Begin, TypeOK, SessionState, Absent
        <3> QED BY <1>0, <2>1, <3>1
    <2> QED BY <2>2, <2>3
<1>6. CASE Settle(s, k)
    <2>1. pending' = pending /\ pc[s][k] = "settle" /\ Active(s, k)
        BY <1>0, <1>6 DEF Settle, Phases, Releasing
    <2>2. CASE state' = state
        BY <1>1, <2>1, <2>2
    <2>3. CASE state' # state
        <3>1. /\ Legal(state[s], aim[s][k]) /\ state[s] # Absent /\ state'[s] = aim[s][k]
              /\ aim[s][k] = "paused" => aim'[s][k] = "retire"
            BY <1>6, <2>3, MoveReads DEF Settle, TypeOK
        <3>2. aim[s][k] \in Aim /\ aim[s][k] \in SessionState
            BY <3>1, LegalFacts DEF TypeOK
        <3>3. aim[s][k] = "paused" => state[s] = "pausing"
            BY <3>1, LegalFacts
        <3>4. aim[s][k] \in { "paused" } \cup TERMINAL_STATES
            BY <3>2 DEF Aim, SessionState
        <3> QED BY <1>0, <2>1, <3>1, <3>3, <3>4 DEF TERMINAL_STATES
    <2> QED BY <2>2, <2>3
<1>7. CASE WorkerDone(s, k)
    <2>1. ~ Active(s, k)'
        BY <1>7, TableRead DEF WorkerDone, TypeOK
    <2>2. \/ state'[s] = "canceling"
          \/ state'[s] = state[s] /\ pending'[s] = pending[s]
        BY <1>7 DEF WorkerDone, TypeOK
    <2> QED BY <1>0, <2>1, <2>2
<1> QED BY <1>2, <1>3, <1>4, <1>5, <1>6, <1>7 DEF Worker

\* A worker's lease objects stay with threads that release them.
LEMMA WorkerLeases ==
    ASSUME TypeOK, CustodyInv, ReleaseInv, NEW s \in Sessions, NEW k \in Slots, Worker(s, k)
    PROVE  GripIsBusy(s)' /\ LeaseIsPopped(s)'
<1> USE DEF GripIsBusy, LeaseIsPopped, Active, Busy
<1>a. grip[s] \subseteq Slots
    BY DEF TypeOK
<1>b. ASSUME NEW j \in Slots, j # k, Active(s, j) \/ pc[s][j] = "pop"
      PROVE  LeaseIsPopped(s)'
    BY <1>b, OtherThreads
<1>c. ASSUME Active(s, k)' \/ pc'[s][k] = "pop"
      PROVE  LeaseIsPopped(s)'
    BY <1>c
<1>0. /\ GripIsBusy(s) /\ LeaseIsPopped(s) /\ Phases(s)
      /\ \A j \in Slots : j # k => pc'[s][j] = pc[s][j] /\ aim'[s][j] = aim[s][j]
      /\ Phases(s)'
    BY OtherThreads, WorkerPhases DEF ReleaseInv, ThreadsRelease
<1>1. CASE Acquire(s, k)
    <2>1. leases' = leases /\ grip'[s] = grip[s] \cup { k } /\ pc'[s][k] = "leased"
        BY <1>1, MoveReads DEF Acquire, TypeOK
    <2> QED BY <1>0, <1>a, <1>c, <2>1 DEF Phases, Releasing
<1>2. CASE Register(s, k)
    <2>1. grip'[s] = grip[s] \ { k } /\ pc'[s][k] \in { "pop", "core", "open" }
        BY <1>2, MoveReads DEF Register, TypeOK
    <2> QED BY <1>0, <1>a, <1>c, <2>1 DEF Phases, Releasing
<1>3. CASE Pop(s, k)
    <2>1. /\ s \notin leases' /\ grip'[s] \subseteq grip[s] \cup { k }
          /\ pc'[s][k] \in { "unlock", "unlockLost" }
        BY <1>3, MoveReads DEF Pop, TypeOK
    <2> QED BY <1>0, <1>a, <2>1
<1>4. CASE Unlock(s, k)
    <2>1. /\ leases' = leases /\ grip'[s] = grip[s] \ { k }
          /\ pc[s][k] # "pop" /\ aim'[s][k] = aim[s][k] /\ pc'[s][k] # "idle"
        BY <1>4, MoveReads DEF Unlock, TypeOK, AfterRelease
    <2>2. Active(s, k) => Active(s, k)'
        BY <2>1
    <2> QED BY <1>0, <1>a, <1>b, <1>c, <2>1, <2>2
<1>5. CASE ~ Acquire(s, k) /\ ~ Register(s, k) /\ ~ Pop(s, k) /\ ~ Unlock(s, k)
    <2>1. leases' = leases /\ grip' = grip
        BY <1>5, CustodyFrame
    <2>2. pc[s][k] \notin { "leased", "unlock", "unlockLost", "pop" }
        BY <1>5 DEF Worker, WorkerStarts, AcquireCanceled, AcquireFails, Begin, OpenFails, Core,
                    Invoke, Unreserve, Settle, PublishResult, EmitTerminal, WorkerDone
    <2>3. Active(s, k) => Active(s, k)' \/ pc'[s][k] = "pop"
        <3>1. CASE \/ WorkerStarts(s, k) \/ AcquireCanceled(s, k) \/ AcquireFails(s, k)
                   \/ Begin(s, k) \/ OpenFails(s, k) \/ Core(s, k) \/ Invoke(s, k)
            BY <1>0, <3>1, MoveReads DEF WorkerStarts, AcquireCanceled, AcquireFails, Begin,
                                         OpenFails, Core, Invoke, Phases, Releasing
        <3>2. CASE \/ Unreserve(s, k) \/ Settle(s, k) \/ PublishResult(s, k)
                   \/ EmitTerminal(s, k)
            BY <1>0, <3>2, MoveReads DEF Unreserve, Settle, PublishResult, EmitTerminal,
                                         AfterRelease, Phases, Releasing
        <3>3. CASE WorkerDone(s, k)
            BY <1>0, <3>3 DEF WorkerDone, Phases
        <3> QED BY <1>5, <3>1, <3>2, <3>3 DEF Worker
    <2> QED BY <1>0, <1>a, <1>b, <1>c, <2>1, <2>2, <2>3
<1> QED BY <1>1, <1>2, <1>3, <1>4, <1>5

\* A worker frees what it unlocks, and locks only with a lease object in hand.
LEMMA WorkerBacked ==
    ASSUME TypeOK, TypeOK', CustodyInv, ReleaseInv,
           NEW s \in Sessions, NEW k \in Slots, Worker(s, k)
    PROVE  Backed'
<1> SUFFICES ASSUME NEW r \in Resources, owner'[r] # Free
             PROVE  /\ r \in Res[owner'[r]]
                    /\ owner'[r] \in leases' \/ grip'[owner'[r]] # {}
    BY DEF Backed
<1>0. /\ owner[r] # Free => r \in Res[owner[r]] /\ (owner[r] \in leases \/ grip[owner[r]] # {})
      /\ owner[r] \in Sessions \cup { Free } /\ owner'[r] \in Sessions \cup { Free }
    BY DEF TypeOK, ReleaseInv, Backed
<1>1. \A t \in Sessions \ { s } : (t \in leases' <=> t \in leases) /\ grip'[t] = grip[t]
    BY OtherSessions
<1>2. CASE Acquire(s, k)
    <2>1. /\ owner'[r] = IF r \in Res[s] THEN s ELSE owner[r]
          /\ leases' = leases /\ grip'[s] = grip[s] \cup { k }
        BY <1>2 DEF Acquire, TypeOK
    <2> QED BY <1>0, <1>1, <2>1
<1>3. CASE Register(s, k) \/ Pop(s, k)
    <2>1. /\ owner' = owner
          /\ s \in leases \/ grip[s] # {} => s \in leases' \/ grip'[s] # {}
        <3>1. CASE Register(s, k)
            BY <3>1 DEF Register
        <3>2. CASE Pop(s, k)
            <4>1. /\ owner' = owner
                  /\ grip'[s] = IF s \in leases THEN grip[s] \cup { k } ELSE grip[s]
                BY <3>2 DEF Pop, TypeOK
            <4> QED BY <4>1
        <3> QED BY <1>3, <3>1, <3>2
    <2> QED BY <1>0, <1>1, <2>1
<1>4. CASE Unlock(s, k)
    <2>1. /\ owner'[r] = IF k \in grip[s] /\ r \in Res[s] THEN Free ELSE owner[r]
          /\ leases' = leases /\ grip'[s] = grip[s] \ { k }
        BY <1>4 DEF Unlock, TypeOK
    <2>2. owner'[r] = owner[r] /\ (owner[r] = s => k \notin grip[s])
        BY <1>0, <2>1
    <2> QED BY <1>0, <1>1, <2>1, <2>2
<1>5. CASE ~ Acquire(s, k) /\ ~ Register(s, k) /\ ~ Pop(s, k) /\ ~ Unlock(s, k)
    BY <1>0, <1>5, CustodyFrame
<1> QED BY <1>2, <1>3, <1>4, <1>5

\* A worker that reserved gives the reservation back before its session can
\* be closed.
LEMMA WorkerOwed ==
    ASSUME TypeOK, ReleaseInv, NEW s \in Sessions, NEW k \in Slots, Worker(s, k)
    PROVE  Owed'
<1> SUFFICES ASSUME NEW r \in reserved'
             PROVE  \E t \in Sessions, j \in Slots : r \in Res[t] /\ Owes(t, j)'
    BY DEF Owed
<1>1. r \in reserved /\ (Unreserve(s, k) => r \notin Res[s])
    <2>1. CASE Unreserve(s, k)
        BY <2>1 DEF Unreserve
    <2>2. CASE ~ Unreserve(s, k)
        BY <2>2 DEF Worker, WorkerStarts, Acquire, AcquireCanceled, AcquireFails, Register, Begin,
                    OpenFails, Core, Invoke, Pop, Unlock, Settle, PublishResult, EmitTerminal,
                    WorkerDone, custody
    <2> QED BY <2>1, <2>2
<1>2. PICK t \in Sessions, j \in Slots : r \in Res[t] /\ Owes(t, j)
    BY <1>1 DEF ReleaseInv, Owed
<1>3. CASE t # s
    <2>1. state'[t] = state[t] /\ \A i \in Slots : pc'[t][i] = pc[t][i]
        BY <1>3, OtherSessions, OtherThreads
    <2>2. Owes(t, j)'
        BY <1>2, <2>1 DEF Owes
    <2> QED BY <1>2, <2>2
<1>4. CASE t = s
    <2>1. \A i \in Slots : i # k => pc'[s][i] = pc[s][i]
        BY OtherThreads
    <2>2. ~ Unreserve(s, k)
        BY <1>1, <1>2, <1>4
    <2>3. CASE pc[s][j] \in { "unlock", "unreserve" }
        <3>1. CASE j # k
            BY <1>2, <1>4, <2>1, <2>3, <3>1 DEF Owes
        <3>2. CASE j = k
            <4>1. Unlock(s, k) /\ pc[s][k] = "unlock"
                BY <2>2, <2>3, <3>2
                   DEF Worker, WorkerStarts, Acquire, AcquireCanceled, AcquireFails, Register,
                       Begin, OpenFails, Core, Invoke, Pop, Unlock, Unreserve, Settle,
                       PublishResult, EmitTerminal, WorkerDone
            <4>2. pc'[s][k] = "unreserve"
                BY <4>1, MoveReads DEF Unlock
            <4> QED BY <1>2, <1>4, <3>2, <4>2 DEF Owes
        <3> QED BY <3>1, <3>2
    <2>4. CASE pc[s][j] \notin { "unlock", "unreserve" }
        <3>1. /\ pc[s][j] \in Early \cup { "pop" }
              /\ state[s] \notin TERMINAL_STATES \cup { Absent }
              /\ \A i \in Slots : pc[s][i] # "settle"
            BY <1>2, <1>4, <2>4 DEF Owes
        <3>2. state'[s] \notin TERMINAL_STATES \cup { Absent }
            <4>1. ~ Settle(s, k)
                BY <3>1 DEF Settle
            <4> QED BY <3>1, <4>1 DEF Worker, WorkerStarts, Acquire, AcquireCanceled,
                    AcquireFails, Register, Begin, OpenFails, Core, Invoke, Pop, Unlock,
                    Unreserve, PublishResult, EmitTerminal, WorkerDone, lifecycle, TypeOK,
                    TERMINAL_STATES, Absent
        <3>3. pc'[s][k] # "settle"
            <4>1. CASE Unlock(s, k)
                <5>1. pc[s][k] = "unlock"
                    BY <3>1, <4>1 DEF Unlock, ReleaseInv, ThreadsRelease, LostIsGone
                <5> QED BY <4>1, <5>1, MoveReads DEF Unlock
            <4>2. CASE \/ WorkerStarts(s, k) \/ Acquire(s, k) \/ AcquireCanceled(s, k)
                       \/ AcquireFails(s, k) \/ Register(s, k) \/ Begin(s, k)
                       \/ OpenFails(s, k) \/ Core(s, k) \/ Invoke(s, k) \/ Pop(s, k)
                BY <4>2, MoveReads DEF WorkerStarts, Acquire, AcquireCanceled, AcquireFails,
                        Register, Begin, OpenFails, Core, Invoke, Pop
            <4>3. CASE \/ Settle(s, k) \/ PublishResult(s, k) \/ EmitTerminal(s, k)
                BY <4>3, MoveReads DEF Settle, PublishResult, EmitTerminal
            <4>4. CASE WorkerDone(s, k)
                BY <4>4, TableRead DEF WorkerDone, TypeOK
            <4> QED BY <2>2, <4>1, <4>2, <4>3, <4>4 DEF Worker
        <3>4. pc'[s][j] \in Early \cup { "pop", "unlock" }
            <4>1. CASE j # k
                BY <2>1, <3>1, <4>1
            <4>2. CASE j = k /\ Pop(s, k)
                BY <3>1, <4>2, MoveReads DEF Pop
            <4>3. CASE j = k /\ ~ Pop(s, k)
                <5>1. \/ WorkerStarts(s, k) \/ Acquire(s, k) \/ AcquireCanceled(s, k)
                      \/ AcquireFails(s, k) \/ Register(s, k) \/ Begin(s, k)
                      \/ OpenFails(s, k) \/ Core(s, k) \/ Invoke(s, k)
                    BY <3>1, <4>3 DEF Worker, Unlock, Unreserve, Settle, PublishResult,
                                      EmitTerminal, WorkerDone, Early
                <5> QED BY <4>3, <5>1, MoveReads
                        DEF WorkerStarts, Acquire, AcquireCanceled, AcquireFails, Register,
                            Begin, OpenFails, Core, Invoke, Early
            <4> QED BY <4>1, <4>2, <4>3
        <3>5. Owes(s, j)'
            BY <2>1, <3>1, <3>2, <3>3, <3>4 DEF Owes
        <3> QED BY <1>2, <1>4, <3>5
    <2> QED BY <2>3, <2>4
<1> QED BY <1>3, <1>4

\* Callers and the scheduler keep the release invariant.
LEMMA OthersRelease ==
    ASSUME TypeOK, RunnerInv, ReleaseInv,
           (\E s \in Sessions : Submission(s) \/ Control(s)) \/ Teardown \/ Scheduler
    PROVE  ReleaseInv'
<1> USE DEF Phases, LostIsGone, NeverInterrupted, OneActive, GripIsBusy, LeaseIsPopped, Active,
            Busy, Ongoing
<1>0. /\ UNCHANGED << leases, owner, grip >>
      /\ Backed'
    BY OthersKeepCustody DEF ReleaseInv, Backed
<1>1. ASSUME UNCHANGED << state, pending, pc, aim, reserved >>
      PROVE  ReleaseInv'
    BY <1>0, <1>1 DEF ReleaseInv, ThreadsRelease, Owed, Owes
<1>2. ASSUME NEW s \in Sessions,
             UNCHANGED << pc, aim, reserved >>,
             \A t \in Sessions : t # s => state'[t] = state[t] /\ pending'[t] = pending[t],
             state[s] \notin TERMINAL_STATES \cup { Absent } =>
                state'[s] \notin TERMINAL_STATES \cup { Absent },
             LostIsGone(s)', NeverInterrupted(s)', OneActive(s)'
      PROVE  ReleaseInv'
    <2>1. ASSUME NEW t \in Sessions
          PROVE  ThreadsRelease(t)'
        <3>1. Phases(t)' /\ GripIsBusy(t)' /\ LeaseIsPopped(t)'
            BY <1>0, <1>2 DEF ReleaseInv, ThreadsRelease
        <3>2. LostIsGone(t)' /\ NeverInterrupted(t)' /\ OneActive(t)'
            BY <1>2 DEF ReleaseInv, ThreadsRelease
        <3> QED BY <3>1, <3>2 DEF ThreadsRelease
    <2>2. ASSUME NEW t \in Sessions, NEW k \in Slots, Owes(t, k)
          PROVE  Owes(t, k)'
        BY <1>2, <2>2 DEF Owes
    <2>3. Owed'
        BY <1>2, <2>2 DEF ReleaseInv, Owed
    <2> QED BY <1>0, <2>1, <2>3 DEF ReleaseInv
<1>3. ASSUME NEW s \in Sessions, Submission(s)
      PROVE  ReleaseInv'
    <2>1. CASE Commit(s)
        <3>1. /\ UNCHANGED << pc, aim, reserved >>
              /\ \A t \in Sessions : t # s => state'[t] = state[t] /\ pending'[t] = pending[t]
              /\ state'[s] = "pending"
            BY <2>1, AppendedFacts DEF Commit, threads, custody, TypeOK
        <3>2. \A k \in Slots : pc[s][k] = "idle"
            BY <2>1 DEF Commit, RunnerInv, NotCommitted
        <3> QED BY <1>2, <3>1, <3>2 DEF TERMINAL_STATES, Absent
    <2>2. CASE ~ Commit(s)
        BY <1>1, <1>3, <2>2
           DEF Submission, Submit, AdmitRaises, SubmitReturns, lifecycle, threads, custody
    <2> QED BY <2>1, <2>2
<1>4. ASSUME NEW s \in Sessions, CancelAccepted(state[s]), Canceling(s)
      PROVE  ReleaseInv'
    <2>1. /\ UNCHANGED << pc, aim, reserved >>
          /\ \A t \in Sessions : t # s => state'[t] = state[t] /\ pending'[t] = pending[t]
          /\ state[s] # Absent
        BY <1>4, AppendedFacts
           DEF Canceling, threads, custody, TypeOK, CancelAccepted, SessionState, Absent
    <2>2. CASE state[s] = "pausing"
        BY <1>1, <1>4, <2>1, <2>2 DEF Canceling
    <2>3. CASE state[s] # "pausing"
        <3>1. state'[s] = "canceling"
            BY <1>4, <2>3 DEF Canceling, TypeOK
        <3>2. LostIsGone(s)'
            BY <2>1 DEF ReleaseInv, ThreadsRelease
        <3> QED BY <1>2, <2>1, <3>1, <3>2 DEF TERMINAL_STATES, Absent
    <2> QED BY <2>2, <2>3
<1>5. ASSUME NEW s \in Sessions, pause(s)
      PROVE  ReleaseInv'
    <2>1. /\ UNCHANGED << pc, aim, reserved, pending >>
          /\ \A t \in Sessions : t # s => state'[t] = state[t]
          /\ state[s] = "running" /\ state'[s] = "pausing"
        BY <1>5 DEF pause, PauseAccepted, threads, custody, TypeOK
    <2>2. LostIsGone(s)' /\ OneActive(s)'
        BY <2>1 DEF ReleaseInv, ThreadsRelease, Absent
    <2> QED BY <1>2, <2>1, <2>2 DEF TERMINAL_STATES, Absent
<1>6. ASSUME NEW s \in Sessions, resume(s)
      PROVE  ReleaseInv'
    <2>1. /\ UNCHANGED << pc, aim, reserved >>
          /\ \A t \in Sessions : t # s => state'[t] = state[t] /\ pending'[t] = pending[t]
          /\ state[s] \in { "paused", "interrupted" } /\ state'[s] = "pending"
        BY <1>6, AppendedFacts DEF resume, ResumeAccepted, threads, custody, TypeOK
    <2>2. state[s] = "paused" /\ \A k \in Slots : ~ Active(s, k)
        BY <2>1 DEF ReleaseInv, ThreadsRelease
    <2>3. LostIsGone(s)' /\ OneActive(s)'
        BY <2>1, <2>2 DEF ReleaseInv, ThreadsRelease, Absent
    <2> QED BY <1>2, <2>1, <2>3 DEF TERMINAL_STATES, Absent
<1>7. ASSUME NEW s \in Sessions, close(s)
      PROVE  ReleaseInv'
    <2>1. /\ UNCHANGED << pc, aim, reserved, pending >>
          /\ \A t \in Sessions : t # s => state'[t] = state[t]
          /\ state[s] \in TERMINAL_STATES /\ state'[s] = Absent
        BY <1>7 DEF close, _is_settled, is_terminal, threads, custody, TypeOK
    <2> QED BY <1>2, <2>1 DEF Absent
<1>8. CASE Teardown
    <2>1. ASSUME NEW s \in Sessions, ShutdownCancel(s)
          PROVE  ReleaseInv'
        BY <1>1, <1>4, <2>1 DEF ShutdownCancel, lifecycle, threads, custody
    <2>2. CASE shutdown \/ ShutdownWaits \/ ShutdownCollects \/ ShutdownReturns
        BY <1>1, <2>2 DEF shutdown, ShutdownWaits, ShutdownCollects, ShutdownReturns,
                          lifecycle, threads, custody
    <2> QED BY <1>8, <2>1, <2>2 DEF Teardown
<1>9. CASE SchedulerRests
    BY <1>1, <1>9 DEF SchedulerRests, lifecycle, threads, custody
<1>10. CASE _schedule
    <2>1. /\ UNCHANGED << state, aim >>
          /\ pending' = Remaining(Queued \ Selected)
          /\ \A r \in reserved' : \/ r \in reserved
                                  \/ \E t \in Selected : state[t] = "pending" /\ r \in Res[t]
        BY <1>10 DEF _schedule, lifecycle
    <2>2. ASSUME NEW t \in Sessions
          PROVE  pending'[t] = 0 \/ (pending[t] > 0 /\ t \notin Selected)
        <3>1. Queued \ Selected \in SUBSET Sessions
            BY DEF Queued
        <3> QED BY <2>1, <3>1, RemainingFacts DEF Queued
    <2>3. ASSUME NEW t \in Sessions
          PROVE  /\ ThreadsRelease(t)'
                 /\ \A k \in Slots : Owes(t, k) => Owes(t, k)'
        <3>0. ThreadsRelease(t)
            BY DEF ReleaseInv
        <3>1. CASE pc'[t] = pc[t] /\ t \notin Launched
            <4>0. /\ pending[t] = 0 => pending'[t] = 0
                  /\ pending'[t] > 0 => pending[t] > 0
                BY <2>2
            <4>1. OneActive(t)'
                BY <2>1, <3>0, <3>1, <4>0 DEF ThreadsRelease
            <4>2. Phases(t)' /\ LostIsGone(t)' /\ NeverInterrupted(t)' /\ GripIsBusy(t)'
                  /\ LeaseIsPopped(t)'
                BY <1>0, <2>1, <3>0, <3>1 DEF ThreadsRelease
            <4> QED BY <2>1, <3>1, <4>1, <4>2 DEF ThreadsRelease, Owes
        <3>2. ASSUME t \in Launched, NEW f \in Slots, pc[t][f] = "idle",
                     \A j \in Slots : pc'[t][j] = IF j = f THEN "start" ELSE pc[t][j]
              PROVE  /\ ThreadsRelease(t)'
                     /\ \A k \in Slots : Owes(t, k) => Owes(t, k)'
            <4>1. pending[t] > 0 /\ pending'[t] = 0
                BY <2>2, <3>2 DEF Launched, Selected, Queued
            <4>2. OneActive(t)'
                BY <2>1, <3>0, <3>2, <4>1 DEF ThreadsRelease
            <4>3. aim[t][f] # "retire"
                BY <3>0, <3>2 DEF ThreadsRelease, Releasing
            <4>4. Phases(t)' /\ LostIsGone(t)' /\ NeverInterrupted(t)' /\ GripIsBusy(t)'
                  /\ LeaseIsPopped(t)'
                <5>1. grip[t] \subseteq Slots
                    BY DEF TypeOK
                <5> QED BY <1>0, <2>1, <3>0, <3>2, <4>3, <5>1 DEF ThreadsRelease, Releasing
            <4> QED BY <2>1, <3>2, <4>2, <4>4 DEF ThreadsRelease, Owes, Early
        <3> QED BY <1>10, <3>1, <3>2, LaunchReads
    <2>4. ASSUME NEW r \in reserved'
          PROVE  \E t \in Sessions, k \in Slots : r \in Res[t] /\ Owes(t, k)'
        <3>1. CASE r \in reserved
            BY <2>3, <3>1 DEF ReleaseInv, Owed
        <3>2. ASSUME NEW t \in Selected, state[t] = "pending", r \in Res[t]
              PROVE  \E k \in Slots : Owes(t, k)'
            <4>1. t \in Sessions /\ t \in Launched /\ pending[t] > 0
                BY <3>2 DEF Launched, Selected, Queued, Absent
            <4>2. PICK f \in Slots :
                      \A j \in Slots : pc'[t][j] = IF j = f THEN "start" ELSE pc[t][j]
                BY <1>10, <4>1, LaunchReads
            <4>3. \A j \in Slots : pc[t][j] # "settle"
                BY <3>2, <4>1 DEF ReleaseInv, ThreadsRelease, Releasing
            <4>4. state'[t] \notin TERMINAL_STATES \cup { Absent }
                BY <2>1, <3>2 DEF TERMINAL_STATES, Absent
            <4>5. Owes(t, f)'
                BY <4>2, <4>3, <4>4 DEF Owes, Early
            <4> QED BY <4>5
        <3>3. Selected \subseteq Sessions
            BY DEF Selected, Queued
        <3> QED BY <2>1, <3>1, <3>2, <3>3
    <2> QED BY <1>0, <2>3, <2>4 DEF ReleaseInv, Owed
<1> QED BY <1>3, <1>4, <1>5, <1>6, <1>7, <1>8, <1>9, <1>10 DEF Control, cancel, Scheduler

\* What is held is given back, whatever callers and workflows do.
LEMMA ReleaseAlways == Spec => []ReleaseInv
<1>1. Init => ReleaseInv
    BY DEF Init, ReleaseInv, ThreadsRelease, Phases, LostIsGone, NeverInterrupted, OneActive,
           GripIsBusy, LeaseIsPopped, Active, Busy, Backed, Owed, Absent, Releasing, Ongoing
<1>2. /\ TypeOK /\ RunnerInv /\ CustodyInv /\ TypeOK'
      /\ ReleaseInv /\ [Next]_vars
      => ReleaseInv'
    <2> SUFFICES ASSUME TypeOK, RunnerInv, CustodyInv, TypeOK', ReleaseInv, [Next]_vars
                 PROVE  ReleaseInv'
        OBVIOUS
    <2>1. ASSUME NEW s \in Sessions, NEW k \in Slots, Worker(s, k)
          PROVE  ReleaseInv'
        <3>1. ASSUME NEW t \in Sessions, t # s
              PROVE  ThreadsRelease(t)'
            <4>1. /\ state'[t] = state[t] /\ pending'[t] = pending[t]
                  /\ t \in leases' <=> t \in leases
                  /\ grip'[t] = grip[t]
                BY <2>1, <3>1, OtherSessions
            <4>2. \A j \in Slots : pc'[t][j] = pc[t][j] /\ aim'[t][j] = aim[t][j]
                BY <2>1, <3>1, OtherThreads
            <4>3. ThreadsRelease(t) /\ grip[t] \subseteq Slots
                BY DEF ReleaseInv, TypeOK
            <4> QED BY <4>1, <4>2, <4>3
                    DEF ThreadsRelease, Phases, LostIsGone, NeverInterrupted, OneActive,
                        GripIsBusy, LeaseIsPopped, Active, Busy
        <3>2. ThreadsRelease(s)'
            BY <2>1, WorkerPhases, WorkerActive, WorkerLeases DEF ThreadsRelease
        <3>3. Backed' /\ Owed'
            BY <2>1, WorkerBacked, WorkerOwed
        <3> QED BY <3>1, <3>2, <3>3 DEF ReleaseInv
    <2>2. CASE (\E s \in Sessions : Submission(s) \/ Control(s)) \/ Teardown \/ Scheduler
        BY <2>2, OthersRelease
    <2>3. CASE UNCHANGED vars
        BY <2>3 DEF vars, lifecycle, custody, threads, ReleaseInv, ThreadsRelease, Phases,
                    LostIsGone, NeverInterrupted, OneActive, GripIsBusy, LeaseIsPopped, Active,
                    Busy, Backed, Owed, Owes
    <2> QED BY <2>1, <2>2, <2>3 DEF Next
<1> QED BY <1>1, <1>2, CustodyAlways, PTL DEF Spec

\* Nothing is held for good, with any number of sessions, worker threads and
\* resources and whenever callers resume, cancel or close: whatever is locked
\* belongs to a lease that a thread of its session has still to release, and
\* whatever is reserved to a thread that gives it back before its session can
\* settle and be closed.
THEOREM CustodyReturns == Spec => []NoCustodyLeak
<1>1. TypeOK /\ ReleaseInv => NoCustodyLeak
    <2> SUFFICES ASSUME TypeOK, ReleaseInv PROVE NoCustodyLeak
        OBVIOUS
    <2>1. ASSUME NEW r \in Resources, owner[r] # Free
          PROVE  Live(owner[r])
        <3>1. PICK s \in Sessions : s = owner[r]
            BY <2>1 DEF TypeOK
        <3>2. s \in leases \/ grip[s] # {}
            BY <2>1, <3>1 DEF ReleaseInv, Backed
        <3>3. ThreadsRelease(s) /\ grip[s] \subseteq Slots
            BY DEF ReleaseInv, TypeOK
        <3>4. Live(s)
            BY <3>2, <3>3 DEF Live, ThreadsRelease, GripIsBusy, LeaseIsPopped, Active, Busy
        <3> QED BY <3>1, <3>4
    <2>2. ASSUME NEW r \in reserved
          PROVE  \E s \in Sessions : r \in Res[s] /\ Live(s)
        BY DEF ReleaseInv, Owed, Owes, Live, Early
    <2> QED BY <2>1, <2>2 DEF NoCustodyLeak
<1> QED BY <1>1, CustodyAlways, ReleaseAlways, PTL

-----------------------------------------------------------------------------
(***************************************************************************)
(* A pause.  While a session goes on and holds a lease, its one worker is  *)
(* on the way to the release.                                              *)
(***************************************************************************)
Holding == { "open", "core", "invoke", "pop" }

LeaseInUse(s) ==
    state[s] \in Ongoing /\ s \in leases => \E k \in Slots : pc[s][k] \in Holding

PausedIsEmpty(s) == state[s] = "paused" => s \notin leases /\ grip[s] = {}

PauseInv == \A s \in Sessions : LeaseInUse(s) /\ PausedIsEmpty(s)

\* A worker keeps a session that goes on, or ends it, and brings none back; only
\* its settle pauses it.
LEMMA WorkerOngoing ==
    ASSUME TypeOK, NEW s \in Sessions, NEW k \in Slots, Worker(s, k), state'[s] \in Ongoing
    PROVE  /\ state[s] \in Ongoing
           /\ state'[s] = "paused" => state[s] = "paused" \/ Settle(s, k)
<1>1. CASE Begin(s, k)
    BY <1>1, LegalFacts DEF Begin, TypeOK, SessionState, Absent, Ongoing
<1>2. CASE Settle(s, k)
    <2>1. state' = state \/ (state[s] # Absent /\ Legal(state[s], aim[s][k]))
        BY <1>2 DEF Settle
    <2>2. \/ state' = state
          \/ state'[s] = aim[s][k] /\ aim[s][k] \in Aim /\ state[s] # Absent
        BY <1>2 DEF Settle, TypeOK
    <2>3. state' = state \/ aim[s][k] = "paused"
        BY <2>2 DEF Aim, Ongoing, TERMINAL_STATES
    <2>4. state' = state \/ state[s] = "pausing"
        BY <2>1, <2>3, LegalFacts
    <2> QED BY <1>2, <2>4 DEF Ongoing
<1>3. CASE WorkerDone(s, k)
    BY <1>3 DEF WorkerDone, TypeOK, Ongoing
<1>4. CASE ~ (Begin(s, k) \/ Settle(s, k) \/ WorkerDone(s, k))
    BY <1>4 DEF Worker, WorkerStarts, Acquire, AcquireCanceled, AcquireFails, Register,
                OpenFails, Core, Invoke, Pop, Unlock, Unreserve, PublishResult, EmitTerminal,
                lifecycle
<1> QED BY <1>1, <1>2, <1>3, <1>4

\* A worker's step keeps the pause invariant of its own session.
LEMMA WorkerPause ==
    ASSUME TypeOK, SchedulingInv, ReleaseInv, PauseInv,
           NEW s \in Sessions, NEW k \in Slots, Worker(s, k)
    PROVE  LeaseInUse(s)' /\ PausedIsEmpty(s)'
<1> SUFFICES ASSUME state'[s] \in Ongoing
             PROVE  /\ s \in leases' => \E j \in Slots : pc'[s][j] \in Holding
                    /\ state'[s] = "paused" => s \notin leases' /\ grip'[s] = {}
    BY DEF LeaseInUse, PausedIsEmpty, Ongoing
<1>1. /\ state[s] \in Ongoing
      /\ state'[s] = "paused" => state[s] = "paused" \/ Settle(s, k)
    BY WorkerOngoing
<1>2. \A j \in Slots : Busy(s, j) => j = k
    <2>1. Busy(s, k)
        BY DEF Worker, WorkerStarts, Acquire, AcquireCanceled, AcquireFails, Register, Begin,
               OpenFails, Core, Invoke, Pop, Unlock, Unreserve, Settle, PublishResult,
               EmitTerminal, WorkerDone, Busy
    <2> QED BY <1>1, <2>1 DEF SchedulingInv, OneWorker, Ongoing
<1>3. /\ s \in leases => pc[s][k] \in Holding
      /\ \A j \in grip[s] : j = k /\ pc[s][k] \in { "leased", "unlock", "unlockLost" }
    <2>1. grip[s] \subseteq Slots
        BY DEF TypeOK
    <2> QED BY <1>1, <1>2, <2>1
            DEF PauseInv, LeaseInUse, ReleaseInv, ThreadsRelease, GripIsBusy, Holding, Busy
<1>4. /\ state[s] = "paused" => s \notin leases /\ grip[s] = {} /\ ~ Active(s, k)
      /\ pc[s][k] \notin Releasing => aim[s][k] # "retire"
    BY DEF PauseInv, PausedIsEmpty, ReleaseInv, ThreadsRelease, OneActive, Ongoing, Phases
<1>5. CASE Acquire(s, k)
    <2>1. leases' = leases /\ state' = state /\ pc[s][k] = "acquire"
        BY <1>5 DEF Acquire, lifecycle
    <2>2. s \notin leases /\ state[s] # "paused"
        BY <1>3, <1>4, <2>1 DEF Holding, Active, Busy, Releasing
    <2> QED BY <2>1, <2>2
<1>6. CASE Register(s, k)
    <2>1. state' = state /\ pc[s][k] = "leased"
        BY <1>6 DEF Register, lifecycle
    <2>2. state[s] # "paused"
        BY <1>4, <2>1 DEF Active, Busy, Releasing
    <2>3. pc'[s][k] \in Holding
        BY <1>6, MoveReads DEF Register, Holding
    <2> QED BY <2>1, <2>2, <2>3
<1>7. CASE Pop(s, k)
    <2>1. /\ state' = state /\ leases' = leases \ { s }
          /\ s \notin leases => grip' = grip
        BY <1>7 DEF Pop, lifecycle
    <2> QED BY <1>4, <2>1
<1>8. CASE Unlock(s, k)
    <2>1. /\ state' = state /\ leases' = leases /\ pc[s][k] \in { "unlock", "unlockLost" }
          /\ grip'[s] = grip[s] \ { k }
        BY <1>8 DEF Unlock, lifecycle, TypeOK
    <2> QED BY <1>3, <1>4, <2>1 DEF Holding
<1>9. CASE ~ Acquire(s, k) /\ ~ Register(s, k) /\ ~ Pop(s, k) /\ ~ Unlock(s, k)
    <2>1. leases' = leases /\ grip' = grip
        BY <1>9, CustodyFrame
    <2>2. s \in leases => pc'[s][k] \in Holding
        <3>1. CASE Begin(s, k) \/ OpenFails(s, k) \/ Core(s, k) \/ Invoke(s, k)
            BY <3>1, MoveReads DEF Begin, OpenFails, Core, Invoke, Holding
        <3>2. CASE ~ (Begin(s, k) \/ OpenFails(s, k) \/ Core(s, k) \/ Invoke(s, k))
            BY <1>3, <1>9, <3>2
               DEF Worker, WorkerStarts, AcquireCanceled, AcquireFails, Unreserve, Settle,
                   PublishResult, EmitTerminal, WorkerDone, Holding
        <3> QED BY <3>1, <3>2
    <2>3. Settle(s, k) => s \notin leases /\ grip[s] = {}
        BY <1>3 DEF Settle, Holding
    <2> QED BY <1>1, <1>4, <2>1, <2>2, <2>3
<1> QED BY <1>5, <1>6, <1>7, <1>8, <1>9

\* Every other step keeps it.
LEMMA OthersPause ==
    ASSUME TypeOK, RunnerInv, ReleaseInv, PauseInv,
           (\E s \in Sessions : Submission(s) \/ Control(s)) \/ Teardown \/ Scheduler
    PROVE  PauseInv'
<1> USE DEF PauseInv, LeaseInUse, PausedIsEmpty, Ongoing
<1>0. UNCHANGED << leases, grip >>
    BY OthersKeepCustody
<1>1. ASSUME UNCHANGED << state, pc >>
      PROVE  PauseInv'
    BY <1>0, <1>1
<1>2. ASSUME NEW s \in Sessions, pc' = pc,
             \A t \in Sessions : t # s => state'[t] = state[t],
             state'[s] # "paused",
             state'[s] \in Ongoing => s \notin leases \/ state[s] \in Ongoing
      PROVE  PauseInv'
    BY <1>0, <1>2
<1>3. ASSUME NEW s \in Sessions, Submission(s)
      PROVE  PauseInv'
    <2>1. CASE Commit(s)
        <3>1. /\ pc' = pc /\ state'[s] = "pending"
              /\ \A t \in Sessions : t # s => state'[t] = state[t]
            BY <2>1 DEF Commit, threads, TypeOK
        <3>2. \A k \in Slots : pc[s][k] = "idle"
            BY <2>1 DEF Commit, RunnerInv, NotCommitted
        <3>3. s \notin leases
            BY <3>2 DEF ReleaseInv, ThreadsRelease, LeaseIsPopped, Active, Busy
        <3> QED BY <1>2, <3>1, <3>3
    <2>2. CASE ~ Commit(s)
        BY <1>1, <1>3, <2>2
           DEF Submission, Submit, AdmitRaises, SubmitReturns, lifecycle, threads
    <2> QED BY <2>1, <2>2
<1>4. ASSUME NEW s \in Sessions, CancelAccepted(state[s]), Canceling(s)
      PROVE  PauseInv'
    <2>1. pc' = pc
        BY <1>4 DEF Canceling, threads
    <2>2. CASE state[s] = "pausing"
        BY <1>1, <1>4, <2>1, <2>2 DEF Canceling
    <2>3. CASE state[s] # "pausing"
        <3>1. state'[s] = "canceling" /\ \A t \in Sessions : t # s => state'[t] = state[t]
            BY <1>4, <2>3 DEF Canceling, TypeOK
        <3> QED BY <1>2, <2>1, <3>1
    <2> QED BY <2>2, <2>3
<1>5. ASSUME NEW s \in Sessions, pause(s) \/ resume(s) \/ close(s)
      PROVE  PauseInv'
    <2>1. /\ pc' = pc /\ \A t \in Sessions : t # s => state'[t] = state[t]
          /\ \/ state[s] = "running" /\ state'[s] = "pausing"
             \/ state[s] \in { "paused", "interrupted" } /\ state'[s] = "pending"
             \/ state'[s] = Absent
        BY <1>5 DEF pause, resume, close, PauseAccepted, ResumeAccepted, threads, TypeOK
    <2>2. state[s] # "interrupted"
        BY DEF ReleaseInv, ThreadsRelease, NeverInterrupted
    <2> QED BY <1>2, <2>1, <2>2 DEF Absent
<1>6. CASE Teardown
    <2>1. ASSUME NEW s \in Sessions, ShutdownCancel(s)
          PROVE  PauseInv'
        BY <1>1, <1>4, <2>1 DEF ShutdownCancel, lifecycle, threads
    <2>2. CASE shutdown \/ ShutdownWaits \/ ShutdownCollects \/ ShutdownReturns
        BY <1>1, <2>2 DEF shutdown, ShutdownWaits, ShutdownCollects, ShutdownReturns,
                          lifecycle, threads
    <2> QED BY <1>6, <2>1, <2>2 DEF Teardown
<1>7. CASE SchedulerRests
    BY <1>1, <1>7 DEF SchedulerRests, lifecycle, threads
<1>8. CASE _schedule
    <2>1. state' = state
        BY <1>8 DEF _schedule, lifecycle
    <2>2. ASSUME NEW t \in Sessions, NEW k \in Slots, pc[t][k] \in Holding
          PROVE  pc'[t][k] \in Holding
        BY <1>8, <2>2, LaunchReads DEF Holding
    <2> QED BY <1>0, <2>1, <2>2
<1> QED BY <1>3, <1>4, <1>5, <1>6, <1>7, <1>8 DEF Control, cancel, Scheduler

\* A session is PAUSED only after its custody is released and keeps nothing
\* while it is, provided that a caller resumes only after the worker of the
\* pause retired.  Without that the theorem is false: the finally of an earlier
\* worker takes the lease of the next one and still holds it when that pauses.
THEOREM PauseReleases ==
    ASSUME ~ PromptResume
    PROVE  Spec => []PausedHoldsNothing
<1>1. Init => PauseInv
    BY DEF Init, PauseInv, LeaseInUse, PausedIsEmpty
<1>2. /\ TypeOK /\ RunnerInv /\ SchedulingInv /\ ReleaseInv
      /\ PauseInv /\ [Next]_vars
      => PauseInv'
    <2> SUFFICES ASSUME TypeOK, RunnerInv, SchedulingInv, ReleaseInv, PauseInv, [Next]_vars
                 PROVE  PauseInv'
        OBVIOUS
    <2>1. ASSUME NEW s \in Sessions, NEW k \in Slots, Worker(s, k)
          PROVE  PauseInv'
        <3>1. ASSUME NEW t \in Sessions, t # s
              PROVE  LeaseInUse(t)' /\ PausedIsEmpty(t)'
            <4>1. /\ state'[t] = state[t] /\ grip'[t] = grip[t]
                  /\ t \in leases' <=> t \in leases
                BY <2>1, <3>1, OtherSessions
            <4>2. \A j \in Slots : pc'[t][j] = pc[t][j]
                BY <2>1, <3>1, OtherThreads
            <4> QED BY <4>1, <4>2 DEF PauseInv, LeaseInUse, PausedIsEmpty
        <3> QED BY <2>1, <3>1, WorkerPause DEF PauseInv
    <2>2. CASE (\E s \in Sessions : Submission(s) \/ Control(s)) \/ Teardown \/ Scheduler
        BY <2>2, OthersPause
    <2>3. CASE UNCHANGED vars
        BY <2>3 DEF vars, lifecycle, custody, threads, PauseInv, LeaseInUse, PausedIsEmpty
    <2> QED BY <2>1, <2>2, <2>3 DEF Next
<1>3. TypeOK /\ ReleaseInv /\ PauseInv => PausedHoldsNothing
    <2> SUFFICES ASSUME TypeOK, ReleaseInv, PauseInv,
                        NEW s \in Sessions, state[s] = "paused"
                 PROVE  s \notin leases /\ \A r \in Resources : owner[r] # s
        BY DEF PausedHoldsNothing
    <2>1. s \notin leases /\ grip[s] = {}
        BY DEF PauseInv, PausedIsEmpty
    <2>2. s # Free
        BY DispatcherAssumption DEF Free
    <2> QED BY <2>1, <2>2 DEF ReleaseInv, Backed
<1> QED BY <1>1, <1>2, <1>3, CustodyAlways, SchedulingAlways, ReleaseAlways, PTL DEF Spec

-----------------------------------------------------------------------------
(***************************************************************************)
(* Wakeups.                                                                *)
(***************************************************************************)
\* A set of naturals that is not empty has a least element.
LEMMA Least ==
    ASSUME NEW S \in SUBSET Nat, S # {}
    PROVE  \E m \in S : \A n \in S : m <= n
<1>1. PICK m \in S : \A y \in S : ~ (<<y, m>> \in OpToRel(<, Nat))
    BY NatLessThanWellFounded, WFMin
<1>2. ASSUME NEW n \in S, ~ (m <= n) PROVE FALSE
    <2>1. n \in Nat /\ m \in Nat /\ n < m
        BY <1>2
    <2>2. <<n, m>> \in { p \in Nat \X Nat : p[1] < p[2] }
        BY <2>1
    <2> QED BY <2>2, <1>1, Zenon DEF OpToRel
<1> QED BY <1>2

\* A queue that is not empty has a first entry.
LEMMA FirstInQueue ==
    ASSUME TypeOK, Queued # {}
    PROVE  \E s \in Queued : Before(s) = {}
<1>1. { pending[s] : s \in Queued } \in SUBSET Nat /\ { pending[s] : s \in Queued } # {}
    <2>1. \A s \in Queued : pending[s] \in Nat
        BY DEF TypeOK, Queued
    <2> QED BY <2>1
<1>2. PICK m \in { pending[s] : s \in Queued } : \A n \in { pending[s] : s \in Queued } : m <= n
    BY <1>1, Least
<1>3. PICK s \in Queued : pending[s] = m
    OBVIOUS
<1>4. ASSUME NEW t \in Queued PROVE ~ (pending[t] < pending[s])
    <2>1. pending[s] <= pending[t] /\ pending[s] \in Nat /\ pending[t] \in Nat
        BY <1>2, <1>3 DEF TypeOK, Queued
    <2> QED BY <2>1
<1> QED BY <1>4 DEF Before

\* While the scheduler waits and is not woken, a step that is no commit launches
\* nothing and ends no thread.
LEMMA UnwokenStep ==
    ASSUME TypeOK, Next, sched = "waiting", sched' = "waiting",
           \A s \in Sessions : ~ Commit(s)
    PROVE  /\ Selected' = Selected /\ Queued' = Queued
           /\ \A t \in Sessions : Live(t) => Live(t)'
           /\ \A t \in Sessions : admission[t] = "committed" => admission'[t] = "committed"
<1> USE DEF Notified
<1>1. ASSUME UNCHANGED << state, pending, reserved >>
      PROVE  Selected' = Selected /\ Queued' = Queued
    BY <1>1 DEF Selected, Queued, Blocked, Before
<1>2. ASSUME NEW s \in Sessions, Submission(s)
      PROVE  /\ UNCHANGED << state, pending, reserved, pc >>
             /\ \A t \in Sessions : admission[t] = "committed" => admission'[t] = "committed"
    BY <1>2 DEF Submission, Submit, AdmitRaises, SubmitReturns, lifecycle, custody, threads, TypeOK
<1>3. ASSUME NEW s \in Sessions, pause(s) \/ resume(s) \/ cancel(s)
      PROVE  UNCHANGED << state, pending, reserved, pc, admission >>
    BY <1>3 DEF pause, resume, cancel, Canceling, custody, threads
<1>4. ASSUME NEW s \in Sessions, close(s)
      PROVE  /\ Selected' = Selected /\ Queued' = Queued
             /\ UNCHANGED << pc, admission >>
    <2>1. /\ UNCHANGED << pending, reserved, pc, admission >>
          /\ state[s] # "pending" /\ state'[s] # "pending"
          /\ \A t \in Sessions : t # s => state'[t] = state[t]
        BY <1>4 DEF close, _is_settled, is_terminal, TERMINAL_STATES, Absent, custody, threads,
                    TypeOK
    <2>2. Queued' = Queued /\ Queued \subseteq Sessions
        BY <2>1 DEF Queued
    <2>3. ASSUME NEW t \in Sessions
          PROVE  Blocked(t)' <=> Blocked(t)
        <3>1. Before(t)' = Before(t)
            BY <2>1, <2>2 DEF Before
        <3> QED BY <2>1, <3>1 DEF Blocked
    <2> QED BY <2>1, <2>2, <2>3 DEF Selected
<1>5. CASE Teardown
    <2>1. UNCHANGED << state, pending, reserved, pc, admission >>
        BY <1>5 DEF Teardown, shutdown, ShutdownCancel, Canceling, ShutdownWaits,
                    ShutdownCollects, ShutdownReturns, lifecycle, custody, threads
    <2> QED BY <1>1, <2>1 DEF Live
<1>6. CASE Scheduler
    BY <1>6 DEF Scheduler, _schedule, SchedulerRests
<1>7. ASSUME NEW s \in Sessions, NEW k \in Slots, Worker(s, k)
      PROVE  /\ UNCHANGED << state, pending, reserved, admission >>
             /\ \A t \in Sessions : Live(t) => Live(t)'
    <2>1. ~ WorkerDone(s, k) /\ ~ Unreserve(s, k) /\ ~ PublishResult(s, k)
        BY DEF WorkerDone, Unreserve, PublishResult
    <2>2. UNCHANGED << state, pending, reserved, admission >>
        BY <1>7, <2>1 DEF Worker, WorkerStarts, Acquire, AcquireCanceled, AcquireFails,
                Register, Begin, OpenFails, Core, Invoke, Pop, Unlock, Settle,
                EmitTerminal, lifecycle, custody
    <2>3. pc'[s][k] # "idle"
        <3>1. CASE \/ WorkerStarts(s, k) \/ Acquire(s, k) \/ AcquireCanceled(s, k)
                   \/ AcquireFails(s, k) \/ Register(s, k) \/ Begin(s, k) \/ OpenFails(s, k)
            BY <3>1, MoveReads DEF WorkerStarts, Acquire, AcquireCanceled, AcquireFails,
                    Register, Begin, OpenFails
        <3>2. CASE \/ Core(s, k) \/ Invoke(s, k) \/ Pop(s, k) \/ Unlock(s, k) \/ Settle(s, k)
                   \/ EmitTerminal(s, k)
            BY <3>2, MoveReads DEF Core, Invoke, Pop, Unlock, AfterRelease, Settle, EmitTerminal
        <3> QED BY <1>7, <2>1, <3>1, <3>2 DEF Worker
    <2>4. ASSUME NEW t \in Sessions, Live(t) PROVE Live(t)'
        <3>1. PICK j \in Slots : pc[t][j] # "idle"
            BY <2>4 DEF Live
        <3>2. pc'[t][j] # "idle"
            BY <1>7, <2>3, <3>1, OtherThreads
        <3> QED BY <3>2 DEF Live
    <2> QED BY <2>2, <2>4
<1> QED BY <1>1, <1>2, <1>3, <1>4, <1>5, <1>6, <1>7 DEF Next, Control, Live

\* The scheduler never waits over an entry that it could launch, unless the
\* submit call that put it there has still to notify, and it never waits over
\* a queue when no thread is left that will wake it, with any number of
\* sessions and threads.
THEOREM WakeupsArrive == Spec => []NoLostWakeup
<1>1. Init => NoLostWakeup
    BY DEF Init, NoLostWakeup
<1>2. TypeOK /\ NoCustodyLeak /\ NoLostWakeup /\ [Next]_vars => NoLostWakeup'
    <2> SUFFICES ASSUME TypeOK, NoCustodyLeak, NoLostWakeup, [Next]_vars, sched' = "waiting"
                 PROVE  /\ Selected' # {} =>
                              \E s \in Sessions : admission'[s] = "committed"
                        /\ Queued' # {} =>
                              \E s \in Sessions : admission'[s] = "committed" \/ Live(s)'
        BY DEF NoLostWakeup
    <2>1. CASE UNCHANGED vars
        BY <2>1 DEF NoLostWakeup, vars, lifecycle, custody, threads, Selected, Queued, Blocked,
                    Before, Live
    <2>2. CASE Next /\ sched = "waiting" /\ \A s \in Sessions : ~ Commit(s)
        BY <2>2, UnwokenStep DEF NoLostWakeup
    <2>3. ASSUME NEW s \in Sessions, Commit(s)
          PROVE  admission'[s] = "committed"
        BY <2>3 DEF Commit, TypeOK
    <2>4. CASE SchedulerRests
        <3>1. Selected = {} /\ UNCHANGED << state, pending, reserved, pc >>
            BY <2>4 DEF SchedulerRests, lifecycle, custody, threads
        <3>2. Selected' = {}  /\ Queued' = Queued /\ \A t \in Sessions : Live(t) => Live(t)'
            BY <3>1 DEF Selected, Queued, Blocked, Before, Live
        <3>3. ASSUME Queued # {} PROVE \E t \in Sessions : Live(t)
            <4>1. PICK s \in Queued : Before(s) = {}
                BY <3>3, FirstInQueue
            <4>2. Res[s] \cap reserved # {}
                BY <3>1, <4>1 DEF Selected, Blocked
            <4> QED BY <4>2 DEF NoCustodyLeak
        <3> QED BY <3>2, <3>3
    <2>5. ASSUME Next, ~ SchedulerRests
          PROVE  sched = "waiting"
        <3> USE DEF Notified
        <3>1. ASSUME NEW s \in Sessions, Submission(s)
              PROVE  sched = "waiting"
            BY <3>1 DEF Submission, Submit, Commit, AdmitRaises, SubmitReturns
        <3>2. ASSUME NEW s \in Sessions, Control(s)
              PROVE  sched = "waiting"
            BY <3>2 DEF Control, pause, resume, cancel, Canceling, close
        <3>3. CASE Teardown
            BY <3>3 DEF Teardown, shutdown, ShutdownCancel, Canceling, ShutdownWaits,
                        ShutdownCollects, ShutdownReturns
        <3>4. CASE Scheduler
            BY <2>5, <3>4 DEF Scheduler, _schedule
        <3>5. ASSUME NEW s \in Sessions, NEW k \in Slots, Worker(s, k)
              PROVE  sched = "waiting"
            BY <3>5 DEF Worker, WorkerStarts, Acquire, AcquireCanceled, AcquireFails, Register,
                    Begin, OpenFails, Core, Invoke, Pop, Unlock, Unreserve, Settle,
                    PublishResult, EmitTerminal, WorkerDone
        <3> QED BY <2>5, <3>1, <3>2, <3>3, <3>4, <3>5 DEF Next
    <2> QED BY <2>1, <2>2, <2>3, <2>4, <2>5
<1> QED BY <1>1, <1>2, CustodyAlways, CustodyReturns, PTL DEF Spec

-----------------------------------------------------------------------------
(***************************************************************************)
(* Teardown, for callers that wait before they resume.  Once the scheduler *)
(* has ended, a session that goes on has no thread any more: what is still *)
(* queued then is never settled, so shutdown does not report it complete.  *)
(***************************************************************************)
Idle(s) == \A k \in Slots : pc[s][k] = "idle"

Ended ==
    sched = "exited" =>
        /\ ~ accepting
        /\ \A s \in Sessions :
              /\ state[s] \in Ongoing => Idle(s)
              /\ pending[s] > 0 => state[s] \in { "pending", "canceling" } /\ Idle(s)

Drained ==
    shut \in { "joining", "returned" } /\ report.complete =>
        Unfinished = {} /\ (report.custody_released => reserved = {})

Reported ==
    shut = "returned" /\ report.complete =>
        report.custody_released /\ sched = "exited" /\ Admitting = {}

TeardownInv ==
    /\ shut # "open" => ~ accepting
    /\ Ended /\ Drained /\ Reported

\* Once nothing is admitted any more, settled sessions stay the only ones.
LEMMA StaysFinished ==
    ASSUME TypeOK, RunnerInv, Next, ~ accepting, Unfinished = {}
    PROVE  Unfinished' = {}
<1> SUFFICES ASSUME NEW t \in Sessions, state'[t] # Absent
             PROVE  is_terminal(state'[t]) /\ result'[t] # NoResult
    BY DEF Unfinished, _is_settled
<1>1. CASE state[t] = Absent
    <2>1. ASSUME NEW s \in Sessions, NEW k \in Slots, Worker(s, k)
          PROVE  FALSE
        BY <1>1, <2>1, AbsentStays, OtherSessions
    <2>2. CASE (\E s \in Sessions : Submission(s) \/ Control(s)) \/ Teardown \/ Scheduler
        BY <1>1, <2>2 DEF Submission, Submit, Commit, AdmitRaises, SubmitReturns, Control, pause,
                resume, cancel, Canceling, close, Teardown, shutdown, ShutdownCancel,
                ShutdownWaits, ShutdownCollects, ShutdownReturns, Scheduler, _schedule,
                SchedulerRests, lifecycle, TypeOK, PauseAccepted, ResumeAccepted, CancelAccepted,
                SessionState, Absent
    <2> QED BY <2>1, <2>2 DEF Next
<1>2. CASE state[t] # Absent
    <2>1. is_terminal(state[t]) /\ result[t] # NoResult
        BY <1>2 DEF Unfinished, _is_settled
    <2>2. Final(t)
        BY WorkerFinal, OthersFinal DEF Next
    <2> QED BY <2>1, <2>2 DEF Final
<1> QED BY <1>1, <1>2

\* No step revives a scheduler that ended, nor opens admission again.
LEMMA StaysDown ==
    ASSUME Next
    PROVE  /\ ~ accepting => ~ accepting'
           /\ sched = "exited" => sched' = "exited"
           /\ sched' = "exited" => sched = "exited" \/ SchedulerRests
<1> USE DEF Notified
<1>1. ASSUME NEW s \in Sessions, Submission(s) \/ Control(s)
      PROVE  accepting' = accepting /\ (sched' = "exited" <=> sched = "exited")
    BY <1>1 DEF Submission, Submit, Commit, AdmitRaises, SubmitReturns, Control, pause, resume,
                cancel, Canceling, close
<1>2. CASE Teardown
    BY <1>2 DEF Teardown, shutdown, ShutdownCancel, Canceling, ShutdownWaits, ShutdownCollects,
                ShutdownReturns
<1>3. CASE Scheduler
    BY <1>3 DEF Scheduler, _schedule, SchedulerRests
<1>4. ASSUME NEW s \in Sessions, NEW k \in Slots, Worker(s, k)
      PROVE  accepting' = accepting /\ (sched' = "exited" <=> sched = "exited")
    BY <1>4 DEF Worker, WorkerStarts, Acquire, AcquireCanceled, AcquireFails, Register,
            Begin, OpenFails, Core, Invoke, Pop, Unlock, Unreserve, Settle,
            PublishResult, EmitTerminal, WorkerDone
<1> QED BY <1>1, <1>2, <1>3, <1>4 DEF Next

\* What holds once the scheduler ended goes on holding.
LEMMA EndedStays ==
    ASSUME TypeOK, RunnerInv, SchedulingInv, Next, Ended
    PROVE  Ended'
<1> SUFFICES ASSUME sched' = "exited"
             PROVE  /\ ~ accepting'
                    /\ \A s \in Sessions :
                          /\ state'[s] \in Ongoing => Idle(s)'
                          /\ pending'[s] > 0 => state'[s] \in { "pending", "canceling" }
                                                /\ Idle(s)'
    BY DEF Ended
<1>1. CASE SchedulerRests
    <2>1. ~ accepting' /\ Queued = {} /\ workers = {} /\ UNCHANGED << state, pending, pc >>
        BY <1>1 DEF SchedulerRests, lifecycle, threads
    <2>2. \A s \in Sessions : ~ (pending'[s] > 0)
        BY <2>1 DEF Queued
    <2> QED BY <2>1, <2>2 DEF SchedulingInv, OneWorker, Busy, Ongoing, Idle
<1>2. CASE ~ SchedulerRests
    <2>0. sched = "exited" /\ ~ accepting /\ ~ accepting'
        BY <1>2, StaysDown DEF Ended
    <2>1. ASSUME NEW s \in Sessions
          PROVE  /\ state[s] \in Ongoing => Idle(s)
                 /\ pending[s] > 0 => state[s] \in { "pending", "canceling" } /\ Idle(s)
                 /\ state[s] # "interrupted"
        BY <2>0 DEF Ended, SchedulingInv, NeverInterrupted
    <2>2. ASSUME UNCHANGED << state, pending, pc >>
          PROVE  \A s \in Sessions :
                          /\ state'[s] \in Ongoing => Idle(s)'
                          /\ pending'[s] > 0 => state'[s] \in { "pending", "canceling" }
                                                /\ Idle(s)'
        BY <2>1, <2>2 DEF Idle
    <2>3. ASSUME NEW s \in Sessions, pc' = pc,
                 \A t \in Sessions : t # s => state'[t] = state[t] /\ pending'[t] = pending[t],
                 \/ Idle(s) /\ state'[s] \in { "pending", "canceling" }
                 \/ Idle(s) /\ pending'[s] = pending[s] /\ pending[s] = 0
                 \/ state'[s] = Absent /\ pending'[s] = pending[s] /\ pending[s] = 0
          PROVE  \A t \in Sessions :
                          /\ state'[t] \in Ongoing => Idle(t)'
                          /\ pending'[t] > 0 => state'[t] \in { "pending", "canceling" }
                                                /\ Idle(t)'
        BY <2>1, <2>3 DEF Idle, Ongoing, Absent
    <2>4. ASSUME NEW s \in Sessions, Submission(s)
          PROVE  UNCHANGED << state, pending, pc >>
        BY <2>0, <2>4 DEF Submission, Submit, Commit, AdmitRaises, SubmitReturns, lifecycle,
                          threads
    <2>5. ASSUME NEW s \in Sessions, CancelAccepted(state[s]), Canceling(s)
          PROVE  \/ UNCHANGED << state, pending, pc >>
                 \/ /\ pc' = pc /\ Idle(s) /\ state'[s] \in { "pending", "canceling" }
                    /\ \A t \in Sessions : t # s => state'[t] = state[t] /\ pending'[t] = pending[t]
        <3>1. state[s] \in Ongoing
            BY <2>1, <2>5 DEF CancelAccepted, SessionState, TERMINAL_STATES, Ongoing
        <3>2. Idle(s)
            BY <2>1, <3>1
        <3> QED BY <2>5, <3>2, AppendedFacts DEF Canceling, threads, TypeOK
    <2>6. ASSUME NEW s \in Sessions, resume(s)
          PROVE  /\ pc' = pc /\ Idle(s) /\ state'[s] \in { "pending", "canceling" }
                 /\ \A t \in Sessions : t # s => state'[t] = state[t] /\ pending'[t] = pending[t]
        BY <2>1, <2>6, AppendedFacts DEF resume, ResumeAccepted, threads, TypeOK, Ongoing
    <2>7. ASSUME NEW s \in Sessions, pause(s) \/ close(s)
          PROVE  /\ pc' = pc /\ pending' = pending /\ pending[s] = 0
                 /\ Idle(s) \/ state'[s] = Absent
                 /\ \A t \in Sessions : t # s => state'[t] = state[t]
        <3>1. /\ pc' = pc /\ pending' = pending
              /\ \A t \in Sessions : t # s => state'[t] = state[t]
              /\ \/ state[s] = "running"
                 \/ state[s] \in TERMINAL_STATES /\ state'[s] = Absent
            BY <2>7 DEF pause, close, PauseAccepted, _is_settled, is_terminal, threads, TypeOK
        <3>2. ~ (pending[s] > 0) /\ pending[s] \in Nat
            BY <2>1, <3>1 DEF TypeOK, TERMINAL_STATES
        <3>3. state[s] = "running" => Idle(s)
            BY <2>1 DEF Ongoing
        <3> QED BY <3>1, <3>2, <3>3
    <2>8. ASSUME NEW s \in Sessions, NEW k \in Slots, Worker(s, k)
          PROVE  \A t \in Sessions :
                          /\ state'[t] \in Ongoing => Idle(t)'
                          /\ pending'[t] > 0 => state'[t] \in { "pending", "canceling" }
                                                /\ Idle(t)'
        <3>1. ASSUME NEW t \in Sessions, t # s
              PROVE  /\ state'[t] = state[t] /\ pending'[t] = pending[t]
                     /\ Idle(t) => Idle(t)'
            BY <2>8, <3>1, OtherSessions, OtherThreads DEF Idle
        <3>2. pc[s][k] # "idle"
            BY <2>8 DEF Worker, WorkerStarts, Acquire, AcquireCanceled, AcquireFails, Register,
                    Begin, OpenFails, Core, Invoke, Pop, Unlock, Unreserve, Settle,
                    PublishResult, EmitTerminal, WorkerDone
        <3>3. state[s] \notin Ongoing /\ pending[s] = 0
            <4>1. ~ Idle(s) /\ pending[s] \in Nat
                BY <3>2 DEF Idle, TypeOK
            <4> QED BY <2>1, <4>1
        <3>4. state'[s] \notin Ongoing
            BY <2>8, <3>3, WorkerOngoing
        <3>5. pending'[s] = pending[s]
            <4>1. CASE WorkerDone(s, k)
                BY <3>3, <4>1 DEF WorkerDone, Ongoing
            <4>2. CASE ~ WorkerDone(s, k)
                BY <2>8, <4>2 DEF Worker, WorkerStarts, Acquire, AcquireCanceled, AcquireFails,
                    Register, Begin, OpenFails, Core, Invoke, Pop, Unlock, Unreserve, Settle,
                    PublishResult, EmitTerminal
            <4> QED BY <4>1, <4>2
        <3> QED BY <2>1, <3>1, <3>3, <3>4, <3>5
    <2>9. CASE Teardown
        <3>1. ASSUME NEW s \in Sessions, ShutdownCancel(s)
              PROVE  \/ UNCHANGED << state, pending, pc >>
                     \/ CancelAccepted(state[s]) /\ Canceling(s)
            BY <3>1 DEF ShutdownCancel, lifecycle, threads
        <3>2. CASE shutdown \/ ShutdownWaits \/ ShutdownCollects \/ ShutdownReturns
            BY <2>2, <3>2, <2>0 DEF shutdown, ShutdownWaits, ShutdownCollects, ShutdownReturns,
                              lifecycle, threads
        <3> QED BY <2>0, <2>2, <2>3, <2>5, <2>9, <3>1, <3>2 DEF Teardown
    <2>10. ~ Scheduler
        BY <1>2, <2>0 DEF Scheduler, _schedule
    <2> QED BY <2>0, <2>2, <2>3, <2>4, <2>5, <2>6, <2>7, <2>8, <2>9, <2>10
            DEF Next, Control, cancel
<1> QED BY <1>1, <1>2

\* What shutdown collected stays a fact.
LEMMA CollectedStays ==
    ASSUME TypeOK, RunnerInv, TeardownInv, Next
    PROVE  (shut # "open" => ~ accepting)' /\ Drained' /\ Reported'
<1>1. CASE ShutdownCollects
    BY <1>1, StaysDown
       DEF ShutdownCollects, TeardownInv, Drained, Reported, Unfinished, _is_settled, lifecycle,
           custody
<1>2. CASE ShutdownReturns
    <2>1. /\ shut = "joining" /\ shut' = "returned"
          /\ report'.custody_released = report.custody_released
          /\ report'.complete => /\ report.complete /\ report.custody_released
                                 /\ sched = "exited" /\ Admitting = {}
        BY <1>2 DEF ShutdownReturns, TypeOK
    <2>2. UNCHANGED << state, result, reserved, sched, admission, accepting >>
        BY <1>2 DEF ShutdownReturns, lifecycle, custody
    <2> QED BY <2>1, <2>2 DEF TeardownInv, Drained, Reported, Unfinished, _is_settled, Admitting
<1>3. CASE shutdown \/ ShutdownWaits
    BY <1>3 DEF shutdown, ShutdownWaits, TeardownInv, Drained, Reported
<1>4. ASSUME UNCHANGED << shut, report >>
      PROVE  (shut # "open" => ~ accepting)' /\ Drained' /\ Reported'
    <2>1. (shut # "open" => ~ accepting)'
        BY <1>4, StaysDown DEF TeardownInv
    <2>2. ASSUME shut \in { "joining", "returned" }, report.complete
          PROVE  Unfinished = {} /\ Unfinished' = {} /\ ~ accepting
        BY <2>2, StaysFinished DEF TeardownInv, Drained
    <2>3. ASSUME Unfinished = {}
          PROVE  reserved' \subseteq reserved
        <3>1. \A s \in Sessions : state[s] # "pending"
            BY <2>3 DEF Unfinished, _is_settled, is_terminal, TERMINAL_STATES, Absent
        <3>2. CASE _schedule
            BY <3>1, <3>2 DEF _schedule, Selected, Queued
        <3>3. ASSUME NEW s \in Sessions, NEW k \in Slots, Worker(s, k)
              PROVE  reserved' \subseteq reserved
            BY <3>3 DEF Worker, WorkerStarts, Acquire, AcquireCanceled, AcquireFails, Register,
                    Begin, OpenFails, Core, Invoke, Pop, Unlock, Unreserve, Settle,
                    PublishResult, EmitTerminal, WorkerDone, custody
        <3>4. CASE (\E s \in Sessions : Submission(s) \/ Control(s)) \/ Teardown \/ SchedulerRests
            BY <3>4 DEF Submission, Submit, Commit, AdmitRaises, SubmitReturns, Control, pause,
                    resume, cancel, Canceling, close, Teardown, shutdown, ShutdownCancel,
                    ShutdownWaits, ShutdownCollects, ShutdownReturns, SchedulerRests, custody
        <3> QED BY <3>2, <3>3, <3>4 DEF Next, Scheduler
    <2>4. Drained'
        BY <1>4, <2>2, <2>3 DEF TeardownInv, Drained
    <2>5. ASSUME ~ accepting, Admitting = {}
          PROVE  Admitting' = {}
        <3>1. \A s \in Sessions : ~ Submission(s)
            BY <2>5 DEF Submission, Submit, Commit, AdmitRaises, SubmitReturns, Admitting
        <3>2. admission' = admission
            BY <3>1 DEF Next, Control, pause, resume, cancel, Canceling, close, Teardown,
                    shutdown, ShutdownCancel, ShutdownWaits, ShutdownCollects, ShutdownReturns,
                    Scheduler, _schedule, SchedulerRests, Worker, WorkerStarts, Acquire,
                    AcquireCanceled, AcquireFails, Register, Begin, OpenFails, Core, Invoke, Pop,
                    Unlock, Unreserve, Settle, PublishResult, EmitTerminal, WorkerDone
        <3> QED BY <2>5, <3>2 DEF Admitting
    <2>6. Reported'
        BY <1>4, <2>2, <2>5, StaysDown DEF TeardownInv, Reported
    <2> QED BY <2>1, <2>4, <2>6
<1>5. ~ ShutdownCollects /\ ~ ShutdownReturns /\ ~ shutdown /\ ~ ShutdownWaits
      => UNCHANGED << shut, report >>
    <2>1. ASSUME NEW s \in Sessions, Submission(s) \/ Control(s)
          PROVE  UNCHANGED << shut, report >>
        BY <2>1 DEF Submission, Submit, Commit, AdmitRaises, SubmitReturns, Control, pause, resume,
                cancel, Canceling, close, teardown
    <2>2. ASSUME NEW s \in Sessions, NEW k \in Slots, Worker(s, k)
          PROVE  UNCHANGED << shut, report >>
        BY <2>2 DEF Worker, WorkerStarts, Acquire, AcquireCanceled, AcquireFails, Register,
                Begin, OpenFails, Core, Invoke, Pop, Unlock, Unreserve, Settle,
                PublishResult, EmitTerminal, WorkerDone, teardown
    <2>3. CASE Scheduler
        BY <2>3 DEF Scheduler, _schedule, SchedulerRests, teardown
    <2>4. ASSUME NEW s \in Sessions, ShutdownCancel(s)
          PROVE  UNCHANGED << shut, report >>
        BY <2>4 DEF ShutdownCancel
    <2> QED BY <2>1, <2>2, <2>3, <2>4 DEF Next, Teardown
<1> QED BY <1>1, <1>2, <1>3, <1>4, <1>5

\* When shutdown answers complete=True, no session is left unsettled or queued,
\* no submit call is under way and nothing is reserved, for good, provided that
\* callers resume a session only after the worker of its pause retired.  Without
\* that the theorem is false: the scheduler may end although a worker of a
\* session that goes on still runs, and a cancel then queues the session.
THEOREM CompleteIsFinal ==
    ASSUME ~ PromptResume
    PROVE  Spec => []ShutdownSettles
<1>1. Init => TeardownInv
    BY DEF Init, TeardownInv, Ended, Drained, Reported
<1>2. /\ TypeOK /\ RunnerInv /\ SchedulingInv
      /\ TeardownInv /\ [Next]_vars
      => TeardownInv'
    <2> SUFFICES ASSUME TypeOK, RunnerInv, SchedulingInv, TeardownInv, [Next]_vars
                 PROVE  TeardownInv'
        OBVIOUS
    <2>1. CASE Next
        BY <2>1, EndedStays, CollectedStays DEF TeardownInv
    <2>2. CASE UNCHANGED vars
        BY <2>2 DEF vars, lifecycle, custody, threads, teardown, TeardownInv, Ended, Drained,
                    Reported, Idle, Unfinished, _is_settled, Admitting
    <2> QED BY <2>1, <2>2
<1>3. TypeOK /\ TeardownInv => ShutdownSettles
    <2> SUFFICES ASSUME TypeOK, TeardownInv, shut = "returned", report.complete
                 PROVE  Unfinished = {} /\ Admitting = {} /\ Queued = {} /\ reserved = {}
        BY DEF ShutdownSettles
    <2>1. Unfinished = {} /\ Admitting = {} /\ reserved = {} /\ sched = "exited"
        BY DEF TeardownInv, Drained, Reported
    <2>2. ASSUME NEW s \in Queued PROVE FALSE
        <3>1. s \in Sessions /\ state[s] \in { "pending", "canceling" }
            BY <2>1 DEF TeardownInv, Ended, Queued
        <3> QED BY <2>1, <3>1 DEF Unfinished, _is_settled, is_terminal, TERMINAL_STATES, Absent
    <2> QED BY <2>1, <2>2
<1> QED BY <1>1, <1>2, <1>3, CustodyAlways, SchedulingAlways, PTL DEF Spec
=============================================================================
