--------------------------- MODULE SessionEvents ----------------------------
(***************************************************************************)
(* The events of one session: the dispatcher's threads that change its     *)
(* record and the hub they announce it to.  A transition is made under the *)
(* dispatcher's lock and announced after the lock is released, by the same *)
(* thread, so another thread's transition and its announcement may come    *)
(* between.  One worker runs the session (run_session), callers pause,     *)
(* resume, cancel and close it, and consumers subscribe.                   *)
(***************************************************************************)
EXTENDS EventHub

CONSTANTS
    Callers,        \* the threads that call pause, resume and cancel
    Outcomes,       \* the terminal statuses that the workflow may settle with
    MaxItems,       \* bound: Item and Progress events of the workflow
    MaxControls     \* bound: control calls that change the state

ASSUME EventsAssumption ==
    /\ Outcomes \subseteq TERMINAL_STATES
    /\ MaxItems \in Nat
    /\ MaxControls \in Nat

VARIABLES
    record,     \* record.state
    published,  \* record.result is not None
    cancel,     \* control.cancel_requested()
    worker,     \* where run_session is
    voice,      \* voice[t]: the state that thread t has still to announce, or Silent
    listed,     \* the hub is in dispatcher._hubs
    asked,      \* consumers between the look-up of the hub and hub.subscribe
    work,       \* events the workflow emitted
    controls    \* control calls that changed the state

sessionVars == << record, published, cancel, worker, voice, listed, asked, work, controls >>
vars == << pumpVars, hubVars, sessionVars >>

Silent == "silent"

\* A worker that ended in a pause is "retired": the next one does not wait for
\* what it has still to announce.
Threads == Callers \cup { "submit", "worker", "retired" }

TypeOK ==
    /\ record \in SessionState
    /\ { published, cancel } \subseteq BOOLEAN
    /\ worker \in { "idle", "work", "settled", "finalizing", "done" }
    /\ voice \in [Threads -> SessionState \cup { Silent }]
    /\ listed \in BOOLEAN
    /\ asked \subseteq Subscribers
    /\ log \in Seq(Body)
    /\ hubState \in SessionState
    /\ Len(replay) <= ReplayCapacity
    /\ attached \subseteq opened
    /\ ejected \subseteq shutOff
    /\ seen \in [Subscribers -> SessionState]
    /\ Len(queue) <= AuditCapacity
    /\ audit \in { "none", "ok", "degraded" }

\* _admit has committed the record and has still to emit PENDING.
Init ==
    /\ PumpInit
    /\ HubInit
    /\ record = "pending"
    /\ published = FALSE
    /\ cancel = FALSE
    /\ worker = "idle"
    /\ voice = [t \in Threads |-> IF t = "submit" THEN "pending" ELSE Silent]
    /\ listed = TRUE
    /\ asked = {}
    /\ work = 0
    /\ controls = 0

-----------------------------------------------------------------------------
\* _transition_locked by thread t, which announces the state later.
Transition(t, state) ==
    /\ Legal(record, state)
    /\ voice[t] = Silent
    /\ record' = state
    /\ voice' = [voice EXCEPT ![t] = state]

\* hub.emit(StateChanged(updated.state)), outside the dispatcher's lock.
Announce(t) ==
    /\ voice[t] # Silent
    /\ emit(voice[t])
    /\ voice' = [voice EXCEPT ![t] = Silent]
    /\ UNCHANGED << record, published, cancel, worker, listed, asked, work, controls >>

ControlAccepted(state) ==
    \/ state = "pausing" /\ PauseAccepted(record, TRUE) /\ UNCHANGED cancel
    \/ state = "pending" /\ ResumeAccepted(record) /\ cancel' = FALSE
    \/ state = "canceling" /\ CancelAccepted(record) /\ record # "pausing" /\ cancel' = TRUE

\* pause, resume and cancel of the dispatcher.  A cancel that meets a session in
\* PAUSING only sets the request.
Control(c) ==
    /\ \/ /\ controls < MaxControls
          /\ \E state \in { "pausing", "pending", "canceling" } :
                ControlAccepted(state) /\ Transition(c, state)
          /\ controls' = controls + 1
       \/ /\ record = "pausing"
          /\ cancel' = TRUE
          /\ UNCHANGED << record, voice, controls >>
    /\ UNCHANGED << hubVars, pumpVars, published, worker, listed, asked, work >>

-----------------------------------------------------------------------------
(***************************************************************************)
(* The worker.                                                             *)
(***************************************************************************)

\* A launched worker begins, or finds the session canceled.
Begin ==
    /\ worker = "idle"
    /\ worker' = "work"
    /\ \/ Transition("worker", "running")
       \/ record = "canceling" /\ UNCHANGED << record, voice >>
    /\ UNCHANGED << hubVars, pumpVars, published, cancel, listed, asked, work, controls >>

\* ctx.emit of the workflow.
Work ==
    /\ worker = "work"
    /\ voice["worker"] = Silent
    /\ work < MaxItems
    /\ work' = work + 1
    /\ \E body \in { Item, Progress } : emit(body)
    /\ UNCHANGED << record, published, cancel, worker, voice, listed, asked, controls >>

\* settle(): the transition to PAUSED, which ends this worker, or to the
\* terminal status.
Settle ==
    /\ worker = "work"
    /\ voice["worker"] = Silent
    /\ \/ Transition("retired", "paused") /\ worker' = "idle"
       \/ \E state \in Outcomes : Transition("worker", state) /\ worker' = "settled"
    /\ UNCHANGED << hubVars, pumpVars, published, cancel, listed, asked, work, controls >>

\* _worker_done: a cancel that came while the session was in PAUSING takes effect.
WorkerDone ==
    /\ worker = "idle"
    /\ record = "paused"
    /\ cancel
    /\ Transition("retired", "canceling")
    /\ UNCHANGED << hubVars, pumpVars, published, cancel, worker, listed, asked, work, controls >>

FinalizeAudit ==
    /\ worker = "settled"
    /\ voice["worker"] = Silent
    /\ finalize
    /\ worker' = "finalizing"
    /\ UNCHANGED << hubVars, record, published, cancel, voice, listed, asked, work, controls >>

AwaitAudit ==
    /\ FinalizeAnswered \/ FinalizeTimesOut
    /\ UNCHANGED << hubVars, sessionVars >>

Publish ==
    /\ worker = "finalizing"
    /\ fin = "returned"
    /\ ~ published
    /\ published' = TRUE
    /\ UNCHANGED << hubVars, pumpVars, record, cancel, worker, voice, listed, asked, work, controls >>

EmitTerminal ==
    /\ worker = "finalizing"
    /\ published
    /\ emit(Terminal)
    /\ worker' = "done"
    /\ UNCHANGED << record, published, cancel, voice, listed, asked, work, controls >>

-----------------------------------------------------------------------------
(***************************************************************************)
(* Consumers, and close.                                                   *)
(***************************************************************************)

\* Dispatcher.subscribe takes the hub under the lock and leaves it.
Lookup(x) ==
    /\ listed
    /\ x \notin asked \cup opened
    /\ asked' = asked \cup { x }
    /\ UNCHANGED << hubVars, pumpVars, record, published, cancel, worker, voice, listed, work,
                    controls >>

Subscribe(x) ==
    /\ x \in asked
    /\ \E requested \in 1 .. _seq + 1 : subscribe(x, requested)
    /\ asked' = asked \ { x }
    /\ UNCHANGED << record, published, cancel, worker, voice, listed, work, controls >>

Consume(x) == (next(x) \/ hangUp(x)) /\ UNCHANGED sessionVars

\* Dispatcher.close: a settled session leaves the table, then its hub closes.
Unlist ==
    /\ is_terminal(record)
    /\ published
    /\ listed
    /\ listed' = FALSE
    /\ UNCHANGED << hubVars, pumpVars, record, published, cancel, worker, voice, asked, work,
                    controls >>

CloseHub ==
    /\ \/ ~ listed /\ CloseStreams
       \/ Closing /\ UNCHANGED hubVars
    /\ UNCHANGED sessionVars

PumpStep == Pump /\ UNCHANGED << hubVars, sessionVars >>

Next ==
    \/ \E t \in Threads : Announce(t)
    \/ \E c \in Callers : Control(c)
    \/ Begin \/ Work \/ Settle \/ WorkerDone
    \/ FinalizeAudit \/ AwaitAudit \/ Publish \/ EmitTerminal
    \/ \E x \in Subscribers : Lookup(x) \/ Subscribe(x) \/ Consume(x)
    \/ Unlist \/ CloseHub
    \/ PumpStep

Spec == Init /\ [][Next]_vars

(***************************************************************************)
(* Fairness.  Every thread that can step does: the announcing threads, the *)
(* worker (a put or a wait ends at the latest by its timeout), a subscribe *)
(* call under way, and close.  The observer may hang: PumpStep is not fair.*)
(***************************************************************************)
Fairness ==
    /\ \A t \in Threads : WF_vars(Announce(t))
    /\ WF_vars(Begin)
    /\ WF_vars(Settle)
    /\ WF_vars(WorkerDone)
    /\ WF_vars(FinalizeAudit \/ AwaitAudit \/ Publish \/ EmitTerminal)
    /\ \A x \in Subscribers : WF_vars(Subscribe(x))
    /\ WF_vars(CloseHub)

FairSpec == Spec /\ Fairness

-----------------------------------------------------------------------------
(***************************************************************************)
(* Properties.                                                             *)
(***************************************************************************)
History(x) == got[x] \o items[x]

Misses(x, n) ==
    LET h == History(x)
    IN  /\ \A i \in DOMAIN h : h[i].body = Gap \/ h[i].seq # n
        /\ \A i \in DOMAIN h :
              h[i].body = Gap /\ h[i].first <= n => i # Len(h) /\ h[i + 1].seq <= n

\* A subscriber never loses a reliable event silently: what it asked for was
\* taken, waits in its queue, or lies in the hole that a Gap announces, and it
\* receives everything in order.  Only a stream closed by its consumer or with
\* the session ends early.
NoSilentLoss ==
    \A x \in opened \ (shutOff \ ejected) :
        /\ \A n \in from[x] .. _seq : Reliable(log[n]) => ~ Misses(x, n)
        /\ \A i, j \in DOMAIN History(x) : i < j => History(x)[i].seq < History(x)[j].seq

\* audit=OK is a fact: the observer took every reliable event that was emitted
\* before the finalize handshake, and finalized.
AuditTruthful == audit = "ok" => owed \subseteq heard /\ answer = "succeeded"

\* A hung or failing observer never keeps the session from its result: the
\* waits of the handshake and of every emit are bounded.
ResultPublished == worker = "settled" ~> worker = "done"

-----------------------------------------------------------------------------
(***************************************************************************)
(* Promises of the documentation that the code does not keep in every      *)
(* behaviour.  The README describes the behaviours that break them.        *)
(***************************************************************************)
\* The queue of a subscriber is bounded by its capacity.
QueueBounded == \A x \in Subscribers : Len(items[x]) <= SubscriberCapacity

\* A reliable event reaches the history observer or the audit reads DEGRADED.
AuditComplete ==
    audit = "ok" =>
        \A n \in 1 .. _seq : Reliable(log[n]) /\ log[n] # Terminal => n \in heard

\* Once every thread has announced its transitions, a late subscriber is told
\* the state the session is in.
CurrentState == (\A t \in Threads : voice[t] = Silent) => hubState = record

\* Every stream of a session that was closed ends, so its consumer stops.
StreamsEnd == \A x \in Subscribers : ending = "done" /\ x \in opened \cup asked ~> x \in shutOff
=============================================================================
