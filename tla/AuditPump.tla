----------------------------- MODULE AuditPump ------------------------------
(***************************************************************************)
(* _AuditPump of dispatcher/event_bus.py: the bounded queue between the    *)
(* session's event hub and the admission-time audit observer (history),    *)
(* the pump thread that calls the observer, and the finalize handshake.    *)
(*                                                                         *)
(* A blocking put that finds the queue full either waits, which is the     *)
(* action not happening yet, or runs into its timeout, which may happen at *)
(* any moment at which the queue is full.                                  *)
(***************************************************************************)
EXTENDS Naturals, Sequences

CONSTANT AuditCapacity      \* Queue(maxsize=capacity)

ASSUME AuditAssumption == AuditCapacity \in Nat \ { 0 }

VARIABLES
    queue,      \* _queue
    degraded,   \* _degraded
    closed,     \* _closed
    pump,       \* pump thread: waiting, calling the observer, or exited
    command,    \* the command whose observer call the pump thread is in
    answer,     \* the _Finalize command: not complete, succeeded, or not
    fin,        \* finalize call: not made, waiting for the answer, returned
    audit,      \* the RecordingStatus that finalize returned
    ending,     \* close call: not made, called, joining the thread, or what it returned
    offered,    \* history: the events handed to offer
    owed,       \* history: the events offered when finalize was called
    heard       \* history: the events that on_event took

pumpVars == << queue, degraded, closed, pump, command, answer, fin, audit, ending,
               offered, owed, heard >>

Event(n)  == [tag |-> "event", seq |-> n]
_Finalize == [tag |-> "finalize", seq |-> 0]
_Stop     == [tag |-> "stop", seq |-> 0]

Full == Len(queue) >= AuditCapacity

PumpInit ==
    /\ queue = << >>
    /\ degraded = FALSE
    /\ closed = FALSE
    /\ pump = "waiting"
    /\ command = _Stop
    /\ answer = "none"
    /\ fin = "none"
    /\ audit = "none"
    /\ ending = "none"
    /\ offered = {}
    /\ owed = {}
    /\ heard = {}

-----------------------------------------------------------------------------
(***************************************************************************)
(* The hub's side.                                                         *)
(***************************************************************************)

\* Mutant: an event that finds the queue full is dropped without a trace.
OfferDrops(n) ==
    /\ offered' = offered \cup { n }
    /\ queue' = IF degraded \/ Full THEN queue ELSE Append(queue, Event(n))
    /\ UNCHANGED << degraded, closed, pump, command, answer, fin, audit, ending, owed, heard >>

\* A degraded audit takes nothing any more; a put that times out degrades it.
offer(n) ==
    /\ offered' = offered \cup { n }
    /\ queue' = IF degraded \/ Full THEN queue ELSE Append(queue, Event(n))
    /\ degraded' = (degraded \/ Full)
    /\ UNCHANGED << closed, pump, command, answer, fin, audit, ending, owed, heard >>

\* finalize up to its wait.  A degraded audit is only told to stop, if it can.
finalize ==
    /\ fin = "none"
    /\ owed' = offered
    /\ IF degraded \/ Full
       THEN /\ fin' = "returned"
            /\ audit' = "degraded"
            /\ queue' = IF Full THEN queue ELSE Append(queue, _Stop)
            /\ degraded' = TRUE
       ELSE /\ fin' = "waiting"
            /\ queue' = Append(queue, _Finalize)
            /\ UNCHANGED << audit, degraded >>
    /\ UNCHANGED << closed, pump, command, answer, ending, offered, heard >>

\* Mutant: an answer is taken for a success.
FinalizeTrusts ==
    /\ fin = "waiting"
    /\ answer # "none"
    /\ fin' = "returned"
    /\ audit' = "ok"
    /\ UNCHANGED << queue, degraded, closed, pump, command, answer, ending, offered, owed, heard >>

FinalizeAnswered ==
    /\ fin = "waiting"
    /\ answer # "none"
    /\ fin' = "returned"
    /\ audit' = IF answer = "succeeded" /\ ~ degraded THEN "ok" ELSE "degraded"
    /\ UNCHANGED << queue, degraded, closed, pump, command, answer, ending, offered, owed, heard >>

\* Mutant: the wait for the answer has no timeout.
FinalizeWaits ==
    /\ fin = "waiting"
    /\ answer # "none"
    /\ fin' = "returned"
    /\ audit' = "degraded"
    /\ UNCHANGED << queue, degraded, closed, pump, command, answer, ending, offered, owed, heard >>

FinalizeTimesOut ==
    /\ fin = "waiting"
    /\ fin' = "returned"
    /\ audit' = "degraded"
    /\ degraded' = TRUE
    /\ UNCHANGED << queue, closed, pump, command, answer, ending, offered, owed, heard >>

\* close up to its join.
close ==
    /\ ending = "called"
    /\ IF closed    THEN ending' = "done" /\ UNCHANGED << queue, degraded >>
       ELSE IF Full THEN ending' = "failed" /\ degraded' = TRUE /\ UNCHANGED queue
                    ELSE ending' = "joining" /\ queue' = Append(queue, _Stop) /\ UNCHANGED degraded
    /\ UNCHANGED << closed, pump, command, answer, fin, audit, offered, owed, heard >>

CloseReturns ==
    /\ ending = "joining"
    /\ ending' = IF pump = "exited" THEN "done" ELSE "failed"
    /\ UNCHANGED << queue, degraded, closed, pump, command, answer, fin, audit, offered, owed,
                    heard >>

-----------------------------------------------------------------------------
(***************************************************************************)
(* The pump thread, _run.                                                  *)
(***************************************************************************)
Takes(tags) ==
    /\ pump = "waiting"
    /\ queue # << >>
    /\ Head(queue).tag \in tags
    /\ queue' = Tail(queue)

Exits ==
    /\ pump' = "exited"
    /\ closed' = TRUE

\* A call of the observer begins.  A degraded audit is spared all but its close.
PumpCalls ==
    /\ Takes({ "event", "finalize", "stop" })
    /\ degraded => Head(queue).tag = "stop"
    /\ pump' = "calling"
    /\ command' = Head(queue)
    /\ UNCHANGED << degraded, closed, answer, fin, audit, ending, offered, owed, heard >>

PumpSkips ==
    /\ Takes({ "event", "finalize" })
    /\ degraded
    /\ IF Head(queue).tag = "event"
       THEN UNCHANGED << pump, closed, answer >>
       ELSE Exits /\ answer' = "failed"
    /\ UNCHANGED << degraded, command, fin, audit, ending, offered, owed, heard >>

\* The thread ends with the command it is in, unless that is an event.
PumpEnds(outcome) ==
    IF command.tag = "event"
    THEN pump' = "waiting" /\ UNCHANGED << closed, answer >>
    ELSE Exits /\ answer' = IF command.tag = "finalize" THEN outcome ELSE answer

\* observer.on_event returns, or observer.finalize and observer.close do.
PumpReturns ==
    /\ pump = "calling"
    /\ PumpEnds("succeeded")
    /\ heard' = IF command.tag = "event" THEN heard \cup { command.seq } ELSE heard
    /\ UNCHANGED << queue, degraded, command, fin, audit, ending, offered, owed >>

\* Mutant: an exception of the observer is swallowed.
PumpSwallows ==
    /\ pump = "calling"
    /\ PumpEnds("succeeded")
    /\ UNCHANGED << queue, degraded, command, fin, audit, ending, offered, owed, heard >>

\* The observer raises.
PumpRaises ==
    /\ pump = "calling"
    /\ PumpEnds("failed")
    /\ degraded' = TRUE
    /\ UNCHANGED << queue, command, fin, audit, ending, offered, owed, heard >>

Pump == PumpCalls \/ PumpSkips \/ PumpReturns \/ PumpRaises

Closing == close \/ CloseReturns
=============================================================================
