---------------------------- MODULE EventsProofs ----------------------------
(***************************************************************************)
(* Proofs about a session's events: the hub, its streams and the audit     *)
(* pump, for any consumers, callers and capacities.  PumpInv says where an *)
(* offered event is while the audit is not degraded; HubInv says that each *)
(* history, taken and waiting, tells of everything that was asked for, and *)
(* that the replay buffer has no hole.  Each operation on a buffer has a   *)
(* lemma of its own; the steps of the hub and of the pump rest on them.    *)
(***************************************************************************)
EXTENDS SessionEvents, TLAPS, SequenceTheorems, WellFoundedInduction

-----------------------------------------------------------------------------
(***************************************************************************)
(* Which steps touch what.                                                 *)
(***************************************************************************)
\* The hub is changed by its own operations.
LEMMA HubSteps ==
    ASSUME TypeOK, Next
    PROVE  \/ \E body \in Body : emit(body)
           \/ \E x \in Subscribers : \/ \E requested \in 1 .. _seq + 1 : subscribe(x, requested)
                                     \/ next(x) \/ hangUp(x)
           \/ CloseStreams
           \/ UNCHANGED hubVars
<1>1. ASSUME NEW t \in Threads, Announce(t)
      PROVE  \E body \in Body : emit(body)
    BY <1>1 DEF Announce, TypeOK, Body
<1>2. CASE Work \/ EmitTerminal
    BY <1>2 DEF Work, EmitTerminal, Body
<1>3. ASSUME NEW x \in Subscribers, Lookup(x) \/ Subscribe(x) \/ Consume(x)
      PROVE  \/ \E requested \in 1 .. _seq + 1 : subscribe(x, requested)
             \/ next(x) \/ hangUp(x) \/ UNCHANGED hubVars
    BY <1>3 DEF Lookup, Subscribe, Consume
<1>4. CASE CloseHub
    BY <1>4 DEF CloseHub
<1>5. CASE \/ \E c \in Callers : Control(c)
           \/ Begin \/ Settle \/ WorkerDone
           \/ FinalizeAudit \/ AwaitAudit \/ Publish \/ Unlist \/ PumpStep
    BY <1>5 DEF Control, Begin, Settle, WorkerDone, FinalizeAudit, AwaitAudit, Publish, Unlist, PumpStep
<1> QED BY <1>1, <1>2, <1>3, <1>4, <1>5 DEF Next

\* The pump is changed by its own operations.
LEMMA PumpSteps ==
    ASSUME TypeOK, Next
    PROVE  \/ \E n \in Nat : offer(n)
           \/ finalize \/ FinalizeAnswered \/ FinalizeTimesOut \/ Closing \/ Pump
           \/ UNCHANGED << queue, degraded, closed, pump, command, answer, fin, audit,
                           offered, owed, heard >>
<1> USE DEF pumpVars
<1>0. _seq + 1 \in Nat
    BY LenProperties DEF TypeOK, _seq
<1>1. ASSUME NEW body, emit(body)
      PROVE  (\E n \in Nat : offer(n)) \/ UNCHANGED pumpVars
    BY <1>0, <1>1 DEF emit
<1>2. CASE (\E t \in Threads : Announce(t)) \/ Work \/ EmitTerminal
    BY <1>1, <1>2 DEF Announce, Work, EmitTerminal
<1>3. ASSUME NEW x \in Subscribers, Lookup(x) \/ Subscribe(x) \/ Consume(x)
      PROVE  UNCHANGED pumpVars
    BY <1>3 DEF Lookup, Subscribe, Consume, subscribe, next, hangUp
<1>4. CASE CloseHub
    BY <1>4 DEF CloseHub, CloseStreams
<1>5. CASE FinalizeAudit \/ AwaitAudit \/ PumpStep
    BY <1>5 DEF FinalizeAudit, AwaitAudit, PumpStep
<1>6. CASE (\E c \in Callers : Control(c)) \/ Begin \/ Settle \/ WorkerDone \/ Publish \/ Unlist
    BY <1>6 DEF Control, Begin, Settle, WorkerDone, Publish, Unlist
<1> QED BY <1>2, <1>3, <1>4, <1>5, <1>6 DEF Next

-----------------------------------------------------------------------------
(***************************************************************************)
(* The pump's invariant.  While the audit is not degraded, every event     *)
(* that was offered is heard, waits in the queue, or is being told to the  *)
(* observer; the queue is in order, so whatever was owed is told before    *)
(* the finalize command is.                                                *)
(***************************************************************************)
Commands == [tag : { "event", "finalize", "stop" }, seq : Nat]

Telling(n) == pump = "calling" /\ command.tag = "event" /\ command.seq = n

Accounted ==
    ~ degraded =>
        \A n \in offered : \/ n \in heard \/ Telling(n)
                           \/ \E i \in DOMAIN queue : queue[i].tag = "event" /\ queue[i].seq = n

OwedFirst ==
    ~ degraded =>
        \A i \in DOMAIN queue : queue[i].tag = "finalize" =>
            \A n \in owed : \/ n \in heard \/ Telling(n)
                            \/ \E j \in 1 .. i - 1 : queue[j].tag = "event" /\ queue[j].seq = n

Finalizing ==
    /\ pump = "calling" /\ command.tag = "finalize" => owed \subseteq heard
    /\ answer = "succeeded" => owed \subseteq heard
    /\ answer # "none" => pump = "exited"
    /\ audit = "ok" => answer = "succeeded"

NotFinalized ==
    fin = "none" =>
        /\ \A i \in DOMAIN queue : queue[i].tag # "finalize"
        /\ command.tag # "finalize" /\ answer = "none" /\ audit = "none"

PumpTypes ==
    /\ queue \in Seq(Commands) /\ Len(queue) <= AuditCapacity
    /\ command \in Commands
    /\ audit \in { "none", "ok", "degraded" }
    /\ offered \subseteq Nat

PumpInv == PumpTypes /\ Accounted /\ OwedFirst /\ Finalizing /\ NotFinalized


-----------------------------------------------------------------------------
\* A command that is put at the end of the queue.
LEMMA Put ==
    ASSUME NEW q \in Seq(Commands), NEW c \in Commands
    PROVE  /\ Append(q, c) \in Seq(Commands) /\ Len(Append(q, c)) = Len(q) + 1
           /\ \A i \in 1 .. Len(q) : Append(q, c)[i] = q[i]
           /\ Append(q, c)[Len(q) + 1] = c
           /\ DOMAIN q = 1 .. Len(q) /\ Len(q) \in Nat
           /\ DOMAIN Append(q, c) = 1 .. Len(q) + 1
    BY AppendProperties, LenProperties

\* The queue after its head was taken.
LEMMA Taken ==
    ASSUME NEW q \in Seq(Commands), q # << >>
    PROVE  /\ Tail(q) \in Seq(Commands) /\ Len(Tail(q)) = Len(q) - 1
           /\ \A i \in 1 .. Len(q) - 1 : Tail(q)[i] = q[i + 1]
           /\ Head(q) = q[1] /\ q[1] \in Commands
           /\ DOMAIN q = 1 .. Len(q) /\ Len(q) \in Nat \ { 0 }
           /\ DOMAIN Tail(q) = 1 .. Len(q) - 1
<1>1. /\ Tail(q) \in Seq(Commands) /\ Head(q) = q[1]
      /\ Len(q) \in Nat /\ DOMAIN q = 1 .. Len(q) /\ Len(q) # 0
    BY HeadTailProperties, LenProperties, EmptySeq
<1>2. Len(Tail(q)) = Len(q) - 1 /\ \A i \in 1 .. Len(Tail(q)) : Tail(q)[i] = q[i + 1]
    BY HeadTailProperties
<1>3. q[1] \in Commands
    BY <1>1, ElementOfSeq
<1>4. DOMAIN Tail(q) = 1 .. Len(Tail(q))
    BY <1>1, LenProperties
<1> QED BY <1>1, <1>2, <1>3, <1>4

\* What the hub puts into the queue comes after what is owed.
LEMMA OfferKeeps ==
    ASSUME PumpInv, NEW n \in Nat, offer(n)
    PROVE  PumpInv'
<1> USE AuditAssumption DEF PumpInv
<1>1. CASE degraded \/ Full
    BY <1>1 DEF offer, PumpTypes, Accounted, OwedFirst, Finalizing, NotFinalized, Telling
<1>2. CASE ~ (degraded \/ Full)
    <2>0. Event(n) \in Commands /\ Event(n).tag = "event" /\ Event(n).seq = n
        BY DEF Event, Commands
    <2>1. /\ queue' = Append(queue, Event(n)) /\ offered' = offered \cup { n }
          /\ UNCHANGED << pump, command, answer, fin, audit, owed, heard >> /\ ~ degraded
        BY <1>2 DEF offer
    <2>2. /\ Len(queue') = Len(queue) + 1 /\ Len(queue) \in Nat
          /\ DOMAIN queue = 1 .. Len(queue) /\ DOMAIN queue' = 1 .. Len(queue) + 1
          /\ \A i \in 1 .. Len(queue) : queue'[i] = queue[i]
          /\ queue'[Len(queue) + 1] = Event(n)
          /\ queue' \in Seq(Commands)
        BY <2>0, <2>1, Put DEF PumpTypes
    <2>3. PumpTypes'
        <3>1. Len(queue') <= AuditCapacity
            BY <1>2, <2>2 DEF Full
        <3>2. offered' \subseteq Nat
            BY <2>1 DEF PumpTypes
        <3> QED BY <2>1, <2>2, <3>1, <3>2 DEF PumpTypes
    <2>4. Accounted'
        <3> SUFFICES ASSUME ~ degraded, NEW m \in offered'
                     PROVE  \/ m \in heard \/ Telling(m)
                            \/ \E i \in DOMAIN queue' : queue'[i].tag = "event" /\ queue'[i].seq = m
            BY <2>1 DEF Accounted, Telling
        <3>1. CASE m = n
            BY <2>0, <2>2, <3>1
        <3>2. CASE m \in offered
            BY <2>2, <3>2 DEF Accounted
        <3> QED BY <2>1, <3>1, <3>2
    <2>5. OwedFirst'
        <3> SUFFICES ASSUME ~ degraded, NEW i \in DOMAIN queue', queue'[i].tag = "finalize",
                            NEW m \in owed
                     PROVE  \/ m \in heard \/ Telling(m)
                            \/ \E j \in 1 .. i - 1 : queue'[j].tag = "event" /\ queue'[j].seq = m
            BY <2>1 DEF OwedFirst, Telling
        <3>1. i \in 1 .. Len(queue) /\ queue[i].tag = "finalize"
            BY <2>0, <2>2
        <3>2. \A j \in 1 .. i - 1 : queue'[j] = queue[j]
            BY <2>2, <3>1
        <3> QED BY <2>2, <3>1, <3>2 DEF OwedFirst
    <2>6. Finalizing' /\ NotFinalized'
        BY <2>0, <2>1, <2>2 DEF Finalizing, NotFinalized
    <2> QED BY <2>3, <2>4, <2>5, <2>6
<1> QED BY <1>1, <1>2

\* The finalize handshake.
LEMMA FinalizeKeeps ==
    ASSUME PumpInv, finalize \/ FinalizeAnswered \/ FinalizeTimesOut
    PROVE  PumpInv'
<1> USE AuditAssumption DEF PumpInv
<1>1. CASE FinalizeAnswered \/ FinalizeTimesOut
    <2>1. /\ UNCHANGED << queue, pump, command, answer, offered, owed, heard >>
          /\ (degraded => degraded') /\ fin' = "returned"
          /\ audit' \in { "ok", "degraded" } /\ (audit' = "ok" => answer = "succeeded")
        BY <1>1 DEF FinalizeAnswered, FinalizeTimesOut
    <2>2. Accounted' /\ OwedFirst'
        BY <2>1 DEF Accounted, OwedFirst, Telling
    <2> QED BY <2>1, <2>2 DEF PumpTypes, Finalizing, NotFinalized
<1>2. CASE finalize /\ (degraded \/ Full)
    <2>1. /\ degraded' /\ fin' = "returned" /\ audit' = "degraded"
          /\ UNCHANGED << pump, command, answer, offered, heard >>
          /\ queue' = IF Full THEN queue ELSE Append(queue, _Stop)
        BY <1>2 DEF finalize
    <2>2. command.tag # "finalize" /\ answer = "none"
        BY <1>2 DEF finalize, NotFinalized
    <2>3. _Stop \in Commands
        BY DEF _Stop, Commands
    <2>4. PumpTypes'
        BY <2>1, <2>3, Put DEF PumpTypes, Full
    <2> QED BY <2>1, <2>2, <2>4 DEF Accounted, OwedFirst, Finalizing, NotFinalized
<1>3. CASE finalize /\ ~ (degraded \/ Full)
    <2>1. /\ queue' = Append(queue, _Finalize) /\ fin' = "waiting" /\ owed' = offered
          /\ UNCHANGED << degraded, pump, command, answer, audit, offered, heard >>
          /\ fin = "none" /\ ~ degraded
        BY <1>3 DEF finalize
    <2>2. /\ command.tag # "finalize" /\ answer = "none" /\ audit = "none"
          /\ \A i \in DOMAIN queue : queue[i].tag # "finalize"
        BY <2>1 DEF NotFinalized
    <2>3. _Finalize \in Commands /\ _Finalize.tag = "finalize"
        BY DEF _Finalize, Commands
    <2>4. /\ Len(queue') = Len(queue) + 1 /\ Len(queue) \in Nat
          /\ DOMAIN queue = 1 .. Len(queue) /\ DOMAIN queue' = 1 .. Len(queue) + 1
          /\ \A i \in 1 .. Len(queue) : queue'[i] = queue[i]
          /\ queue'[Len(queue) + 1] = _Finalize
          /\ queue' \in Seq(Commands)
        BY <2>1, <2>3, Put DEF PumpTypes
    <2>5. PumpTypes'
        BY <1>3, <2>1, <2>4 DEF PumpTypes, Full
    <2>6. Accounted'
        <3> SUFFICES ASSUME NEW m \in offered
                     PROVE  \/ m \in heard \/ Telling(m)
                            \/ \E i \in DOMAIN queue' : queue'[i].tag = "event" /\ queue'[i].seq = m
            BY <2>1 DEF Accounted, Telling
        <3> QED BY <2>1, <2>4 DEF Accounted
    <2>7. OwedFirst'
        <3> SUFFICES ASSUME NEW i \in DOMAIN queue', queue'[i].tag = "finalize", NEW m \in offered
                     PROVE  \/ m \in heard \/ Telling(m)
                            \/ \E j \in 1 .. i - 1 : queue'[j].tag = "event" /\ queue'[j].seq = m
            BY <2>1 DEF OwedFirst, Telling
        <3>1. i = Len(queue) + 1
            BY <2>2, <2>4
        <3>2. \A j \in 1 .. i - 1 : j \in DOMAIN queue /\ queue'[j] = queue[j]
            BY <2>4, <3>1
        <3>3. DOMAIN queue = 1 .. i - 1
            BY <2>4, <3>1
        <3> QED BY <2>1, <3>2, <3>3 DEF Accounted
    <2>8. Finalizing' /\ NotFinalized'
        BY <2>1, <2>2 DEF Finalizing, NotFinalized
    <2> QED BY <2>5, <2>6, <2>7, <2>8
<1> QED BY <1>1, <1>2, <1>3

\* Closing the pump.
LEMMA ClosingKeeps ==
    ASSUME PumpInv, Closing
    PROVE  PumpInv'
<1> USE AuditAssumption DEF PumpInv
<1>1. CASE queue' = queue
    <2>1. /\ UNCHANGED << pump, command, answer, fin, audit, offered, owed, heard >>
          /\ degraded => degraded'
        BY DEF Closing, close, CloseReturns
    <2>2. Accounted' /\ OwedFirst'
        BY <1>1, <2>1 DEF Accounted, OwedFirst, Telling
    <2> QED BY <1>1, <2>1, <2>2 DEF PumpTypes, Finalizing, NotFinalized
<1>2. CASE queue' # queue
    <2>0. _Stop \in Commands /\ _Stop.tag = "stop"
        BY DEF _Stop, Commands
    <2>1. /\ queue' = Append(queue, _Stop) /\ ~ Full
          /\ UNCHANGED << degraded, pump, command, answer, fin, audit, offered, owed, heard >>
        BY <1>2 DEF Closing, close, CloseReturns
    <2>2. /\ Len(queue') = Len(queue) + 1 /\ Len(queue) \in Nat
          /\ DOMAIN queue = 1 .. Len(queue) /\ DOMAIN queue' = 1 .. Len(queue) + 1
          /\ \A i \in 1 .. Len(queue) : queue'[i] = queue[i]
          /\ queue'[Len(queue) + 1] = _Stop
          /\ queue' \in Seq(Commands)
        BY <2>0, <2>1, Put DEF PumpTypes
    <2>3. PumpTypes'
        BY <2>1, <2>2 DEF PumpTypes, Full
    <2>4. Accounted'
        <3> SUFFICES ASSUME ~ degraded, NEW m \in offered
                     PROVE  \/ m \in heard \/ Telling(m)
                            \/ \E i \in DOMAIN queue' : queue'[i].tag = "event" /\ queue'[i].seq = m
            BY <2>1 DEF Accounted, Telling
        <3> QED BY <2>1, <2>2 DEF Accounted
    <2>5. OwedFirst'
        <3> SUFFICES ASSUME ~ degraded, NEW i \in DOMAIN queue', queue'[i].tag = "finalize",
                            NEW m \in owed
                     PROVE  \/ m \in heard \/ Telling(m)
                            \/ \E j \in 1 .. i - 1 : queue'[j].tag = "event" /\ queue'[j].seq = m
            BY <2>1 DEF OwedFirst, Telling
        <3>1. i \in 1 .. Len(queue) /\ queue[i].tag = "finalize"
            BY <2>0, <2>2
        <3>2. \A j \in 1 .. i - 1 : queue'[j] = queue[j]
            BY <2>2, <3>1
        <3> QED BY <2>2, <3>1, <3>2 DEF OwedFirst
    <2>6. Finalizing' /\ NotFinalized'
        BY <2>0, <2>1, <2>2 DEF Finalizing, NotFinalized
    <2> QED BY <2>3, <2>4, <2>5, <2>6
<1> QED BY <1>1, <1>2

\* The pump thread.
LEMMA PumpKeeps ==
    ASSUME PumpInv, Pump
    PROVE  PumpInv'
<1> USE AuditAssumption DEF PumpInv
<1>1. CASE PumpCalls \/ PumpSkips
    <2>1. /\ queue # << >> /\ queue' = Tail(queue) /\ pump = "waiting"
          /\ UNCHANGED << degraded, fin, audit, offered, owed, heard >>
          /\ Head(queue).tag \in { "event", "finalize", "stop" }
        BY <1>1 DEF PumpCalls, PumpSkips, Takes
    <2>2. /\ Len(queue') = Len(queue) - 1 /\ Len(queue) \in Nat \ { 0 }
          /\ DOMAIN queue = 1 .. Len(queue) /\ DOMAIN queue' = 1 .. Len(queue) - 1
          /\ \A i \in 1 .. Len(queue) - 1 : queue'[i] = queue[i + 1]
          /\ queue' \in Seq(Commands) /\ Head(queue) = queue[1] /\ queue[1] \in Commands
        BY <2>1, Taken DEF PumpTypes
    <2>3. CASE PumpCalls
        <3>1. /\ pump' = "calling" /\ command' = queue[1] /\ answer' = answer
              /\ degraded => queue[1].tag = "stop"
            BY <2>2, <2>3 DEF PumpCalls
        <3>2. PumpTypes'
            BY <2>1, <2>2, <3>1 DEF PumpTypes
        <3>3. ASSUME NEW m, NEW i \in 1 .. Len(queue), queue[i].tag = "event", queue[i].seq = m
              PROVE  \/ Telling(m)'
                     \/ i # 1 /\ i - 1 \in DOMAIN queue' /\ queue'[i - 1] = queue[i]
            BY <2>2, <3>1, <3>3 DEF Telling
        <3>4. Accounted'
            <4> SUFFICES ASSUME ~ degraded, NEW m \in offered
                         PROVE  \/ m \in heard \/ Telling(m)'
                                \/ \E i \in DOMAIN queue' : queue'[i].tag = "event" /\ queue'[i].seq = m
                BY <2>1 DEF Accounted
            <4>1. m \in heard \/ \E i \in 1 .. Len(queue) : queue[i].tag = "event" /\ queue[i].seq = m
                BY <2>1, <2>2 DEF Accounted, Telling
            <4> QED BY <3>3, <4>1
        <3>5. OwedFirst'
            <4> SUFFICES ASSUME ~ degraded, NEW i \in DOMAIN queue', queue'[i].tag = "finalize",
                                NEW m \in owed
                         PROVE  \/ m \in heard \/ Telling(m)'
                                \/ \E j \in 1 .. i - 1 : queue'[j].tag = "event" /\ queue'[j].seq = m
                BY <2>1 DEF OwedFirst
            <4>1. i + 1 \in DOMAIN queue /\ queue[i + 1].tag = "finalize" /\ i \in Nat
                BY <2>2
            <4>2. \/ m \in heard
                  \/ \E j \in 1 .. i : queue[j].tag = "event" /\ queue[j].seq = m
                BY <2>1, <4>1 DEF OwedFirst, Telling
            <4>3. ASSUME NEW j \in 1 .. i, queue[j].tag = "event", queue[j].seq = m
                  PROVE  Telling(m)' \/ (j - 1 \in 1 .. i - 1 /\ queue'[j - 1] = queue[j])
                BY <2>2, <3>3, <4>1, <4>3
            <4> QED BY <4>2, <4>3
        <3>6. Finalizing'
            <4>1. ASSUME queue[1].tag = "finalize"
                  PROVE  owed \subseteq heard
                <5>1. ~ degraded /\ 1 \in DOMAIN queue
                    BY <2>2, <3>1, <4>1
                <5> QED BY <2>1, <4>1, <5>1 DEF OwedFirst, Telling
            <4>2. answer = "none"
                BY <2>1 DEF Finalizing
            <4> QED BY <2>1, <3>1, <4>1, <4>2 DEF Finalizing
        <3>7. NotFinalized'
            BY <2>1, <2>2, <3>1 DEF NotFinalized
        <3> QED BY <3>2, <3>4, <3>5, <3>6, <3>7
    <2>4. CASE PumpSkips
        <3>1. degraded /\ command' = command
            BY <2>4 DEF PumpSkips
        <3>2. \/ pump' = pump /\ answer' = answer
              \/ pump' = "exited" /\ answer' = "failed" /\ queue[1].tag = "finalize"
            BY <2>1, <2>2, <2>4 DEF PumpSkips, Exits, Takes
        <3>3. PumpTypes'
            BY <2>1, <2>2, <3>1 DEF PumpTypes
        <3>4. Finalizing'
            BY <2>1, <3>1, <3>2 DEF Finalizing
        <3>5. NotFinalized'
            BY <2>1, <2>2, <3>1, <3>2 DEF NotFinalized
        <3> QED BY <2>1, <3>1, <3>3, <3>4, <3>5 DEF Accounted, OwedFirst
    <2> QED BY <1>1, <2>3, <2>4
<1>2. CASE PumpReturns \/ PumpRaises
    <2>1. /\ pump = "calling"
          /\ UNCHANGED << queue, command, fin, audit, offered, owed >>
          /\ degraded => degraded'
          /\ heard \subseteq heard'
          /\ ~ degraded' /\ command.tag = "event" => command.seq \in heard'
        BY <1>2 DEF PumpReturns, PumpRaises
    <2>2. \/ command.tag = "event" /\ pump' = "waiting" /\ answer' = answer
          \/ /\ command.tag # "event" /\ pump' = "exited"
             /\ answer' = answer \/ command.tag = "finalize"
        BY <1>2 DEF PumpReturns, PumpRaises, PumpEnds, Exits
    <2>3. answer = "none"
        BY <2>1 DEF Finalizing
    <2>4. PumpTypes' /\ NotFinalized'
        BY <2>1, <2>2 DEF PumpTypes, NotFinalized
    <2>5. \A m : Telling(m) /\ ~ degraded' => m \in heard'
        BY <2>1 DEF Telling
    <2>6. Accounted' /\ OwedFirst'
        BY <2>1, <2>5 DEF Accounted, OwedFirst
    <2>7. Finalizing'
        BY <2>1, <2>2, <2>3 DEF Finalizing
    <2> QED BY <2>4, <2>6, <2>7
<1> QED BY <1>1, <1>2 DEF Pump

\* The pump's invariant holds of every behaviour of types.
LEMMA PumpStepKeeps ==
    ASSUME TypeOK, PumpInv, [Next]_vars
    PROVE  PumpInv'
<1>1. ASSUME UNCHANGED << queue, degraded, closed, pump, command, answer, fin, audit,
                          offered, owed, heard >>
      PROVE  PumpInv'
    BY <1>1 DEF PumpInv, PumpTypes, Accounted, OwedFirst, Finalizing, NotFinalized, Telling
<1>2. CASE UNCHANGED vars
    BY <1>1, <1>2 DEF vars, pumpVars
<1>3. CASE Next
    BY <1>1, <1>3, PumpSteps, OfferKeeps, FinalizeKeeps, ClosingKeeps, PumpKeeps
<1> QED BY <1>2, <1>3

\* The pump's invariant holds initially.
LEMMA PumpStarts == Init => PumpInv
    BY AuditAssumption, EmptySeq
       DEF Init, PumpInit, PumpInv, PumpTypes, Accounted, OwedFirst, Finalizing, NotFinalized,
           _Stop, Commands

-----------------------------------------------------------------------------
(***************************************************************************)
(* The hub's invariant.                                                    *)
(***************************************************************************)
Entry == [seq : Nat, body : Body \cup { Gap }, first : Nat]

HubTypes ==
    /\ log \in Seq(Body)
    /\ replay \in Seq(Entry) /\ Len(replay) <= ReplayCapacity
    /\ items \in [Subscribers -> Seq(Entry)]
    /\ got \in [Subscribers -> Seq(Entry)]
    /\ from \in [Subscribers -> Nat \ { 0 }]
    /\ attached \subseteq opened /\ opened \subseteq Subscribers
    /\ ejected \subseteq shutOff
    /\ hubState \in SessionState
    /\ seen \in [Subscribers -> SessionState]

\* The entries of a buffer are in order, and say what was emitted.
Ordered(h) == \A i, j \in DOMAIN h : i < j => h[i].seq < h[j].seq

Truthful(h, lg) ==
    \A i \in DOMAIN h :
        /\ h[i].seq \in 1 .. Len(lg) /\ h[i].first \in 1 .. h[i].seq
        /\ h[i].body # Gap => h[i].body = lg[h[i].seq] /\ h[i].first = h[i].seq

Sound(h, lg) == Ordered(h) /\ Truthful(h, lg)

Has(h, n) == \E i \in DOMAIN h : h[i].body # Gap /\ h[i].seq = n

Announces(h, n) ==
    \E i \in DOMAIN h : /\ h[i].body = Gap /\ h[i].first <= n
                        /\ i = Len(h) \/ n < h[i + 1].seq

Told(h, lg, m) == \A n \in m .. Len(lg) : Reliable(lg[n]) => Has(h, n) \/ Announces(h, n)

\* A replay buffer lacks no reliable event after its first.
Contiguous(r, lg) ==
    /\ Sound(r, lg)
    /\ \A i \in DOMAIN r : r[i].body # Gap
    /\ \A n \in 1 .. Len(lg) :
          Reliable(lg[n]) /\ r # << >> /\ r[1].seq <= n => Has(r, n)

ReplayInv == Contiguous(replay, log)

\* A stream is told everything that it asked for as long as it is open; the
\* Gap that ended an overrun stream stands for everything that comes later.
StreamInv(x) ==
    /\ x \notin opened => items[x] = << >> /\ got[x] = << >> /\ x \notin shutOff
    /\ x \in opened \ shutOff => x \in attached
    /\ Sound(History(x), log)
    /\ x \in ejected => History(x) # << >> /\ History(x)[Len(History(x))].body = Gap
    /\ x \in opened \ (shutOff \ ejected) => Told(History(x), log, from[x])

HubInv == HubTypes /\ ReplayInv /\ \A x \in Subscribers : StreamInv(x)

-----------------------------------------------------------------------------
(***************************************************************************)
(* Numbers and buffers.                                                    *)
(***************************************************************************)
\* A set of naturals that is not empty has a least element.
LEMMA Least ==
    ASSUME NEW S \in SUBSET Nat, S # {}
    PROVE  \E m \in S : \A n \in S : m <= n
<1>1. PICK m \in S : \A y \in S : ~ (<<y, m>> \in OpToRel(<, Nat))
    BY NatLessThanWellFounded, WFMin
<1>2. ASSUME NEW n \in S, ~ (m <= n) PROVE FALSE
    <2>1. n \in Nat /\ m \in Nat /\ n < m
        BY <1>2
    <2>2. <<n, m>> \in { p \in Nat \X Nat : p[1] < p[2] }
        BY <2>1
    <2> QED BY <2>2, <1>1, Zenon DEF OpToRel
<1> QED BY <1>2

\* One that is bounded has a largest element.
LEMMA Largest ==
    ASSUME NEW S \in SUBSET Nat, S # {}, NEW b \in Nat, \A n \in S : n <= b
    PROVE  \E m \in S : \A n \in S : n <= m
<1> DEFINE T == { b - n : n \in S }
<1>1. T \in SUBSET Nat /\ T # {}
    <2>1. ASSUME NEW t \in T PROVE t \in Nat
        <3>1. PICK n \in S : t = b - n
            OBVIOUS
        <3> QED BY <3>1
    <2> QED BY <2>1
<1>2. PICK t \in T : \A u \in T : t <= u
    BY <1>1, Least
<1>3. PICK m \in S : t = b - m
    OBVIOUS
<1>4. ASSUME NEW n \in S PROVE n <= m
    <2>1. b - n \in T
        OBVIOUS
    <2>2. b - m <= b - n
        BY <1>2, <1>3, <2>1
    <2> QED BY <2>2
<1> QED BY <1>4


\* The entries of a buffer.
LEMMA Entries ==
    ASSUME NEW h \in Seq(Entry)
    PROVE  /\ Len(h) \in Nat /\ DOMAIN h = 1 .. Len(h)
           /\ \A i \in 1 .. Len(h) : h[i] \in Entry /\ h[i].seq \in Nat /\ h[i].first \in Nat
           /\ h # << >> => Len(h) # 0
           /\ h = << >> => Len(h) = 0
<1>1. Len(h) \in Nat /\ DOMAIN h = 1 .. Len(h)
    BY LenProperties
<1>2. \A i \in 1 .. Len(h) : h[i] \in Entry
    BY ElementOfSeq
<1>3. \A i \in 1 .. Len(h) : h[i].seq \in Nat /\ h[i].first \in Nat
    BY <1>2 DEF Entry
<1>4. (h # << >> => Len(h) # 0) /\ (h = << >> => Len(h) = 0)
    BY EmptySeq
<1> QED BY <1>1, <1>2, <1>3, <1>4

\* s is what is left of b from its entry k on.
Suffix(s, b, k) ==
    /\ k \in 1 .. Len(b) + 1 /\ Len(s) = Len(b) - k + 1
    /\ \A i \in 1 .. Len(s) : s[i] = b[k + i - 1]

\* c is b without its entry p.
Without(b, p, c) ==
    /\ p \in 1 .. Len(b) /\ Len(c) = Len(b) - 1
    /\ \A i \in 1 .. Len(c) : c[i] = IF i < p THEN b[i] ELSE b[i + 1]

LEMMA SuffixIs ==
    ASSUME NEW b \in Seq(Entry), NEW k \in 1 .. Len(b) + 1
    PROVE  SubSeq(b, k, Len(b)) \in Seq(Entry) /\ Suffix(SubSeq(b, k, Len(b)), b, k)
<1>1. Len(b) \in Nat /\ k \in Int /\ Len(b) \in Int /\ \A i \in k .. Len(b) : b[i] \in Entry
    BY Entries
<1>2. /\ SubSeq(b, k, Len(b)) \in Seq(Entry)
      /\ Len(SubSeq(b, k, Len(b))) = IF k <= Len(b) THEN Len(b) - k + 1 ELSE 0
      /\ \A i \in 1 .. Len(b) - k + 1 : SubSeq(b, k, Len(b))[i] = b[k + i - 1]
    BY <1>1, SubSeqProperties
<1>3. Len(SubSeq(b, k, Len(b))) = Len(b) - k + 1
    BY <1>1, <1>2
<1> QED BY <1>2, <1>3 DEF Suffix

LEMMA PrefixIs ==
    ASSUME NEW b \in Seq(Entry), NEW p \in 1 .. Len(b)
    PROVE  /\ SubSeq(b, 1, p - 1) \in Seq(Entry) /\ Len(SubSeq(b, 1, p - 1)) = p - 1
           /\ \A i \in 1 .. p - 1 : SubSeq(b, 1, p - 1)[i] = b[i]
<1>1. Len(b) \in Nat /\ p - 1 \in Int /\ 1 \in Int /\ \A i \in 1 .. p - 1 : b[i] \in Entry
    BY Entries
<1>2. /\ SubSeq(b, 1, p - 1) \in Seq(Entry)
      /\ Len(SubSeq(b, 1, p - 1)) = IF 1 <= p - 1 THEN p - 1 - 1 + 1 ELSE 0
      /\ \A i \in 1 .. p - 1 - 1 + 1 : SubSeq(b, 1, p - 1)[i] = b[1 + i - 1]
    BY <1>1, SubSeqProperties
<1>3. \A i \in 1 .. p - 1 : i \in 1 .. p - 1 - 1 + 1 /\ 1 + i - 1 = i
    BY <1>1
<1> QED BY <1>1, <1>2, <1>3

\* Coalescing drops one Progress, or nothing.
LEMMA CoalescedIs ==
    ASSUME NEW b \in Seq(Entry)
    PROVE  /\ Coalesced(b) \in Seq(Entry)
           /\ \/ Coalesced(b) = b
              \/ \E p \in 1 .. Len(b) : b[p].body = Progress /\ Without(b, p, Coalesced(b))
<1> DEFINE at == { i \in DOMAIN b : b[i].body = Progress }
           last == CHOOSE i \in at : \A j \in at : j <= i
<1>0. Len(b) \in Nat /\ DOMAIN b = 1 .. Len(b)
    BY Entries
<1>1. CASE at = {}
    BY <1>1 DEF Coalesced
<1>2. CASE at # {}
    <2>1. \E i \in at : \A j \in at : j <= i
        <3>1. at \in SUBSET Nat /\ \A n \in at : n <= Len(b)
            BY <1>0
        <3> HIDE DEF at
        <3> QED BY <1>0, <1>2, <3>1, Largest
    <2>2. last \in at
        <3> HIDE DEF at
        <3> QED BY <2>1
    <2>found. last \in 1 .. Len(b) /\ b[last].body = Progress
        BY <1>0, <2>2
    <2>4. Coalesced(b) = SubSeq(b, 1, last - 1) \o SubSeq(b, last + 1, Len(b))
        BY <1>2 DEF Coalesced
    <2> HIDE DEF last
    <2>3. PICK p \in 1 .. Len(b) : p = last
        BY <2>found
    <2>5. /\ SubSeq(b, 1, p - 1) \in Seq(Entry) /\ Len(SubSeq(b, 1, p - 1)) = p - 1
          /\ \A i \in 1 .. p - 1 : SubSeq(b, 1, p - 1)[i] = b[i]
        BY PrefixIs
    <2>6. /\ SubSeq(b, p + 1, Len(b)) \in Seq(Entry)
          /\ Suffix(SubSeq(b, p + 1, Len(b)), b, p + 1)
        <3>1. p + 1 \in 1 .. Len(b) + 1
            BY <1>0
        <3> QED BY <3>1, SuffixIs
    <2> DEFINE l == SubSeq(b, 1, p - 1)
               r == SubSeq(b, p + 1, Len(b))
    <2>range. p \in Int /\ 1 <= p /\ p <= Len(b) /\ Len(b) \in Int
        BY <1>0
    <2>parts. /\ l \in Seq(Entry) /\ Len(l) = p - 1 /\ \A i \in 1 .. p - 1 : l[i] = b[i]
          /\ r \in Seq(Entry) /\ Suffix(r, b, p + 1) /\ Coalesced(b) = l \o r
        BY <2>3, <2>4, <2>5, <2>6
    <2> HIDE DEF l, r
    <2>7. Len(r) = Len(b) - p /\ \A i \in 1 .. Len(b) - p : r[i] = b[p + i]
        <3>1. Len(r) = Len(b) - (p + 1) + 1 /\ \A i \in 1 .. Len(r) : r[i] = b[(p + 1) + i - 1]
            BY <2>parts DEF Suffix
        <3>2. Len(r) = Len(b) - p
            BY <2>range, <3>1
        <3>3. \A i \in 1 .. Len(b) - p : (p + 1) + i - 1 = p + i
            BY <1>0
        <3> QED BY <3>1, <3>2, <3>3
    <2>8. /\ l \o r \in Seq(Entry) /\ Len(l \o r) = Len(l) + Len(r)
          /\ \A i \in 1 .. Len(l) + Len(r) : (l \o r)[i] =
                IF i <= Len(l) THEN l[i] ELSE r[i - Len(l)]
        BY <2>parts, ConcatProperties
    <2>9. Coalesced(b) = l \o r /\ Len(l) = p - 1 /\ \A i \in 1 .. p - 1 : l[i] = b[i]
        BY <2>parts
    <2>10. Len(Coalesced(b)) = Len(b) - 1
        BY <2>range, <2>7, <2>8, <2>9
    <2>11. ASSUME NEW i \in 1 .. Len(b) - 1
          PROVE  Coalesced(b)[i] = IF i < p THEN b[i] ELSE b[i + 1]
        <3>1. CASE i < p
            BY <1>0, <3>1, <2>7, <2>8, <2>9
        <3>2. CASE ~ (i < p)
            <4>1. i - (p - 1) \in 1 .. Len(b) - p /\ p + (i - (p - 1)) = i + 1 /\ ~ (i <= p - 1)
                BY <1>0, <3>2
            <4>2. Coalesced(b)[i] = r[i - (p - 1)]
                BY <1>0, <4>1, <2>7, <2>8, <2>9
            <4> QED BY <2>7, <4>1, <4>2, <3>2
        <3> QED BY <3>1, <3>2
    <2> QED BY <2>found, <2>3, <2>8, <2>9, <2>10, <2>11 DEF Without
<1> QED BY <1>1, <1>2

-----------------------------------------------------------------------------
(***************************************************************************)
(* Histories.  A history is what a consumer took, followed by what waits   *)
(* for it; the replay buffer is one without a Gap.                         *)
(***************************************************************************)
\* No event is a Gap.
LEMMA NotGap == \A body \in Body : body # Gap
    BY DEF Body, Gap, SessionState, Progress, Item, Terminal

\* The log after one more event.
LEMMA Longer ==
    ASSUME NEW lg \in Seq(Body), NEW body \in Body
    PROVE  /\ Append(lg, body) \in Seq(Body) /\ Len(lg) \in Nat
           /\ Len(Append(lg, body)) = Len(lg) + 1
           /\ \A n \in 1 .. Len(lg) : Append(lg, body)[n] = lg[n]
           /\ Append(lg, body)[Len(lg) + 1] = body
    BY AppendProperties, LenProperties

\* What was sound and told remains so, but for the new event.
LEMMA Stays ==
    ASSUME NEW h \in Seq(Entry), NEW lg \in Seq(Body), NEW body \in Body, Sound(h, lg),
           NEW m \in Nat \ { 0 }
    PROVE  /\ Sound(h, Append(lg, body))
           /\ body = Progress /\ Told(h, lg, m) => Told(h, Append(lg, body), m)
           /\ h # << >> /\ h[Len(h)].body = Gap /\ Told(h, lg, m)
                => Told(h, Append(lg, body), m)
<1> DEFINE lh == Append(lg, body)
<1>0. /\ Len(lg) \in Nat /\ Len(lh) = Len(lg) + 1 /\ lh[Len(lg) + 1] = body
      /\ \A n \in 1 .. Len(lg) : lh[n] = lg[n]
    BY Longer
<1> HIDE DEF lh
<1>1. Sound(h, lh)
    <2>1. Truthful(h, lh)
        <3> SUFFICES ASSUME NEW i \in DOMAIN h
                     PROVE  /\ h[i].seq \in 1 .. Len(lh) /\ h[i].first \in 1 .. h[i].seq
                            /\ h[i].body # Gap => h[i].body = lh[h[i].seq] /\ h[i].first = h[i].seq
            BY DEF Truthful
        <3> QED BY <1>0 DEF Sound, Truthful
    <2> QED BY <2>1 DEF Sound
<1>2. ASSUME Told(h, lg, m), NEW n \in m .. Len(lh), Reliable(lh[n]), n # Len(lg) + 1
      PROVE  Has(h, n) \/ Announces(h, n)
    <2>1. n \in m .. Len(lg) /\ n \in 1 .. Len(lg)
        BY <1>0, <1>2
    <2> QED BY <1>0, <1>2, <2>1 DEF Told
<1>3. body = Progress /\ Told(h, lg, m) => Told(h, lh, m)
    BY <1>0, <1>2 DEF Told, Reliable
<1>4. ASSUME h # << >>, h[Len(h)].body = Gap
      PROVE  Announces(h, Len(lg) + 1)
    <2>1. Len(h) \in DOMAIN h /\ h[Len(h)].seq \in 1 .. Len(lg) /\ h[Len(h)].first \in 1 .. h[Len(h)].seq
        BY <1>4, Entries DEF Sound, Truthful
    <2> QED BY <1>0, <1>4, <2>1 DEF Announces
<1>5. h # << >> /\ h[Len(h)].body = Gap /\ Told(h, lg, m) => Told(h, lh, m)
    BY <1>0, <1>2, <1>4 DEF Told
<1> QED BY <1>1, <1>3, <1>5 DEF lh

\* A new event at the end.
LEMMA Extends ==
    ASSUME NEW h \in Seq(Entry), NEW lg \in Seq(Body), NEW body \in Body, Sound(h, lg),
           NEW m \in Nat \ { 0 }, NEW e, e = Envelope(Len(lg) + 1, body)
    PROVE  /\ Append(h, e) \in Seq(Entry)
           /\ Sound(Append(h, e), Append(lg, body))
           /\ Told(h, lg, m) => Told(Append(h, e), Append(lg, body), m)
<1> DEFINE lh == Append(lg, body)
           g == Append(h, e)
<1>0. /\ Len(lg) \in Nat /\ Len(lh) = Len(lg) + 1 /\ lh[Len(lg) + 1] = body
      /\ \A n \in 1 .. Len(lg) : lh[n] = lg[n]
    BY Longer
<1>1. /\ e \in Entry /\ e.seq = Len(lg) + 1 /\ e.first = e.seq /\ e.body = body
      /\ e.body # Gap
    BY <1>0, NotGap DEF Envelope, Entry
<1>2. /\ g \in Seq(Entry) /\ Len(g) = Len(h) + 1 /\ g[Len(h) + 1] = e
      /\ \A i \in 1 .. Len(h) : g[i] = h[i]
    BY <1>1, AppendProperties
<1>3. /\ Len(h) \in Nat /\ DOMAIN h = 1 .. Len(h) /\ DOMAIN g = 1 .. Len(h) + 1
      /\ \A i \in 1 .. Len(h) : h[i].seq \in Nat /\ h[i].first \in Nat
    BY <1>2, Entries
<1>4. \A i \in 1 .. Len(h) : h[i].seq \in 1 .. Len(lg)
    BY <1>3 DEF Sound, Truthful
<1> HIDE DEF lh, g
<1>5. Ordered(g)
    BY <1>0, <1>1, <1>2, <1>3, <1>4 DEF Ordered, Sound
<1>6. Truthful(g, lh)
    <2> SUFFICES ASSUME NEW i \in DOMAIN g
                 PROVE  /\ g[i].seq \in 1 .. Len(lh) /\ g[i].first \in 1 .. g[i].seq
                        /\ g[i].body # Gap => g[i].body = lh[g[i].seq] /\ g[i].first = g[i].seq
        BY DEF Truthful
    <2>1. CASE i \in 1 .. Len(h)
        BY <1>0, <1>2, <1>3, <1>4, <2>1 DEF Sound, Truthful
    <2>2. CASE i = Len(h) + 1
        BY <1>0, <1>1, <1>2, <2>2
    <2> QED BY <1>3, <2>1, <2>2
<1>7. ASSUME Told(h, lg, m), NEW n \in m .. Len(lh), Reliable(lh[n])
      PROVE  Has(g, n) \/ Announces(g, n)
    <2>1. CASE n = Len(lg) + 1
        BY <1>0, <1>1, <1>2, <1>3, <2>1 DEF Has
    <2>2. CASE n # Len(lg) + 1
        <3>1. n \in m .. Len(lg) /\ n \in 1 .. Len(lg) /\ Reliable(lg[n])
            BY <1>0, <1>7, <2>2
        <3>2. CASE Has(h, n)
            BY <3>2, <1>2, <1>3 DEF Has
        <3>3. CASE Announces(h, n)
            <4>1. PICK i \in DOMAIN h : /\ h[i].body = Gap /\ h[i].first <= n
                                        /\ i = Len(h) \/ n < h[i + 1].seq
                BY <3>3 DEF Announces
            <4>2. i \in DOMAIN g /\ g[i] = h[i] /\ i # Len(g)
                BY <1>2, <1>3
            <4>3. n < g[i + 1].seq
                <5>1. CASE i = Len(h)
                    BY <1>1, <1>2, <3>1, <5>1
                <5>2. CASE i # Len(h)
                    <6>1. i + 1 \in 1 .. Len(h)
                        BY <1>3, <5>2
                    <6> QED BY <1>2, <4>1, <5>2, <6>1
                <5> QED BY <5>1, <5>2
            <4> QED BY <4>1, <4>2, <4>3 DEF Announces
        <3> QED BY <1>7, <3>1, <3>2, <3>3 DEF Told
    <2> QED BY <2>1, <2>2
<1>8. Told(h, lg, m) => Told(g, lh, m)
    BY <1>7 DEF Told
<1> QED BY <1>2, <1>5, <1>6, <1>8 DEF lh, g, Sound

\* A Progress left out.
LEMMA Drops ==
    ASSUME NEW h \in Seq(Entry), NEW c \in Seq(Entry), NEW lg \in Seq(Body), Sound(h, lg),
           NEW p \in 1 .. Len(h), h[p].body = Progress, Without(h, p, c), NEW m \in Nat \ { 0 }
    PROVE  /\ Sound(c, lg)
           /\ \A n \in Nat : Has(h, n) /\ Reliable(lg[n]) => Has(c, n)
           /\ Told(h, lg, m) => Told(c, lg, m)
<1>1. /\ Len(h) \in Nat /\ DOMAIN h = 1 .. Len(h) /\ Len(c) = Len(h) - 1
      /\ DOMAIN c = 1 .. Len(h) - 1 /\ p \in Nat /\ 1 <= p /\ p <= Len(h)
      /\ \A i \in 1 .. Len(h) : h[i].seq \in Nat /\ h[i].first \in Nat
    BY Entries DEF Without
<1>2. \A i \in 1 .. Len(h) - 1 : /\ i < p => c[i] = h[i]
                                 /\ ~ (i < p) => c[i] = h[i + 1]
    BY <1>1 DEF Without
<1>3. h[p].body # Gap /\ lg[h[p].seq] = Progress
    BY <1>1 DEF Sound, Truthful, Progress, Gap
<1>4. Ordered(c)
    <2> SUFFICES ASSUME NEW i \in 1 .. Len(h) - 1, NEW j \in 1 .. Len(h) - 1, i < j
                 PROVE  c[i].seq < c[j].seq
        BY <1>1 DEF Ordered
    <2>1. i \in 1 .. Len(h) /\ j \in 1 .. Len(h) /\ i + 1 \in 1 .. Len(h) /\ j + 1 \in 1 .. Len(h)
        BY <1>1
    <2>2. \A k, l \in 1 .. Len(h) : k < l => h[k].seq < h[l].seq
        BY <1>1 DEF Sound, Ordered
    <2>3. i < j + 1 /\ i + 1 < j + 1 /\ ((~ (j < p)) \/ (i < p /\ j < p))
        BY <1>1
    <2> QED BY <1>1, <1>2, <2>1, <2>2, <2>3
<1>5. Truthful(c, lg)
    <2> SUFFICES ASSUME NEW i \in 1 .. Len(h) - 1
                 PROVE  /\ c[i].seq \in 1 .. Len(lg) /\ c[i].first \in 1 .. c[i].seq
                        /\ c[i].body # Gap => c[i].body = lg[c[i].seq] /\ c[i].first = c[i].seq
        BY <1>1 DEF Truthful
    <2>1. PICK k \in DOMAIN h : c[i] = h[k]
        <3>1. i \in DOMAIN h /\ i + 1 \in DOMAIN h
            BY <1>1
        <3> QED BY <1>2, <3>1
    <2> QED BY <2>1 DEF Sound, Truthful
<1>6. ASSUME NEW n \in Nat, Has(h, n), Reliable(lg[n])
      PROVE  Has(c, n)
    <2>1. PICK i \in DOMAIN h : h[i].body # Gap /\ h[i].seq = n
        BY <1>6 DEF Has
    <2>2. i # p
        BY <1>3, <1>6, <2>1 DEF Reliable
    <2>3. \/ i \in 1 .. Len(h) - 1 /\ c[i] = h[i]
          \/ i - 1 \in 1 .. Len(h) - 1 /\ c[i - 1] = h[i]
        <3>1. CASE i < p
            BY <1>1, <1>2, <3>1
        <3>2. CASE i > p
            <4>1. i - 1 \in 1 .. Len(h) - 1 /\ ~ (i - 1 < p) /\ i - 1 + 1 = i
                BY <1>1, <3>2
            <4> QED BY <1>2, <4>1
        <3> QED BY <1>1, <2>2, <3>1, <3>2
    <2> QED BY <1>1, <2>1, <2>3 DEF Has
<1>7. ASSUME NEW n \in Nat, Announces(h, n)
      PROVE  Announces(c, n)
    <2>1. PICK i \in DOMAIN h : /\ h[i].body = Gap /\ h[i].first <= n
                                /\ i = Len(h) \/ n < h[i + 1].seq
        BY <1>7 DEF Announces
    <2>2. i # p /\ \A k \in 1 .. Len(h) : i < k => n < h[k].seq
        <3>1. i # p
            BY <1>3, <2>1
        <3>2. ASSUME NEW k \in 1 .. Len(h), i < k
              PROVE  n < h[k].seq
            <4>1. i # Len(h) /\ i + 1 \in 1 .. Len(h) /\ i + 1 <= k
                BY <1>1, <3>2
            <4>2. i + 1 < k => h[i + 1].seq < h[k].seq
                BY <1>1, <4>1 DEF Sound, Ordered
            <4>3. CASE i + 1 = k
                BY <2>1, <4>1, <4>3
            <4>4. CASE i + 1 < k
                BY <1>1, <2>1, <4>1, <4>2, <4>4
            <4> QED BY <1>1, <4>1, <4>3, <4>4
        <3> QED BY <3>1, <3>2
    <2>3. CASE i < p
        <3>1. i \in 1 .. Len(h) - 1 /\ c[i] = h[i]
            BY <1>1, <1>2, <2>3
        <3>2. CASE i = Len(c)
            BY <1>1, <2>1, <3>1, <3>2 DEF Announces
        <3>3. CASE i # Len(c)
            <4>1. i + 1 \in 1 .. Len(h) - 1 /\ i + 1 \in 1 .. Len(h) /\ i + 1 + 1 \in 1 .. Len(h)
                BY <1>1, <3>1, <3>3
            <4>2. c[i + 1] = h[i + 1] \/ c[i + 1] = h[i + 1 + 1]
                BY <1>2, <4>1
            <4>3. n < c[i + 1].seq
                BY <1>1, <2>2, <4>1, <4>2
            <4> QED BY <1>1, <2>1, <3>1, <4>3 DEF Announces
        <3> QED BY <3>2, <3>3
    <2>4. CASE i > p
        <3> DEFINE k == i - 1
        <3>1. k \in 1 .. Len(h) - 1 /\ ~ (k < p) /\ k + 1 = i
            BY <1>1, <2>4
        <3> HIDE DEF k
        <3>2. c[k] = h[i]
            BY <1>2, <3>1
        <3>3. CASE k = Len(c)
            BY <1>1, <2>1, <3>1, <3>2, <3>3 DEF Announces
        <3>4. CASE k # Len(c)
            <4>0. /\ i \in Nat /\ 1 <= i /\ i <= Len(h) - 1 /\ Len(h) \in Nat
                  /\ p \in Nat /\ p < i
                <5>0. Len(h) \in Nat /\ Len(c) = Len(h) - 1
                    BY <1>1
                <5>1. k \in Nat /\ k # Len(h) - 1 /\ k <= Len(h) - 1 /\ k + 1 = i
                    BY <5>0, <3>1, <3>4
                <5>2. Len(h) \in Nat /\ p \in Nat /\ p < i
                    BY <1>1, <2>4
                <5> QED BY <5>1, <5>2
            <4>1. /\ i \in 1 .. Len(h) - 1 /\ ~ (i < p)
                  /\ i + 1 \in 1 .. Len(h) /\ i < i + 1
                BY <4>0
            <4>2. c[k + 1] = h[i + 1]
                BY <1>2, <3>1, <4>1
            <4>3. n < c[k + 1].seq
                BY <1>1, <2>2, <4>1, <4>2
            <4> QED BY <1>1, <2>1, <3>1, <3>2, <4>3 DEF Announces
        <3> QED BY <3>3, <3>4
    <2> QED BY <1>1, <2>2, <2>3, <2>4
<1>8. Told(h, lg, m) => Told(c, lg, m)
    <2> SUFFICES ASSUME Told(h, lg, m), NEW n \in m .. Len(lg), Reliable(lg[n])
                 PROVE  Has(c, n) \/ Announces(c, n)
        BY DEF Told
    <2>1. n \in Nat
        BY LenProperties
    <2> QED BY <1>6, <1>7, <2>1 DEF Told
<1> QED BY <1>4, <1>5, <1>6, <1>8 DEF Sound

\* What was taken, followed by what waits.
LEMMA Joined ==
    ASSUME NEW g \in Seq(Entry), NEW s \in Seq(Entry)
    PROVE  /\ g \o s \in Seq(Entry) /\ Len(g \o s) = Len(g) + Len(s)
           /\ DOMAIN (g \o s) = 1 .. Len(g) + Len(s)
           /\ \A i \in 1 .. Len(g) : (g \o s)[i] = g[i]
           /\ \A i \in 1 .. Len(s) : (g \o s)[Len(g) + i] = s[i]
<1>0. Len(g) \in Nat /\ Len(s) \in Nat
    BY Entries
<1>1. /\ g \o s \in Seq(Entry) /\ Len(g \o s) = Len(g) + Len(s)
      /\ \A i \in 1 .. Len(g) + Len(s) :
            (g \o s)[i] = IF i <= Len(g) THEN g[i] ELSE s[i - Len(g)]
    BY ConcatProperties
<1>2. DOMAIN (g \o s) = 1 .. Len(g) + Len(s)
    BY <1>1, LenProperties
<1>3. ASSUME NEW i \in 1 .. Len(g) PROVE (g \o s)[i] = g[i]
    BY <1>0, <1>1
<1>4. ASSUME NEW i \in 1 .. Len(s) PROVE (g \o s)[Len(g) + i] = s[i]
    <2>1. Len(g) + i \in 1 .. Len(g) + Len(s) /\ ~ (Len(g) + i <= Len(g)) /\ Len(g) + i - Len(g) = i
        BY <1>0
    <2> QED BY <1>1, <2>1
<1> QED BY <1>1, <1>2, <1>3, <1>4

\* What waits is in the history.
LEMMA JoinedElement ==
    ASSUME NEW g \in Seq(Entry), NEW s \in Seq(Entry), NEW i \in DOMAIN s
    PROVE  Len(g) + i \in DOMAIN (g \o s) /\ (g \o s)[Len(g) + i] = s[i]
<1>1. i \in 1 .. Len(s) /\ Len(g) \in Nat /\ Len(s) \in Nat
    BY Entries
<1>2. Len(g) + i \in 1 .. Len(g) + Len(s)
    BY <1>1
<1> QED BY <1>1, <1>2, Joined

\* The end of what waits is the end of the history.
LEMMA JoinedAppend ==
    ASSUME NEW g \in Seq(Entry), NEW s \in Seq(Entry), NEW e \in Entry
    PROVE  g \o Append(s, e) = Append(g \o s, e)
<1>1. << e >> \in Seq(Entry)
    <2>1. << >> \in Seq(Entry)
        BY EmptySeq
    <2> QED BY SMT
<1>2. Append(s, e) = s \o << e >> /\ Append(g \o s, e) = (g \o s) \o << e >>
    BY Joined, AppendIsConcat
<1> QED BY <1>1, <1>2, ConcatAssociative

\* f is not after anything that waits.
NotAfter(f, s) == \A i \in DOMAIN s : f <= s[i].first

\* The queue of an overrun stream gives way to a Gap.
LEMMA Ejects ==
    ASSUME NEW g \in Seq(Entry), NEW s \in Seq(Entry), s # << >>, NEW lg \in Seq(Body),
           NEW body \in Body, Sound(g \o s, lg), NEW m \in Nat \ { 0 },
           NEW f \in Nat \ { 0 }, f <= Len(lg) + 1, NotAfter(f, s),
           NEW e, e = GapEnvelope(Len(lg) + 1, f)
    PROVE  /\ << e >> \in Seq(Entry)
           /\ Sound(g \o << e >>, Append(lg, body))
           /\ g \o << e >> # << >> /\ (g \o << e >>)[Len(g \o << e >>)].body = Gap
           /\ Told(g \o s, lg, m) => Told(g \o << e >>, Append(lg, body), m)
<1> DEFINE lh == Append(lg, body)
           h == g \o s
           c == g \o << e >>
<1>0. /\ Len(lg) \in Nat /\ Len(lh) = Len(lg) + 1 /\ lh[Len(lg) + 1] = body
      /\ \A n \in 1 .. Len(lg) : lh[n] = lg[n]
    BY Longer
<1>1. e \in Entry /\ e.seq = Len(lg) + 1 /\ e.first = f /\ e.body = Gap
    BY <1>0 DEF GapEnvelope, Entry
<1>2. << e >> \in Seq(Entry) /\ Len(<< e >>) = 1 /\ << e >>[1] = e
    BY <1>1
<1>3. /\ Len(g) \in Nat /\ Len(s) \in Nat \ { 0 } /\ DOMAIN s = 1 .. Len(s) /\ DOMAIN g = 1 .. Len(g)
      /\ h \in Seq(Entry) /\ c \in Seq(Entry)
    BY <1>2, Entries, Joined
<1>4. /\ Len(h) = Len(g) + Len(s) /\ DOMAIN h = 1 .. Len(g) + Len(s)
      /\ \A i \in 1 .. Len(g) : h[i] = g[i]
      /\ \A i \in 1 .. Len(s) : h[Len(g) + i] = s[i]
    BY Joined
<1>5. /\ Len(c) = Len(g) + 1 /\ DOMAIN c = 1 .. Len(g) + 1
      /\ \A i \in 1 .. Len(g) : c[i] = g[i]
      /\ c[Len(g) + 1] = e
    BY <1>2, <1>3, Joined
<1>6. \A i \in DOMAIN h : h[i].seq \in 1 .. Len(lg) /\ h[i].first \in Nat
    BY Entries DEF Sound, Truthful
<1> HIDE DEF lh, h, c
<1>7. Ordered(c)
    <2> SUFFICES ASSUME NEW i \in 1 .. Len(g) + 1, NEW j \in 1 .. Len(g) + 1, i < j
                 PROVE  c[i].seq < c[j].seq
        BY <1>5 DEF Ordered
    <2>1. i \in 1 .. Len(g) /\ i \in DOMAIN h /\ c[i] = h[i] /\ h[i].seq \in 1 .. Len(lg)
        <3>0. Len(g) \in Nat /\ Len(s) \in Nat
            BY <1>3
        <3>1. i \in 1 .. Len(g) /\ i \in 1 .. Len(g) + Len(s)
            BY <3>0
        <3> QED BY <1>4, <1>5, <1>6, <3>1
    <2>2. CASE j \in 1 .. Len(g)
        <3>1. j \in DOMAIN h /\ c[j] = h[j]
            BY <1>3, <1>4, <1>5, <2>2
        <3> QED BY <2>1, <3>1 DEF Sound, Ordered, h
    <2>3. CASE j = Len(g) + 1
        BY <1>0, <1>1, <1>5, <2>1, <2>3
    <2> QED BY <1>3, <2>2, <2>3
<1>8. Truthful(c, lh)
    <2> SUFFICES ASSUME NEW i \in 1 .. Len(g) + 1
                 PROVE  /\ c[i].seq \in 1 .. Len(lh) /\ c[i].first \in 1 .. c[i].seq
                        /\ c[i].body # Gap => c[i].body = lh[c[i].seq] /\ c[i].first = c[i].seq
        BY <1>5 DEF Truthful
    <2>1. CASE i \in 1 .. Len(g)
        <3>0. i \in 1 .. Len(g) + Len(s)
            BY <1>3, <2>1
        <3>1. i \in DOMAIN h /\ c[i] = h[i] /\ h[i].seq \in 1 .. Len(lg)
            BY <1>4, <1>5, <1>6, <2>1, <3>0
        <3>2. /\ h[i].first \in 1 .. h[i].seq
              /\ h[i].body # Gap => h[i].body = lg[h[i].seq] /\ h[i].first = h[i].seq
            BY <3>1 DEF Sound, Truthful, h
        <3> QED BY <1>0, <3>1, <3>2
    <2>2. CASE i = Len(g) + 1
        BY <1>0, <1>1, <1>5, <2>2
    <2> QED BY <1>3, <2>1, <2>2
<1>9. c # << >> /\ c[Len(c)].body = Gap
    BY <1>1, <1>3, <1>5, EmptySeq
<1>10. ASSUME Told(h, lg, m), NEW n \in m .. Len(lh), Reliable(lh[n])
       PROVE  Has(c, n) \/ Announces(c, n)
    <2>0. n \in Nat /\ n <= Len(lg) + 1
        BY <1>0
    <2>1. CASE f <= n
        <3>1. Len(g) + 1 \in DOMAIN c /\ Len(g) + 1 = Len(c)
            BY <1>3, <1>5
        <3> QED BY <1>1, <1>5, <2>1, <3>1 DEF Announces
    <2>2. CASE ~ (f <= n)
        <3>1. n \in m .. Len(lg) /\ n \in 1 .. Len(lg) /\ Reliable(lg[n]) /\ n < f
            BY <1>0, <1>10, <2>0, <2>2
        <3>2. \A i \in DOMAIN h : h[i].first <= n => i \in 1 .. Len(g)
            <4> SUFFICES ASSUME NEW i \in DOMAIN h, h[i].first <= n, i \notin 1 .. Len(g)
                         PROVE  FALSE
                OBVIOUS
            <4>1. i - Len(g) \in 1 .. Len(s) /\ Len(g) + (i - Len(g)) = i
                BY <1>3, <1>4
            <4>2. h[i] = s[i - Len(g)]
                BY <1>4, <4>1
            <4>3. f <= h[i].first /\ h[i].first \in Nat
                BY <1>3, <1>6, <4>1, <4>2 DEF NotAfter
            <4> QED BY <2>0, <3>1, <4>3
        <3>3. CASE Has(h, n)
            <4>1. PICK i \in DOMAIN h : h[i].body # Gap /\ h[i].seq = n
                BY <3>3 DEF Has
            <4>2. h[i].first = n
                BY <4>1 DEF Sound, Truthful, h
            <4>3. i \in 1 .. Len(g)
                BY <2>0, <3>2, <4>2
            <4> QED BY <1>3, <1>4, <1>5, <4>1, <4>3 DEF Has
        <3>4. CASE Announces(h, n)
            <4>1. PICK i \in DOMAIN h : /\ h[i].body = Gap /\ h[i].first <= n
                                        /\ i = Len(h) \/ n < h[i + 1].seq
                BY <3>4 DEF Announces
            <4>2. i \in 1 .. Len(g)
                BY <3>2, <4>1
            <4>3. c[i] = h[i] /\ i \in DOMAIN c
                BY <1>3, <1>4, <1>5, <4>2
            <4>4. n < c[i + 1].seq
                <5>1. CASE i = Len(g)
                    BY <1>0, <1>1, <1>5, <3>1, <5>1
                <5>2. CASE i # Len(g)
                    <6>1. i + 1 \in 1 .. Len(g) /\ i # Len(h)
                        BY <1>3, <1>4, <4>2, <5>2
                    <6> QED BY <1>4, <1>5, <4>1, <6>1
                <5> QED BY <5>1, <5>2
            <4> QED BY <4>1, <4>3, <4>4 DEF Announces
        <3> QED BY <1>10, <3>1, <3>3, <3>4 DEF Told
    <2> QED BY <2>1, <2>2
<1>11. Told(h, lg, m) => Told(c, lh, m)
    BY <1>10 DEF Told
<1> QED BY <1>2, <1>7, <1>8, <1>9, <1>11 DEF h, c, lh, Sound

-----------------------------------------------------------------------------
(***************************************************************************)
(* The replay buffer.                                                      *)
(***************************************************************************)
\* A new event at the end.
LEMMA ReplayExtends ==
    ASSUME NEW r \in Seq(Entry), NEW lg \in Seq(Body), NEW body \in Body, Contiguous(r, lg)
    PROVE  LET g == Append(r, Envelope(Len(lg) + 1, body))
           IN  g \in Seq(Entry) /\ Contiguous(g, Append(lg, body)) /\ Len(g) = Len(r) + 1
<1> DEFINE lh == Append(lg, body)
           e == Envelope(Len(lg) + 1, body)
           g == Append(r, e)
<1>0. /\ Len(lg) \in Nat /\ Len(lh) = Len(lg) + 1 /\ lh[Len(lg) + 1] = body
      /\ \A n \in 1 .. Len(lg) : lh[n] = lg[n]
    BY Longer
<1>1. e \in Entry /\ e.seq = Len(lg) + 1 /\ e.body # Gap
    BY <1>0, NotGap DEF Envelope, Entry
<1>2. g \in Seq(Entry) /\ Sound(g, lh)
    <2>1. 1 \in Nat \ { 0 } /\ Sound(r, lg)
        BY DEF Contiguous
    <2> HIDE DEF e
    <2>2. e = Envelope(Len(lg) + 1, body)
        BY DEF e
    <2> QED BY <2>1, <2>2, Extends
<1>3. /\ Len(g) = Len(r) + 1 /\ g[Len(r) + 1] = e
      /\ \A i \in 1 .. Len(r) : g[i] = r[i]
    BY <1>1, AppendProperties
<1>4. /\ Len(r) \in Nat /\ DOMAIN r = 1 .. Len(r) /\ DOMAIN g = 1 .. Len(r) + 1
      /\ r = << >> => Len(r) = 0
      /\ r # << >> => Len(r) # 0
    BY <1>2, <1>3, Entries
<1> HIDE DEF lh, g, e
<1>5. \A i \in DOMAIN g : g[i].body # Gap
    BY <1>1, <1>3, <1>4 DEF Contiguous
<1>6. ASSUME NEW n \in 1 .. Len(lh), Reliable(lh[n]), g[1].seq <= n
      PROVE  Has(g, n)
    <2>1. CASE n = Len(lg) + 1
        BY <1>0, <1>1, <1>3, <1>4, <2>1 DEF Has
    <2>2. CASE n # Len(lg) + 1
        <3>1. n \in 1 .. Len(lg) /\ Reliable(lg[n])
            BY <1>0, <1>6, <2>2
        <3>2. r # << >>
            BY <1>0, <1>1, <1>3, <1>4, <1>6, <3>1
        <3>3. 1 \in 1 .. Len(r) /\ g[1] = r[1]
            BY <1>3, <1>4, <3>2
        <3>4. Has(r, n)
            BY <1>6, <3>1, <3>2, <3>3 DEF Contiguous
        <3> QED BY <1>3, <1>4, <3>4 DEF Has
    <2> QED BY <2>1, <2>2
<1>7. Contiguous(g, lh)
    BY <1>2, <1>5, <1>6 DEF Contiguous
<1> QED BY <1>2, <1>3, <1>7 DEF g, e, lh

\* A Progress left out.
LEMMA ReplayDrops ==
    ASSUME NEW r \in Seq(Entry), NEW c \in Seq(Entry), NEW lg \in Seq(Body), Contiguous(r, lg),
           NEW p \in 1 .. Len(r), r[p].body = Progress, Without(r, p, c)
    PROVE  Contiguous(c, lg)
<1>1. /\ Len(r) \in Nat /\ DOMAIN r = 1 .. Len(r) /\ Len(c) = Len(r) - 1
      /\ DOMAIN c = 1 .. Len(r) - 1 /\ p \in Nat /\ 1 <= p /\ p <= Len(r)
      /\ c # << >> => Len(c) # 0
    BY Entries DEF Without
<1>2. \A i \in 1 .. Len(r) - 1 : i \in DOMAIN r /\ i + 1 \in DOMAIN r /\ (c[i] = r[i] \/ c[i] = r[i + 1])
    BY <1>1 DEF Without
<1>3. Sound(c, lg) /\ \A n \in Nat : Has(r, n) /\ Reliable(lg[n]) => Has(c, n)
    <2>1. 1 \in Nat \ { 0 } /\ Sound(r, lg)
        BY DEF Contiguous
    <2> QED BY <2>1, Drops
<1>4. \A i \in DOMAIN c : c[i].body # Gap
    BY <1>1, <1>2 DEF Contiguous
<1>5. ASSUME NEW n \in 1 .. Len(lg), Reliable(lg[n]), c # << >>, c[1].seq <= n
      PROVE  Has(c, n)
    <2>1. n \in Nat /\ Len(c) \in Nat /\ 1 \in 1 .. Len(r) - 1
        BY <1>1, <1>5, Entries, LenProperties
    <2>2. r # << >> /\ 1 \in DOMAIN r /\ 2 \in DOMAIN r /\ r[1].seq \in Nat /\ r[2].seq \in Nat
        BY <1>1, <2>1, Entries
    <2>3. r[1].seq < r[2].seq
        BY <2>2 DEF Contiguous, Sound, Ordered
    <2>4. c[1] = r[1] \/ c[1] = r[2]
        BY <1>2, <2>1
    <2>5. r[1].seq <= n
        BY <1>5, <2>1, <2>2, <2>3, <2>4
    <2> QED BY <1>3, <1>5, <2>1, <2>2, <2>5 DEF Contiguous
<1> QED BY <1>3, <1>4, <1>5 DEF Contiguous

\* The tail of a buffer from one entry on.
LEMMA ReplayShortens ==
    ASSUME NEW r \in Seq(Entry), NEW s \in Seq(Entry), NEW lg \in Seq(Body), Contiguous(r, lg),
           NEW k, Suffix(s, r, k)
    PROVE  Contiguous(s, lg)
<1>1. /\ Len(r) \in Nat /\ DOMAIN r = 1 .. Len(r) /\ Len(s) = Len(r) - k + 1
      /\ k \in Nat /\ 1 <= k /\ k <= Len(r) + 1
      /\ DOMAIN s = 1 .. Len(s) /\ Len(s) \in Nat
      /\ s # << >> => Len(s) # 0
    BY Entries DEF Suffix
<1>2. \A i \in 1 .. Len(s) : k + i - 1 \in DOMAIN r /\ s[i] = r[k + i - 1]
    <2>1. ASSUME NEW i \in 1 .. Len(s) PROVE k + i - 1 \in DOMAIN r
        BY <1>1
    <2> QED BY <2>1 DEF Suffix
<1>3. Ordered(s)
    <2> SUFFICES ASSUME NEW i \in 1 .. Len(s), NEW j \in 1 .. Len(s), i < j
                 PROVE  s[i].seq < s[j].seq
        BY <1>1 DEF Ordered
    <2>1. k + i - 1 < k + j - 1
        BY <1>1
    <2> QED BY <1>2, <2>1 DEF Contiguous, Sound, Ordered
<1>4. Truthful(s, lg)
    <2>1. \A i \in DOMAIN s : \E j \in DOMAIN r : s[i] = r[j]
        BY <1>1, <1>2
    <2> QED BY <2>1 DEF Contiguous, Sound, Truthful
<1>5. \A i \in DOMAIN s : s[i].body # Gap
    <2>1. \A i \in DOMAIN s : \E j \in DOMAIN r : s[i] = r[j]
        BY <1>1, <1>2
    <2> QED BY <2>1 DEF Contiguous
<1>6. ASSUME NEW n \in 1 .. Len(lg), Reliable(lg[n]), s # << >>, s[1].seq <= n
      PROVE  Has(s, n)
    <2>0. n \in Nat
        BY LenProperties
    <2>1. 1 \in 1 .. Len(s) /\ k \in DOMAIN r /\ s[1] = r[k] /\ 1 \in DOMAIN r /\ r # << >>
        <3>1. 1 \in 1 .. Len(s) /\ k + 1 - 1 = k /\ k <= Len(r)
            BY <1>1, <1>6
        <3>2. k \in DOMAIN r /\ 1 \in DOMAIN r /\ Len(r) # 0
            BY <1>1, <3>1
        <3> QED BY <1>2, <3>1, <3>2, EmptySeq
    <2>2. \A i \in DOMAIN r : r[i].seq \in Nat
        BY Entries
    <2>3. r[1].seq <= n
        <3>1. CASE k = 1
            BY <1>6, <2>1, <3>1
        <3>2. CASE k # 1
            <4>1. r[1].seq < r[k].seq
                BY <1>1, <2>1, <3>2 DEF Contiguous, Sound, Ordered
            <4> QED BY <1>6, <2>0, <2>1, <2>2, <4>1
        <3> QED BY <3>1, <3>2
    <2>4. PICK i \in DOMAIN r : r[i].body # Gap /\ r[i].seq = n
        BY <1>6, <2>1, <2>3 DEF Contiguous, Has
    <2>5. k <= i
        <3> SUFFICES ASSUME i < k PROVE FALSE
            BY <1>1
        <3>1. r[i].seq < r[k].seq
            BY <2>1 DEF Contiguous, Sound, Ordered
        <3> QED BY <1>6, <2>0, <2>1, <2>2, <2>4, <3>1
    <2>6. i - k + 1 \in 1 .. Len(s) /\ k + (i - k + 1) - 1 = i
        BY <1>1, <2>5
    <2>7. s[i - k + 1] = r[i]
        BY <1>2, <2>6
    <2> QED BY <1>1, <2>4, <2>6, <2>7 DEF Has
<1> QED BY <1>3, <1>4, <1>5, <1>6 DEF Contiguous, Sound

\* deque(maxlen): the buffer after an event is in order, lacks nothing after
\* its first entry and is bounded.
LEMMA ReplayedIs ==
    ASSUME HubTypes, ReplayInv, NEW body \in Body
    PROVE  LET r == Replayed(Envelope(_seq + 1, body))
           IN  r \in Seq(Entry) /\ Len(r) <= ReplayCapacity /\ Contiguous(r, Append(log, body))
<1> DEFINE e == Envelope(Len(log) + 1, body)
           lh == Append(log, body)
           buffer == IF Reliable(e.body) THEN replay ELSE Coalesced(replay)
           longer == Append(buffer, e)
           r == IF Len(longer) > ReplayCapacity THEN Latest(longer, ReplayCapacity) ELSE longer
<1>1. Replayed(Envelope(_seq + 1, body)) = r
    BY DEF Replayed, _seq
<1>2. log \in Seq(Body) /\ lh \in Seq(Body) /\ replay \in Seq(Entry)
    BY Longer DEF HubTypes
<1>3. buffer \in Seq(Entry) /\ Contiguous(buffer, log)
    <2>1. Coalesced(replay) \in Seq(Entry) /\ Contiguous(Coalesced(replay), log)
        BY <1>2, CoalescedIs, ReplayDrops DEF ReplayInv
    <2> QED BY <1>2, <2>1 DEF ReplayInv
<1>4. longer \in Seq(Entry) /\ Contiguous(longer, lh)
    <2> HIDE DEF buffer
    <2> QED BY <1>2, <1>3, ReplayExtends
<1> HIDE DEF longer, lh
<1>5. ReplayCapacity \in Nat \ { 0 } /\ Len(longer) \in Nat
    BY <1>4, HubAssumption, Entries
<1>6. CASE Len(longer) > ReplayCapacity
    <2> DEFINE k == Len(longer) - ReplayCapacity + 1
    <2>1. k \in 1 .. Len(longer) + 1
        BY <1>5, <1>6
    <2>2. r = SubSeq(longer, k, Len(longer))
        BY <1>6 DEF Latest
    <2> HIDE DEF k, r
    <2>3. r \in Seq(Entry) /\ Suffix(r, longer, k)
        BY <1>4, <2>1, <2>2, SuffixIs
    <2>4. Len(r) = Len(longer) - k + 1
        BY <2>3 DEF Suffix
    <2>5. Len(r) = ReplayCapacity
        BY <1>5, <2>4 DEF k
    <2>6. Contiguous(r, lh)
        BY <1>2, <1>4, <2>3, ReplayShortens
    <2> QED BY <1>1, <1>5, <2>3, <2>5, <2>6 DEF lh
<1>7. CASE ~ (Len(longer) > ReplayCapacity)
    <2>1. r = longer /\ Len(longer) <= ReplayCapacity
        BY <1>5, <1>7
    <2> HIDE DEF r
    <2> QED BY <1>1, <1>4, <2>1 DEF lh
<1> QED BY <1>6, <1>7

\* What a late subscriber may be given is a tail of the replay buffer.
LEMMA WantedIs ==
    ASSUME HubTypes, ReplayInv, NEW requested \in Nat \ { 0 }
    PROVE  LET w == Wanted(requested)
           IN  /\ w \in Seq(Entry) /\ \E k : Suffix(w, replay, k)
               /\ \A i \in DOMAIN w : requested <= w[i].seq
               /\ \A n \in Nat : requested <= n /\ Has(replay, n) => Has(w, n)
<1> DEFINE at == { i \in DOMAIN replay : replay[i].seq >= requested }
           first == CHOOSE i \in at : \A j \in at : i <= j
           w == Wanted(requested)
<1>1. /\ replay \in Seq(Entry) /\ Len(replay) \in Nat /\ DOMAIN replay = 1 .. Len(replay)
      /\ \A i \in DOMAIN replay : replay[i].seq \in Nat
    BY Entries DEF HubTypes
<1>2. CASE at = {}
    <2>1. w = << >> /\ w \in Seq(Entry) /\ Len(w) = 0 /\ DOMAIN w = {}
        <3>1. w = << >>
            BY <1>2 DEF Wanted
        <3>2. w \in Seq(Entry) /\ Len(w) = 0
            BY <3>1, EmptySeq
        <3> QED BY <3>1, <3>2, Entries
    <2>2. Suffix(w, replay, Len(replay) + 1)
        BY <1>1, <2>1 DEF Suffix
    <2>3. ASSUME NEW n \in Nat, requested <= n, Has(replay, n) PROVE FALSE
        <3>1. PICK i \in DOMAIN replay : replay[i].seq = n
            BY <2>3 DEF Has
        <3>2. i \in at
            BY <2>3, <3>1
        <3> QED BY <1>2, <3>2
    <2> QED BY <2>1, <2>2, <2>3
<1>3. CASE at # {}
    <2>1. \E i \in at : \A j \in at : i <= j
        <3>1. at \in SUBSET Nat
            BY <1>1
        <3> HIDE DEF at
        <3> QED BY <1>3, <3>1, Least
    <2>2. first \in at /\ \A j \in at : first <= j
        <3> HIDE DEF at
        <3> QED BY <2>1
    <2>3. w = SubSeq(replay, first, Len(replay))
        BY <1>3 DEF Wanted
    <2> HIDE DEF first
    <2>4. first \in 1 .. Len(replay) /\ replay[first].seq >= requested /\ first \in 1 .. Len(replay) + 1
        BY <1>1, <2>2
    <2>5. w \in Seq(Entry) /\ Suffix(w, replay, first)
        <3> HIDE DEF w
        <3> QED BY <1>1, <2>3, <2>4, SuffixIs
    <2> HIDE DEF w
    <2>6. /\ Len(w) = Len(replay) - first + 1 /\ DOMAIN w = 1 .. Len(w)
          /\ \A i \in 1 .. Len(w) : w[i] = replay[first + i - 1]
        BY <2>5, Entries DEF Suffix
    <2>7. ASSUME NEW i \in DOMAIN w PROVE requested <= w[i].seq
        <3>1. first + i - 1 \in DOMAIN replay /\ first <= first + i - 1 /\ i \in 1 .. Len(w)
            BY <1>1, <2>4, <2>6
        <3>2. w[i] = replay[first + i - 1]
            BY <2>6, <3>1
        <3>3. CASE first + i - 1 = first
            BY <1>1, <2>4, <3>2, <3>3
        <3>4. CASE first + i - 1 # first
            <4>1. first < first + i - 1
                BY <2>4, <3>1, <3>4
            <4>2. \A a, b \in DOMAIN replay : a < b => replay[a].seq < replay[b].seq
                BY DEF ReplayInv, Contiguous, Sound, Ordered
            <4>3. first \in DOMAIN replay
                BY <1>1, <2>4
            <4>4. replay[first].seq < w[i].seq
                BY <3>1, <3>2, <4>1, <4>2, <4>3
            <4>5. replay[first].seq \in Nat /\ w[i].seq \in Nat
                BY <1>1, <3>1, <3>2, <4>3
            <4> QED BY <2>4, <4>4, <4>5
        <3> QED BY <3>3, <3>4
    <2>8. ASSUME NEW n \in Nat, requested <= n, Has(replay, n) PROVE Has(w, n)
        <3>1. PICK i \in DOMAIN replay : replay[i].body # Gap /\ replay[i].seq = n
            BY <2>8 DEF Has
        <3>2. first <= i
            BY <2>2, <2>8, <3>1
        <3>3. i - first + 1 \in 1 .. Len(w) /\ first + (i - first + 1) - 1 = i
            BY <1>1, <2>4, <2>6, <3>2
        <3>4. w[i - first + 1] = replay[i]
            BY <2>6, <3>3
        <3> QED BY <2>6, <3>1, <3>3, <3>4 DEF Has
    <2> QED BY <2>5, <2>7, <2>8 DEF w
<1> QED BY <1>2, <1>3

\* A Gap before a tail of the replay buffer stands for what is not in the tail.
LEMMA GapThenTail ==
    ASSUME NEW s \in Seq(Entry), NEW lg \in Seq(Body), Contiguous(s, lg),
           NEW m \in 1 .. Len(lg), \A i \in DOMAIN s : m < s[i].seq
    PROVE  LET h == << GapEnvelope(m, m) >> \o s
           IN  h \in Seq(Entry) /\ Sound(h, lg) /\ Told(h, lg, m)
<1> DEFINE e == GapEnvelope(m, m)
           h == << e >> \o s
<1>0. Len(lg) \in Nat /\ m \in Nat /\ 1 <= m /\ m <= Len(lg)
    BY LenProperties
<1>1. e \in Entry /\ e.seq = m /\ e.first = m /\ e.body = Gap
    BY <1>0 DEF GapEnvelope, Entry
<1> HIDE DEF e
<1>2. << e >> \in Seq(Entry) /\ Len(<< e >>) = 1 /\ << e >>[1] = e
    BY <1>1
<1>3. /\ Len(s) \in Nat /\ DOMAIN s = 1 .. Len(s)
      /\ \A i \in 1 .. Len(s) : s[i].seq \in Nat /\ s[i].first \in Nat
      /\ s # << >> => Len(s) # 0
      /\ s = << >> => Len(s) = 0
    BY Entries
<1>4. /\ h \in Seq(Entry) /\ Len(h) = 1 + Len(s) /\ DOMAIN h = 1 .. 1 + Len(s)
      /\ \A i \in 1 .. 1 : h[i] = << e >>[i]
      /\ \A i \in 1 .. Len(s) : h[1 + i] = s[i]
    BY <1>2, Joined
<1>5. h[1] = e
    BY <1>2, <1>4
<1> HIDE DEF h
<1>6. \A i \in DOMAIN h : i = 1 \/ (i - 1 \in 1 .. Len(s) /\ h[i] = s[i - 1])
    <2> SUFFICES ASSUME NEW i \in DOMAIN h, i # 1
                 PROVE  i - 1 \in 1 .. Len(s) /\ h[i] = s[i - 1]
        OBVIOUS
    <2>1. i - 1 \in 1 .. Len(s) /\ 1 + (i - 1) = i
        BY <1>3, <1>4
    <2> QED BY <1>4, <2>1
<1>7. Ordered(h)
    <2> SUFFICES ASSUME NEW i \in DOMAIN h, NEW j \in DOMAIN h, i < j
                 PROVE  h[i].seq < h[j].seq
        BY DEF Ordered
    <2>1. j - 1 \in 1 .. Len(s) /\ h[j] = s[j - 1]
        BY <1>3, <1>4, <1>6
    <2>2. CASE i = 1
        BY <1>1, <1>3, <1>5, <2>1, <2>2
    <2>3. CASE i # 1
        <3>1. i - 1 \in 1 .. Len(s) /\ h[i] = s[i - 1] /\ i - 1 < j - 1
            BY <1>3, <1>4, <1>6, <2>3
        <3> QED BY <1>3, <2>1, <3>1 DEF Contiguous, Sound, Ordered
    <2> QED BY <2>2, <2>3
<1>8. Truthful(h, lg)
    <2> SUFFICES ASSUME NEW i \in DOMAIN h
                 PROVE  /\ h[i].seq \in 1 .. Len(lg) /\ h[i].first \in 1 .. h[i].seq
                        /\ h[i].body # Gap => h[i].body = lg[h[i].seq] /\ h[i].first = h[i].seq
        BY DEF Truthful
    <2>1. CASE i = 1
        BY <1>0, <1>1, <1>5, <2>1
    <2>2. CASE i # 1
        <3>1. i - 1 \in DOMAIN s /\ h[i] = s[i - 1]
            BY <1>3, <1>6, <2>2
        <3> QED BY <3>1 DEF Contiguous, Sound, Truthful
    <2> QED BY <2>1, <2>2
<1>9. ASSUME NEW n \in m .. Len(lg), Reliable(lg[n])
      PROVE  Has(h, n) \/ Announces(h, n)
    <2>0. n \in Nat /\ m <= n /\ n \in 1 .. Len(lg) /\ 1 \in DOMAIN h
        BY <1>0, <1>3, <1>4
    <2>1. CASE s = << >>
        BY <1>1, <1>3, <1>4, <1>5, <2>0, <2>1 DEF Announces
    <2>2. CASE s # << >>
        <3>1. 1 \in 1 .. Len(s) /\ h[1 + 1] = s[1] /\ s[1].seq \in Nat
            BY <1>3, <1>4, <2>2
        <3>2. CASE n < s[1].seq
            BY <1>1, <1>5, <2>0, <3>1, <3>2 DEF Announces
        <3>3. CASE ~ (n < s[1].seq)
            <4>1. s[1].seq <= n
                BY <2>0, <3>1, <3>3
            <4>2. PICK i \in DOMAIN s : s[i].body # Gap /\ s[i].seq = n
                BY <1>9, <2>0, <2>2, <4>1 DEF Contiguous, Has
            <4>3. 1 + i \in DOMAIN h /\ h[1 + i] = s[i]
                BY <1>3, <1>4
            <4> QED BY <4>2, <4>3 DEF Has
        <3> QED BY <3>2, <3>3
    <2> QED BY <2>1, <2>2
<1>10. Told(h, lg, m)
    BY <1>9 DEF Told
<1> QED BY <1>4, <1>7, <1>8, <1>10 DEF h, e, Sound

\* What subscribe puts into a new queue.
Initial(requested) ==
    LET there == Wanted(requested)
        gap == _seq >= requested /\ (there = << >> \/ Head(there).seq > requested)
        allowance == SubscriberCapacity - (IF gap THEN 1 ELSE 0)
        tail == IF Len(there) > allowance THEN Latest(there, allowance) ELSE there
    IN  IF gap \/ tail # there THEN << GapEnvelope(requested, requested) >> \o tail ELSE tail

\* It tells of everything that was asked for.
LEMMA InitialIs ==
    ASSUME HubTypes, ReplayInv, NEW requested \in 1 .. _seq + 1
    PROVE  LET h == Initial(requested)
           IN  h \in Seq(Entry) /\ Sound(h, log) /\ Told(h, log, requested)
<1> DEFINE there == Wanted(requested)
           gap == _seq >= requested /\ (there = << >> \/ Head(there).seq > requested)
           allowance == SubscriberCapacity - (IF gap THEN 1 ELSE 0)
           tail == IF Len(there) > allowance THEN Latest(there, allowance) ELSE there
           h == IF gap \/ tail # there THEN << GapEnvelope(requested, requested) >> \o tail
                ELSE tail
<1>0. /\ log \in Seq(Body) /\ _seq = Len(log) /\ Len(log) \in Nat /\ requested \in Nat \ { 0 }
      /\ requested <= Len(log) + 1 /\ replay \in Seq(Entry)
    BY LenProperties DEF HubTypes, _seq
<1>1. /\ there \in Seq(Entry) /\ \E k : Suffix(there, replay, k)
      /\ \A i \in DOMAIN there : requested <= there[i].seq
    BY <1>0, WantedIs
<1>2. Contiguous(there, log)
    BY <1>0, <1>1, ReplayShortens DEF ReplayInv
<1>3. /\ Len(there) \in Nat /\ DOMAIN there = 1 .. Len(there)
      /\ \A i \in 1 .. Len(there) : there[i].seq \in 1 .. Len(log) /\ there[i].seq \in Nat
      /\ there # << >> => Len(there) # 0 /\ Head(there) = there[1]
      /\ there = << >> => Len(there) = 0
    BY <1>1, <1>2, Entries DEF Contiguous, Sound, Truthful
<1>4. allowance \in Nat
    BY HubAssumption
<1>given. Initial(requested) = h
    BY DEF Initial
<1> HIDE DEF there, allowance, gap
<1>5. PICK k \in 1 .. Len(there) + 1 : /\ tail \in Seq(Entry) /\ Suffix(tail, there, k)
                                       /\ k = 1 => tail = there
    <2>1. CASE Len(there) > allowance
        <3>1. Len(there) - allowance + 1 \in 1 .. Len(there) + 1 /\ Len(there) - allowance + 1 # 1
            BY <1>3, <1>4, <2>1
        <3> QED BY <1>1, <2>1, <3>1, SuffixIs DEF Latest
    <2>2. CASE ~ (Len(there) > allowance)
        <3>1. tail = there /\ Suffix(there, there, 1) /\ 1 \in 1 .. Len(there) + 1
            BY <1>3, <2>2 DEF Suffix
        <3> QED BY <1>1, <3>1
    <2> QED BY <2>1, <2>2
<1> HIDE DEF tail
<1>6. Contiguous(tail, log)
    BY <1>0, <1>1, <1>2, <1>5, ReplayShortens
<1>7. \A i \in DOMAIN tail : k + i - 1 \in 1 .. Len(there) /\ tail[i] = there[k + i - 1]
    <2> SUFFICES ASSUME NEW i \in DOMAIN tail
                 PROVE  k + i - 1 \in 1 .. Len(there) /\ tail[i] = there[k + i - 1]
        OBVIOUS
    <2>1. i \in 1 .. Len(tail) /\ Len(tail) = Len(there) - k + 1
        BY <1>5, Entries DEF Suffix
    <2>2. k + i - 1 \in 1 .. Len(there)
        BY <1>3, <2>1
    <2> QED BY <1>5, <2>1, <2>2 DEF Suffix
<1>8. CASE gap \/ tail # there
    <2>1. requested \in 1 .. Len(log)
        <3>1. CASE gap
            BY <1>0, <3>1 DEF gap
        <3>2. CASE there # << >>
            BY <1>0, <1>1, <1>3, <3>2
        <3>3. CASE there = << >> /\ tail # there
            <4>1. k = 1
                BY <1>3, <3>3
            <4> QED BY <1>5, <3>3, <4>1
        <3> QED BY <1>8, <3>1, <3>2, <3>3
    <2>2. ASSUME NEW i \in DOMAIN tail PROVE requested < tail[i].seq
        <3> DEFINE j == k + i - 1
        <3>1. j \in 1 .. Len(there) /\ tail[i] = there[j] /\ 1 \in 1 .. Len(there) /\ there # << >>
            BY <1>3, <1>7
        <3>2. \A a, b \in 1 .. Len(there) : a < b => there[a].seq < there[b].seq
            BY <1>2, <1>3 DEF Contiguous, Sound, Ordered
        <3>3. i \in Nat /\ i >= 1
            BY <1>5, Entries
        <3>4. k # 1 => 1 < j
            BY <3>3
        <3> HIDE DEF j
        <3>5. requested <= there[1].seq /\ there[1].seq \in Nat /\ there[j].seq \in Nat
            BY <1>1, <1>3, <3>1
        <3>6. j # 1 => there[1].seq < there[j].seq
            BY <1>3, <3>1, <3>2
        <3>7. CASE gap
            <4>1. there[1].seq > requested
                BY <1>3, <3>1, <3>7 DEF gap
            <4> QED BY <1>0, <3>1, <3>5, <3>6, <4>1
        <3>8. CASE k # 1
            BY <1>0, <3>1, <3>4, <3>5, <3>6, <3>8
        <3> QED BY <1>5, <1>8, <3>7, <3>8
    <2>3. h = << GapEnvelope(requested, requested) >> \o tail
        BY <1>8
    <2> QED BY <1>given, <1>0, <1>5, <1>6, <2>1, <2>2, <2>3, GapThenTail
<1>9. CASE ~ gap /\ tail = there
    <2>1. h = there
        BY <1>9
    <2>2. ASSUME NEW n \in requested .. Len(log), Reliable(log[n])
          PROVE  Has(there, n)
        <3>1. n \in 1 .. Len(log) /\ Len(log) >= requested
            BY <1>0
        <3>2. there # << >> /\ ~ (there[1].seq > requested)
            BY <1>0, <1>3, <1>9, <3>1 DEF gap
        <3>3. there[1].seq \in Nat /\ there[1].seq <= n
            BY <1>0, <1>3, <3>2
        <3> QED BY <1>2, <2>2, <3>1, <3>2, <3>3 DEF Contiguous
    <2>3. Told(there, log, requested)
        BY <2>2 DEF Told
    <2> QED BY <1>given, <1>1, <1>2, <2>1, <2>3 DEF Contiguous
<1> QED BY <1>8, <1>9

-----------------------------------------------------------------------------
(***************************************************************************)
(* The queue of a stream.                                                  *)
(***************************************************************************)
\* What is left out of the queue is left out of the history.
LEMMA JoinedWithout ==
    ASSUME NEW g \in Seq(Entry), NEW s \in Seq(Entry), NEW c \in Seq(Entry),
           NEW p \in 1 .. Len(s), Without(s, p, c)
    PROVE  /\ Len(g) + p \in 1 .. Len(g \o s) /\ (g \o s)[Len(g) + p] = s[p]
           /\ Without(g \o s, Len(g) + p, g \o c)
<1>1. /\ Len(g) \in Nat /\ Len(s) \in Nat /\ p \in Nat /\ 1 <= p /\ p <= Len(s)
      /\ Len(c) = Len(s) - 1
    BY Entries DEF Without
<1>2. /\ Len(g \o s) = Len(g) + Len(s)
      /\ \A i \in 1 .. Len(g) : (g \o s)[i] = g[i]
      /\ \A i \in 1 .. Len(s) : (g \o s)[Len(g) + i] = s[i]
    BY Joined
<1>3. /\ Len(g \o c) = Len(g) + Len(c)
      /\ \A i \in 1 .. Len(g) : (g \o c)[i] = g[i]
      /\ \A i \in 1 .. Len(c) : (g \o c)[Len(g) + i] = c[i]
    BY Joined
<1>4. Len(g) + p \in 1 .. Len(g \o s) /\ Len(g \o c) = Len(g \o s) - 1
    BY <1>1, <1>2, <1>3
<1>5. ASSUME NEW i \in 1 .. Len(g \o c)
      PROVE  (g \o c)[i] = IF i < Len(g) + p THEN (g \o s)[i] ELSE (g \o s)[i + 1]
    <2>1. CASE i \in 1 .. Len(g)
        <3>1. i < Len(g) + p
            BY <1>1, <2>1
        <3> QED BY <1>2, <1>3, <2>1, <3>1
    <2>2. CASE i \notin 1 .. Len(g)
        <3> DEFINE j == i - Len(g)
        <3>0. i \in Nat /\ 1 <= i /\ i <= Len(g) + Len(c)
            BY <1>1, <1>3
        <3>1. j \in 1 .. Len(c) /\ Len(g) + j = i /\ j \in 1 .. Len(s) /\ j + 1 \in 1 .. Len(s)
              /\ Len(g) + (j + 1) = i + 1 /\ (i < Len(g) + p <=> j < p)
            BY <1>1, <2>2, <3>0
        <3> HIDE DEF j
        <3>2. (g \o c)[i] = c[j] /\ (g \o s)[i] = s[j] /\ (g \o s)[i + 1] = s[j + 1]
            BY <1>2, <1>3, <3>1
        <3>3. c[j] = IF j < p THEN s[j] ELSE s[j + 1]
            BY <3>1 DEF Without
        <3> QED BY <3>1, <3>2, <3>3
    <2> QED BY <2>1, <2>2
<1> QED BY <1>2, <1>4, <1>5 DEF Without

\* The Gap of an overrun begins with the first event in the lost queue.
LEMMA FirstMissedIs ==
    ASSUME HubTypes, NEW x \in Subscribers, NEW seq \in Nat \ { 0 },
           \A i \in DOMAIN items[x] : items[x][i].first \in Nat \ { 0 }
    PROVE  /\ FirstMissed(x, seq) \in Nat \ { 0 } /\ FirstMissed(x, seq) <= seq
           /\ \A i \in DOMAIN items[x] : FirstMissed(x, seq) <= items[x][i].first
<1> DEFINE missed == { seq } \cup { items[x][i].first : i \in DOMAIN items[x] }
<1>1. missed \in SUBSET (Nat \ { 0 }) /\ missed \in SUBSET Nat /\ seq \in missed
    OBVIOUS
<1>2. \A i \in DOMAIN items[x] : items[x][i].first \in missed
    OBVIOUS
<1>3. FirstMissed(x, seq) = CHOOSE n \in missed : \A m \in missed : n <= m
    BY DEF FirstMissed
<1> HIDE DEF missed
<1>4. \E n \in missed : \A m \in missed : n <= m
    BY <1>1, Least
<1>5. FirstMissed(x, seq) \in missed /\ \A m \in missed : FirstMissed(x, seq) <= m
    BY <1>3, <1>4
<1> QED BY <1>1, <1>2, <1>5

\* EventStream._offer keeps the history of an open stream sound and complete.
LEMMA OfferedIs ==
    ASSUME HubTypes, NEW x \in Subscribers, Sound(History(x), log), NEW body \in Body,
           NEW m \in Nat \ { 0 }
    PROVE  LET new == Offered(x, Envelope(_seq + 1, body))
               h == got[x] \o new
           IN  /\ new \in Seq(Entry) /\ h \in Seq(Entry) /\ Sound(h, Append(log, body))
               /\ Told(History(x), log, m) => Told(h, Append(log, body), m)
               /\ Reliable(body) /\ Overruns(x) => h # << >> /\ h[Len(h)].body = Gap
<1> DEFINE e == Envelope(Len(log) + 1, body)
           g == got[x]
           s == items[x]
           lh == Append(log, body)
           new == Offered(x, e)
<1>0. /\ log \in Seq(Body) /\ Len(log) \in Nat /\ _seq = Len(log)
      /\ g \in Seq(Entry) /\ s \in Seq(Entry) /\ History(x) = g \o s /\ g \o s \in Seq(Entry)
      /\ Sound(g \o s, log)
    BY LenProperties, Joined DEF HubTypes, _seq, History
<1>1. e \in Entry /\ e.seq = Len(log) + 1 /\ e.body = body
    BY <1>0, NotGap DEF Envelope, Entry
<1>2. e = Envelope(Len(log) + 1, body)
    OBVIOUS
<1> HIDE DEF e
<1>3. CASE Reliable(body) /\ Overruns(x)
    <2> DEFINE f == FirstMissed(x, Len(log) + 1)
               d == GapEnvelope(Len(log) + 1, f)
    <2>1. new = << d >>
        BY <1>1, <1>3 DEF Offered
    <2>2. s # << >>
        BY <1>0, <1>3, HubAssumption, EmptySeq DEF Overruns
    <2>3. \A i \in DOMAIN s : s[i].first \in Nat \ { 0 }
        <3> SUFFICES ASSUME NEW i \in DOMAIN s PROVE s[i].first \in Nat \ { 0 }
            OBVIOUS
        <3>2. Len(g) + i \in DOMAIN (g \o s) /\ (g \o s)[Len(g) + i] = s[i]
            BY <1>0, JoinedElement
        <3>3. /\ s[i].seq \in 1 .. Len(log) /\ s[i].first \in 1 .. s[i].seq
            BY <1>0, <3>2 DEF Sound, Truthful
        <3> QED BY <3>3
    <2>4. f \in Nat \ { 0 } /\ f <= Len(log) + 1 /\ NotAfter(f, s)
        BY <1>0, <2>3, FirstMissedIs DEF NotAfter
    <2>5. d = GapEnvelope(Len(log) + 1, f)
        OBVIOUS
    <2> HIDE DEF f, d, s, g
    <2>6. /\ << d >> \in Seq(Entry) /\ Sound(g \o << d >>, lh)
          /\ g \o << d >> # << >> /\ (g \o << d >>)[Len(g \o << d >>)].body = Gap
          /\ Told(g \o s, log, m) => Told(g \o << d >>, lh, m)
        BY <1>0, <2>2, <2>4, <2>5, Ejects
    <2>7. g \o << d >> \in Seq(Entry)
        BY <1>0, <2>6, Joined
    <2> HIDE DEF new, lh
    <2>8. /\ new \in Seq(Entry) /\ g \o new \in Seq(Entry) /\ Sound(g \o new, lh)
          /\ Told(History(x), log, m) => Told(g \o new, lh, m)
          /\ g \o new # << >> /\ (g \o new)[Len(g \o new)].body = Gap
        BY <1>0, <2>1, <2>6, <2>7
    <2> QED BY <1>0, <1>2, <2>8 DEF new, g, lh
<1>4. CASE ~ (Reliable(body) /\ Overruns(x))
    <2> DEFINE c == IF Reliable(body) THEN s ELSE Coalesced(s)
    <2>1. /\ c \in Seq(Entry) /\ g \o c \in Seq(Entry) /\ Sound(g \o c, log)
          /\ Told(g \o s, log, m) => Told(g \o c, log, m)
        <3>1. CASE c = s
            BY <1>0, <3>1
        <3>2. CASE c # s
            <4>1. /\ c = Coalesced(s) /\ c \in Seq(Entry)
                  /\ \E p \in 1 .. Len(s) : s[p].body = Progress /\ Without(s, p, c)
                BY <1>0, <3>2, CoalescedIs
            <4>2. PICK p \in 1 .. Len(s) : s[p].body = Progress /\ Without(s, p, c)
                BY <4>1
            <4> HIDE DEF c, s, g
            <4>3. g \o c \in Seq(Entry)
                BY <1>0, <4>1, Joined
            <4>4. /\ Len(g) + p \in 1 .. Len(g \o s) /\ (g \o s)[Len(g) + p].body = Progress
                  /\ Without(g \o s, Len(g) + p, g \o c)
                BY <1>0, <4>1, <4>2, JoinedWithout
            <4> QED BY <1>0, <4>1, <4>3, <4>4, Drops
        <3> QED BY <3>1, <3>2
    <2>2. new = Append(c, e) \/ (new = c /\ body = Progress)
        BY <1>1, <1>4 DEF Offered, Reliable
    <2> HIDE DEF c, g, s, new
    <2>3. CASE new = Append(c, e)
        <3>1. g \o new = Append(g \o c, e) /\ new \in Seq(Entry)
            BY <1>0, <1>1, <2>1, <2>3, JoinedAppend, AppendProperties
        <3>2. /\ Append(g \o c, e) \in Seq(Entry) /\ Sound(Append(g \o c, e), lh)
              /\ Told(g \o c, log, m) => Told(Append(g \o c, e), lh, m)
            BY <1>0, <1>2, <2>1, Extends
        <3>3. /\ new \in Seq(Entry) /\ g \o new \in Seq(Entry) /\ Sound(g \o new, lh)
              /\ Told(History(x), log, m) => Told(g \o new, lh, m)
            BY <1>0, <2>1, <3>1, <3>2
        <3> QED BY <1>0, <1>2, <1>4, <3>3 DEF new, g
    <2>4. CASE new = c /\ body = Progress
        <3>1. Sound(g \o c, lh) /\ (Told(g \o c, log, m) => Told(g \o c, lh, m))
            BY <1>0, <2>1, <2>4, Stays
        <3>3. /\ new \in Seq(Entry) /\ g \o new \in Seq(Entry) /\ Sound(g \o new, lh)
              /\ Told(History(x), log, m) => Told(g \o new, lh, m)
            BY <1>0, <2>1, <2>4, <3>1
        <3> QED BY <1>0, <1>2, <1>4, <3>3 DEF new, g
    <2> QED BY <2>2, <2>3, <2>4
<1> QED BY <1>3, <1>4

-----------------------------------------------------------------------------
(***************************************************************************)
(* The steps of the hub.                                                   *)
(***************************************************************************)
\* A history is a sequence of entries.
LEMMA HistoryType ==
    ASSUME HubTypes, NEW x \in Subscribers
    PROVE  History(x) \in Seq(Entry) /\ got[x] \in Seq(Entry) /\ items[x] \in Seq(Entry)
    BY Joined DEF HubTypes, History

\* emit.
LEMMA EmitKeeps ==
    ASSUME HubInv, NEW body \in Body, emit(body)
    PROVE  HubInv'
<1> DEFINE e == Envelope(_seq + 1, body)
           open == attached \ shutOff
           gone == IF Reliable(body) THEN { x \in open : Overruns(x) } ELSE {}
<1> USE DEF HubInv
<1>1. /\ log' = Append(log, body)
      /\ hubState' = IF body \in SessionState THEN body ELSE hubState
      /\ replay' = Replayed(e)
      /\ items' = [x \in Subscribers |-> IF x \in open THEN Offered(x, e) ELSE items[x]]
      /\ ejected' = ejected \cup gone
      /\ shutOff' = shutOff \cup gone
      /\ attached' = attached \ gone
      /\ seen' = [x \in Subscribers |->
                    IF x \in open \ gone /\ body \in SessionState THEN body ELSE seen[x]]
      /\ UNCHANGED << opened, from, got >>
    BY DEF emit
<1>2. /\ log' \in Seq(Body) /\ log \in Seq(Body)
      /\ open \subseteq opened /\ gone \subseteq open /\ opened \subseteq Subscribers
    BY <1>1, Longer DEF HubTypes
<1>3. replay' \in Seq(Entry) /\ Len(replay') <= ReplayCapacity /\ ReplayInv'
    BY <1>1, ReplayedIs DEF ReplayInv
<1>4. ASSUME NEW x \in Subscribers, NEW m \in Nat \ { 0 }
      PROVE  LET new == Offered(x, e)
                 h == got[x] \o new
             IN  /\ new \in Seq(Entry) /\ h \in Seq(Entry) /\ Sound(h, log')
                 /\ Told(History(x), log, m) => Told(h, log', m)
                 /\ Reliable(body) /\ Overruns(x) => h # << >> /\ h[Len(h)].body = Gap
    <2>1. Sound(History(x), log)
        BY DEF StreamInv
    <2> QED BY <1>1, <2>1, OfferedIs
<1> HIDE DEF e, open, gone
<1>5. HubTypes'
    <2>1. \A x \in Subscribers : Offered(x, e) \in Seq(Entry)
        <3>1. 1 \in Nat \ { 0 }
            OBVIOUS
        <3> QED BY <1>4, <3>1
    <2>2. items' \in [Subscribers -> Seq(Entry)]
        BY <1>1, <2>1 DEF HubTypes
    <2>3. /\ attached' \subseteq opened' /\ opened' \subseteq Subscribers
          /\ ejected' \subseteq shutOff' /\ hubState' \in SessionState
          /\ seen' \in [Subscribers -> SessionState]
          /\ got' \in [Subscribers -> Seq(Entry)] /\ from' \in [Subscribers -> Nat \ { 0 }]
        BY <1>1, <1>2 DEF HubTypes
    <2> QED BY <1>2, <1>3, <2>2, <2>3 DEF HubTypes
<1>6. ASSUME NEW x \in Subscribers PROVE StreamInv(x)'
    <2>0. StreamInv(x) /\ from[x] \in Nat \ { 0 }
        BY DEF HubTypes
    <2>1. History(x)' = got[x] \o items'[x]
        BY <1>1 DEF History
    <2>2. CASE x \in open
        <3> DEFINE h == got[x] \o Offered(x, e)
        <3>1. items'[x] = Offered(x, e) /\ History(x)' = h
            BY <1>1, <2>1, <2>2
        <3>2. /\ Sound(h, log')
              /\ Told(History(x), log, from[x]) => Told(h, log', from[x])
              /\ x \in gone => h # << >> /\ h[Len(h)].body = Gap
            BY <1>4, <2>0 DEF gone
        <3> HIDE DEF h
        <3>3. x \in opened /\ x \in attached /\ x \notin shutOff /\ x \notin ejected
            BY <1>2, <2>2 DEF open, HubTypes
        <3>4. Told(h, log', from[x])
            BY <2>0, <3>2, <3>3 DEF StreamInv
        <3> QED BY <1>1, <3>1, <3>2, <3>3, <3>4 DEF StreamInv
    <2>3. CASE x \notin open
        <3>1. items'[x] = items[x] /\ History(x)' = History(x) /\ x \notin gone
            BY <1>1, <1>2, <2>1, <2>3 DEF History
        <3>2. History(x) \in Seq(Entry)
            BY HistoryType
        <3>3. /\ Sound(History(x), log')
              /\ History(x) # << >> /\ History(x)[Len(History(x))].body = Gap
                    /\ Told(History(x), log, from[x])
                 => Told(History(x), log', from[x])
            BY <1>1, <1>2, <2>0, <3>2, Stays DEF StreamInv
        <3>4. x \in opened \ (shutOff' \ ejected') => x \in ejected
            BY <1>1, <2>0, <2>3, <3>1 DEF StreamInv, open
        <3>5. x \in opened \ (shutOff' \ ejected') => Told(History(x), log', from[x])
            BY <1>1, <2>0, <3>1, <3>3, <3>4 DEF StreamInv
        <3> QED BY <1>1, <2>0, <2>3, <3>1, <3>3, <3>5 DEF StreamInv, open
    <2> QED BY <2>2, <2>3
<1> QED BY <1>3, <1>5, <1>6

\* subscribe.
LEMMA SubscribeKeeps ==
    ASSUME HubInv, NEW y \in Subscribers, NEW requested \in 1 .. _seq + 1, subscribe(y, requested)
    PROVE  HubInv'
<1> USE DEF HubInv
<1> DEFINE q == Initial(requested)
<1>1. /\ y \notin opened
      /\ opened' = opened \cup { y }
      /\ attached' = attached \cup { y }
      /\ from' = [from EXCEPT ![y] = requested]
      /\ items' = [items EXCEPT ![y] = q]
      /\ seen' = [seen EXCEPT ![y] = hubState]
      /\ UNCHANGED << log, hubState, replay, shutOff, ejected, got >>
    BY DEF subscribe, Initial
<1>2. q \in Seq(Entry) /\ Sound(q, log) /\ Told(q, log, requested)
    BY InitialIs
<1> HIDE DEF q
<1>3. HubTypes'
    <2>1. requested \in Nat \ { 0 }
        BY LenProperties DEF HubTypes, _seq
    <2> QED BY <1>1, <1>2, <2>1 DEF HubTypes
<1>4. ReplayInv'
    BY <1>1 DEF ReplayInv
<1>5. ASSUME NEW x \in Subscribers PROVE StreamInv(x)'
    <2>1. CASE x = y
        <3>1. History(y)' = q
            <4>1. got'[y] = << >> /\ items'[y] = q
                BY <1>1 DEF HubTypes, StreamInv
            <4> QED BY <1>2, <4>1, ConcatEmptySeq DEF History
        <3>2. y \notin shutOff' /\ y \notin ejected' /\ y \in attached' /\ y \in opened'
            BY <1>1 DEF HubTypes, StreamInv
        <3>3. from'[y] = requested /\ log' = log
            BY <1>1 DEF HubTypes
        <3> QED BY <1>2, <2>1, <3>1, <3>2, <3>3 DEF StreamInv
    <2>2. CASE x # y
        <3>1. /\ History(x)' = History(x) /\ items'[x] = items[x] /\ from'[x] = from[x]
              /\ got'[x] = got[x]
            BY <1>1, <2>2 DEF HubTypes, History
        <3>2. StreamInv(x)
            OBVIOUS
        <3> QED BY <1>1, <2>2, <3>1, <3>2 DEF StreamInv
    <2> QED BY <2>1, <2>2
<1> QED BY <1>3, <1>4, <1>5

\* EventStream.next.
LEMMA NextKeeps ==
    ASSUME HubInv, NEW y \in Subscribers, next(y)
    PROVE  HubInv'
<1> USE DEF HubInv
<1>1. /\ items[y] # << >>
      /\ items' = [items EXCEPT ![y] = Tail(items[y])]
      /\ got' = [got EXCEPT ![y] = Append(got[y], Head(items[y]))]
      /\ UNCHANGED << log, hubState, replay, attached, opened, from, shutOff, ejected, seen >>
    BY DEF next
<1>2. /\ got[y] \in Seq(Entry) /\ items[y] \in Seq(Entry)
      /\ Head(items[y]) \in Entry /\ Tail(items[y]) \in Seq(Entry)
      /\ Append(got[y], Head(items[y])) \in Seq(Entry)
    BY <1>1, HeadTailProperties, AppendProperties DEF HubTypes
<1>3. Append(got[y], Head(items[y])) \o Tail(items[y]) = got[y] \o items[y]
    <2> DEFINE g == got[y]
               s == items[y]
    <2> HIDE DEF g, s
    <2>1. ASSUME g \in Seq(Entry), s \in Seq(Entry), s # << >>
          PROVE  Append(g, Head(s)) \o Tail(s) = g \o s
        <3>1. /\ Head(s) \in Entry /\ Tail(s) \in Seq(Entry) /\ Append(g, Head(s)) \in Seq(Entry)
              /\ Len(Tail(s)) = Len(s) - 1 /\ Len(Append(g, Head(s))) = Len(g) + 1
              /\ Head(s) = s[1]
              /\ \A i \in 1 .. Len(s) - 1 : Tail(s)[i] = s[i + 1]
              /\ \A i \in 1 .. Len(g) : Append(g, Head(s))[i] = g[i]
              /\ Append(g, Head(s))[Len(g) + 1] = s[1]
            BY <2>1, HeadTailProperties, AppendProperties
        <3>2. Len(g) \in Nat /\ Len(s) \in Nat /\ Len(s) # 0
            BY <2>1, Entries
        <3> DEFINE l == Append(g, Head(s)) \o Tail(s)
                   r == g \o s
        <3>3. /\ l \in Seq(Entry) /\ Len(l) = (Len(g) + 1) + (Len(s) - 1)
              /\ \A i \in 1 .. (Len(g) + 1) + (Len(s) - 1) : l[i] =
                    IF i <= Len(g) + 1 THEN Append(g, Head(s))[i] ELSE Tail(s)[i - (Len(g) + 1)]
            BY <3>1, ConcatProperties
        <3>4. /\ r \in Seq(Entry) /\ Len(r) = Len(g) + Len(s)
              /\ \A i \in 1 .. Len(g) + Len(s) : r[i] = IF i <= Len(g) THEN g[i] ELSE s[i - Len(g)]
            BY <2>1, ConcatProperties
        <3> HIDE DEF l, r
        <3>5. Len(l) = Len(r)
            BY <3>2, <3>3, <3>4
        <3>6. ASSUME NEW i \in 1 .. Len(l) PROVE l[i] = r[i]
            <4>1. i \in Nat /\ 1 <= i /\ i <= Len(g) + Len(s)
                BY <3>2, <3>4, <3>5
            <4>2. CASE i <= Len(g)
                <5>1. i \in 1 .. Len(g) /\ i <= Len(g) + 1
                    BY <3>2, <4>1, <4>2
                <5> QED BY <3>1, <3>3, <3>4, <3>5, <4>2, <5>1
            <4>3. CASE i = Len(g) + 1
                <5>1. ~ (i <= Len(g)) /\ i <= Len(g) + 1 /\ i - Len(g) = 1
                    BY <3>2, <4>1, <4>3
                <5> QED BY <3>1, <3>3, <3>4, <3>5, <4>3, <5>1
            <4>4. CASE i > Len(g) + 1
                <5>1. /\ ~ (i <= Len(g)) /\ ~ (i <= Len(g) + 1)
                      /\ i - (Len(g) + 1) \in 1 .. Len(s) - 1
                      /\ i - (Len(g) + 1) + 1 = i - Len(g)
                    BY <3>2, <4>1, <4>4
                <5> QED BY <3>1, <3>3, <3>4, <3>5, <5>1
            <4> QED BY <3>2, <4>1, <4>2, <4>3, <4>4
        <3>7. l = r
            BY <3>3, <3>4, <3>5, <3>6, SeqEqual
        <3> QED BY <3>7 DEF l, r
    <2> QED BY <1>1, <1>2, <2>1 DEF g, s
<1>4. HubTypes'
    BY <1>1, <1>2 DEF HubTypes
<1>5. ReplayInv'
    BY <1>1 DEF ReplayInv
<1>6. ASSUME NEW x \in Subscribers PROVE StreamInv(x)'
    <2>1. History(x)' = History(x)
        BY <1>1, <1>2, <1>3 DEF HubTypes, History
    <2>2. x \notin opened => x # y
        BY <1>1 DEF StreamInv
    <2>3. x # y => items'[x] = items[x] /\ got'[x] = got[x]
        BY <1>1 DEF HubTypes
    <2>4. StreamInv(x)
        OBVIOUS
    <2> QED BY <1>1, <2>1, <2>2, <2>3, <2>4 DEF StreamInv
<1> QED BY <1>4, <1>5, <1>6

\* A consumer or the end of the session closes streams.
LEMMA HangUpKeeps ==
    ASSUME HubInv, CloseStreams \/ \E y \in Subscribers : hangUp(y)
    PROVE  HubInv'
<1> USE DEF HubInv
<1>1. /\ UNCHANGED << log, hubState, replay, opened, from, items, ejected, seen, got >>
      /\ shutOff \subseteq shutOff' /\ shutOff' \subseteq opened \cup shutOff
      /\ attached' \subseteq attached /\ attached \subseteq attached' \cup shutOff'
    BY DEF CloseStreams, hangUp, HubTypes
<1>2. HubTypes' /\ ReplayInv'
    BY <1>1 DEF HubTypes, ReplayInv
<1>3. ASSUME NEW x \in Subscribers PROVE StreamInv(x)'
    <2>1. History(x)' = History(x) /\ StreamInv(x)
        BY <1>1 DEF History
    <2> QED BY <1>1, <2>1 DEF StreamInv
<1> QED BY <1>2, <1>3

\* What the hub does not touch.
LEMMA HubStill ==
    ASSUME HubInv, UNCHANGED hubVars
    PROVE  HubInv'
<1>1. UNCHANGED << log, hubState, replay, attached, opened, from, items, shutOff, ejected, seen,
                   got >>
    BY DEF hubVars, streamVars
<1> QED BY <1>1 DEF HubInv, HubTypes, ReplayInv, StreamInv, History

LEMMA HubKeeps ==
    ASSUME TypeOK, HubInv, [Next]_vars
    PROVE  HubInv'
<1>1. CASE UNCHANGED vars
    BY <1>1, HubStill DEF vars
<1>2. CASE Next
    BY <1>2, HubSteps, EmitKeeps, SubscribeKeeps, NextKeeps, HangUpKeeps, HubStill
<1> QED BY <1>1, <1>2

LEMMA HubStarts == Init => HubInv
<1> SUFFICES ASSUME Init PROVE HubInv
    OBVIOUS
<1>1. << >> \in Seq(Entry) /\ << >> \in Seq(Body) /\ Len(<< >>) = 0
    BY EmptySeq
<1>2. DOMAIN << >> = {} /\ << >> \o << >> = << >>
    BY <1>1, LenProperties, ConcatEmptySeq
<1>3. HubTypes
    BY <1>1, HubAssumption DEF Init, HubInit, HubTypes, SessionState
<1>4. ReplayInv
    BY <1>1, <1>2 DEF Init, HubInit, ReplayInv, Contiguous, Sound, Ordered, Truthful
<1>5. ASSUME NEW x \in Subscribers PROVE StreamInv(x)
    <2>1. History(x) = << >> /\ opened = {} /\ ejected = {} /\ shutOff = {}
          /\ items[x] = << >> /\ got[x] = << >>
        BY <1>2 DEF Init, HubInit, History
    <2> QED BY <1>2, <2>1 DEF StreamInv, Sound, Ordered, Truthful
<1> QED BY <1>3, <1>4, <1>5 DEF HubInv

-----------------------------------------------------------------------------
(***************************************************************************)
(* The theorems.                                                           *)
(***************************************************************************)
\* The part of TypeOK that the hub and the pump have no part in.
SessionTypes ==
    /\ record \in SessionState
    /\ { published, cancel } \subseteq BOOLEAN
    /\ worker \in { "idle", "work", "settled", "finalizing", "done" }
    /\ voice \in [Threads -> SessionState \cup { Silent }]
    /\ listed \in BOOLEAN
    /\ asked \subseteq Subscribers

EventsInv == SessionTypes /\ HubInv /\ PumpInv

LEMMA EventsInvTypes == EventsInv => TypeOK
    BY DEF EventsInv, SessionTypes, HubInv, HubTypes, PumpInv, PumpTypes, TypeOK

\* A transition leads to a state.
LEMMA TransitionTypes ==
    ASSUME SessionTypes, NEW t \in Threads, NEW state \in SessionState, Transition(t, state)
    PROVE  record' \in SessionState /\ voice' \in [Threads -> SessionState \cup { Silent }]
    BY DEF SessionTypes, Transition

LEMMA SessionKeeps ==
    ASSUME SessionTypes, [Next]_vars
    PROVE  SessionTypes'
<1>1. CASE UNCHANGED vars
    BY <1>1 DEF vars, sessionVars, SessionTypes
<1>2. ASSUME NEW t \in Threads, Announce(t) PROVE SessionTypes'
    BY <1>2 DEF Announce, SessionTypes
<1>3. ASSUME NEW c \in Callers, Control(c) PROVE SessionTypes'
    <2>1. CASE record = "pausing" /\ cancel' = TRUE /\ UNCHANGED << record, voice, controls >>
        BY <1>3, <2>1 DEF Control, SessionTypes
    <2>2. CASE \E state \in { "pausing", "pending", "canceling" } :
                  ControlAccepted(state) /\ Transition(c, state)
        <3>1. PICK state \in { "pausing", "pending", "canceling" } :
                 ControlAccepted(state) /\ Transition(c, state)
            BY <2>2
        <3>2. c \in Threads /\ state \in SessionState
            BY DEF Threads, SessionState
        <3>3. record' \in SessionState /\ voice' \in [Threads -> SessionState \cup { Silent }]
            BY <3>1, <3>2, TransitionTypes
        <3>4. cancel' \in BOOLEAN
            BY <3>1 DEF ControlAccepted, SessionTypes
        <3> QED BY <1>3, <3>3, <3>4 DEF Control, SessionTypes
    <2> QED BY <1>3, <2>1, <2>2 DEF Control
<1>4. CASE Begin
    <2>1. Transition("worker", "running") \/ UNCHANGED << record, voice >>
        BY <1>4 DEF Begin
    <2>2. "worker" \in Threads /\ "running" \in SessionState
        BY DEF Threads, SessionState
    <2>3. record' \in SessionState /\ voice' \in [Threads -> SessionState \cup { Silent }]
        BY <2>1, <2>2, TransitionTypes DEF SessionTypes
    <2> QED BY <1>4, <2>3 DEF Begin, SessionTypes
<1>5. CASE Settle
    <2>1. \/ Transition("retired", "paused")
          \/ \E state \in Outcomes : Transition("worker", state)
        BY <1>5 DEF Settle
    <2>2. /\ "worker" \in Threads /\ "retired" \in Threads /\ "paused" \in SessionState
          /\ Outcomes \subseteq SessionState
        BY EventsAssumption DEF Threads, SessionState, TERMINAL_STATES
    <2>3. record' \in SessionState /\ voice' \in [Threads -> SessionState \cup { Silent }]
        BY <2>1, <2>2, TransitionTypes
    <2> QED BY <1>5, <2>3 DEF Settle, SessionTypes
<1>8. CASE WorkerDone
    <2>1. Transition("retired", "canceling") /\ "retired" \in Threads /\ "canceling" \in SessionState
        BY <1>8 DEF WorkerDone, Threads, SessionState
    <2>2. record' \in SessionState /\ voice' \in [Threads -> SessionState \cup { Silent }]
        BY <2>1, TransitionTypes
    <2> QED BY <1>8, <2>2 DEF WorkerDone, SessionTypes
<1>6. CASE Work \/ FinalizeAudit \/ AwaitAudit \/ Publish \/ EmitTerminal \/ Unlist \/ CloseHub \/ PumpStep
    BY <1>6 DEF Work, FinalizeAudit, AwaitAudit, Publish, EmitTerminal, Unlist, CloseHub, PumpStep,
                sessionVars, SessionTypes
<1>7. ASSUME NEW x \in Subscribers, Lookup(x) \/ Subscribe(x) \/ Consume(x) PROVE SessionTypes'
    BY <1>7 DEF Lookup, Subscribe, Consume, sessionVars, SessionTypes
<1> QED BY <1>1, <1>2, <1>3, <1>4, <1>5, <1>6, <1>7, <1>8 DEF Next

\* The invariant always holds.
LEMMA EventsInvAlways == Spec => []EventsInv
<1>1. Init => EventsInv
    <2>1. Init => SessionTypes
        BY DEF Init, SessionTypes, SessionState, Silent
    <2> QED BY <2>1, HubStarts, PumpStarts DEF EventsInv
<1>2. EventsInv /\ [Next]_vars => EventsInv'
    BY EventsInvTypes, SessionKeeps, HubKeeps, PumpStepKeeps DEF EventsInv
<1> QED BY <1>1, <1>2, PTL DEF Spec

\* The variables of a session's events have their types, and the replay buffer
\* and the audit queue never hold more than their capacities: deque(maxlen) of
\* the hub and Queue(maxsize) of the pump.
THEOREM EventTypes == Spec => []TypeOK
    BY EventsInvTypes, EventsInvAlways, PTL

\* audit=OK is never a lie: when finalize returns it, the observer has taken
\* every reliable event that was offered before finalize was called, and its
\* own finalize has succeeded.
THEOREM AuditIsTrue == Spec => []AuditTruthful
<1>1. EventsInv => AuditTruthful
    BY DEF EventsInv, PumpInv, Finalizing, AuditTruthful
<1> QED BY <1>1, EventsInvAlways, PTL

\* A subscriber that is open, or that was ejected, has been given or told of
\* every reliable event from the one it asked for on, and in order: whatever
\* EventHub.emit, subscribe and EventStream._offer leave out lies in the hole
\* that a Gap announces.
THEOREM NothingLostSilently == Spec => []NoSilentLoss
<1>1. EventsInv => NoSilentLoss
    <2> SUFFICES ASSUME EventsInv, NEW x \in opened \ (shutOff \ ejected)
                 PROVE  /\ \A n \in from[x] .. _seq : Reliable(log[n]) => ~ Misses(x, n)
                        /\ \A i, j \in DOMAIN History(x) : i < j => History(x)[i].seq < History(x)[j].seq
        BY DEF NoSilentLoss
    <2>1. /\ x \in Subscribers /\ HubTypes /\ StreamInv(x) /\ _seq \in Nat /\ from[x] \in Nat
          /\ _seq = Len(log)
        BY LenProperties DEF EventsInv, HubInv, HubTypes, _seq
    <2> DEFINE h == History(x)
    <2>2. h \in Seq(Entry) /\ Sound(h, log) /\ Told(h, log, from[x])
        BY <2>1, HistoryType DEF StreamInv
    <2>3. \A n : Misses(x, n) <=>
             /\ \A i \in DOMAIN h : h[i].body = Gap \/ h[i].seq # n
             /\ \A i \in DOMAIN h :
                   h[i].body = Gap /\ h[i].first <= n => i # Len(h) /\ h[i + 1].seq <= n
        BY DEF Misses
    <2> HIDE DEF h
    <2>4. Len(h) \in Nat /\ DOMAIN h = 1 .. Len(h) /\ \A i \in DOMAIN h : h[i].seq \in Nat
        BY <2>2, Entries
    <2>5. ASSUME NEW n \in from[x] .. _seq, Reliable(log[n]), Misses(x, n)
          PROVE  FALSE
        <3>1. n \in Nat /\ ~ Has(h, n)
            BY <2>1, <2>3, <2>5 DEF Has
        <3>2. Announces(h, n)
            BY <2>1, <2>2, <2>5, <3>1 DEF Told
        <3>3. PICK i \in DOMAIN h : /\ h[i].body = Gap /\ h[i].first <= n
                                    /\ i = Len(h) \/ n < h[i + 1].seq
            BY <3>2 DEF Announces
        <3>4. i # Len(h) /\ h[i + 1].seq <= n /\ n < h[i + 1].seq
            BY <2>3, <2>5, <3>3
        <3>5. i + 1 \in DOMAIN h
            BY <2>4, <3>4
        <3> QED BY <2>4, <3>1, <3>4, <3>5
    <2>6. \A i, j \in DOMAIN h : i < j => h[i].seq < h[j].seq
        BY <2>2 DEF Sound, Ordered
    <2> QED BY <2>5, <2>6 DEF h
<1> QED BY <1>1, EventsInvAlways, PTL
=============================================================================
