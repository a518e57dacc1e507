------------------------------ MODULE EventHub ------------------------------
(***************************************************************************)
(* EventHub and EventStream of dispatcher/event_bus.py: one session's      *)
(* sequencer, its bounded replay buffer and its bounded subscriber queues. *)
(* Everything the hub does is one block under its lock; emit offers to the *)
(* audit pump inside it.                                                   *)
(***************************************************************************)
EXTENDS SessionLifecycle, AuditPump, FiniteSets

CONSTANTS
    Subscribers,            \* the streams that may be opened
    ReplayCapacity,         \* replay_capacity
    SubscriberCapacity      \* subscriber_capacity

ASSUME HubAssumption ==
    /\ ReplayCapacity \in Nat \ { 0 }
    /\ SubscriberCapacity \in Nat \ { 0 }

\* What an event is about; a StateChanged is the state it announces.
Progress == "progress"
Item     == "item"
Terminal == "terminal"
Gap      == "gap"
Body     == SessionState \cup { Progress, Item, Terminal }

VARIABLES
    log,        \* history: the bodies emitted; its length is _seq
    hubState,   \* EventHub._state
    replay,     \* _replay
    attached,   \* _subscribers
    opened,     \* the streams that exist
    from,       \* from[x]: the sequence number x asked for
    items,      \* EventStream._items
    shutOff,    \* streams with _closed
    ejected,    \* streams with _ejected
    seen,       \* EventStream.current_state
    got         \* history: the envelopes that the consumer of a stream took

streamVars == << attached, opened, from, items, shutOff, ejected, seen, got >>
hubVars == << log, hubState, replay, streamVars >>

_seq == Len(log)

Envelope(seq, body)   == [seq |-> seq, body |-> body, first |-> seq]
GapEnvelope(seq, first) == [seq |-> seq, body |-> Gap, first |-> first]

Reliable(body) == body # Progress

HubInit ==
    /\ log = << >>
    /\ hubState = "pending"
    /\ replay = << >>
    /\ attached = {}
    /\ opened = {}
    /\ from = [x \in Subscribers |-> 1]
    /\ items = [x \in Subscribers |-> << >>]
    /\ shutOff = {}
    /\ ejected = {}
    /\ seen = [x \in Subscribers |-> "pending"]
    /\ got = [x \in Subscribers |-> << >>]

-----------------------------------------------------------------------------
(***************************************************************************)
(* The buffers.                                                            *)
(***************************************************************************)

\* The latest Progress gives way to a newer one.
Coalesced(buffer) ==
    LET at == { i \in DOMAIN buffer : buffer[i].body = Progress }
        last == CHOOSE i \in at : \A j \in at : j <= i
    IN  IF at = {} THEN buffer
        ELSE SubSeq(buffer, 1, last - 1) \o SubSeq(buffer, last + 1, Len(buffer))

\* The last n entries of a buffer.
Latest(buffer, n) == SubSeq(buffer, Len(buffer) - n + 1, Len(buffer))

\* Mutant: a deque without maxlen.
ReplayedAll(envelope) ==
    Append(IF Reliable(envelope.body) THEN replay ELSE Coalesced(replay), envelope)

\* deque(maxlen=replay_capacity).append
Replayed(envelope) ==
    LET buffer == IF Reliable(envelope.body) THEN replay ELSE Coalesced(replay)
        longer == Append(buffer, envelope)
    IN  IF Len(longer) > ReplayCapacity THEN Latest(longer, ReplayCapacity) ELSE longer

\* Mutant: the gap announces only the event that did not fit.
MissedOnlyThis(x, seq) == seq

FirstMissed(x, seq) ==
    LET missed == { seq } \cup { items[x][i].first : i \in DOMAIN items[x] }
    IN  CHOOSE n \in missed : \A m \in missed : n <= m

Overruns(x) == Len(items[x]) >= SubscriberCapacity

\* EventStream._offer: what the queue of an open stream is after an offer.
Offered(x, envelope) ==
    IF Reliable(envelope.body)
    THEN IF Overruns(x) THEN << GapEnvelope(envelope.seq, FirstMissed(x, envelope.seq)) >>
                        ELSE Append(items[x], envelope)
    ELSE LET buffer == Coalesced(items[x])
         IN  IF Len(buffer) >= SubscriberCapacity THEN buffer ELSE Append(buffer, envelope)

-----------------------------------------------------------------------------
emit(body) ==
    LET envelope == Envelope(_seq + 1, body)
        open == attached \ shutOff
        gone == IF Reliable(body) THEN { x \in open : Overruns(x) } ELSE {}
    IN  /\ log' = Append(log, body)
        /\ hubState' = IF body \in SessionState THEN body ELSE hubState
        /\ replay' = Replayed(envelope)
        /\ IF Reliable(body) /\ body # Terminal THEN offer(_seq + 1) ELSE UNCHANGED pumpVars
        /\ items' = [x \in Subscribers |-> IF x \in open THEN Offered(x, envelope) ELSE items[x]]
        /\ ejected' = ejected \cup gone
        /\ shutOff' = shutOff \cup gone
        /\ attached' = attached \ gone
        /\ seen' = [x \in Subscribers |->
                      IF x \in open \ gone /\ body \in SessionState THEN body ELSE seen[x]]
        /\ UNCHANGED << opened, from, got >>

\* What the replay buffer still has of what was asked for: since it is in the
\* order of emission, the tail that begins with the first such event.
Wanted(requested) ==
    LET at == { i \in DOMAIN replay : replay[i].seq >= requested }
        first == CHOOSE i \in at : \A j \in at : i <= j
    IN  IF at = {} THEN << >> ELSE SubSeq(replay, first, Len(replay))

\* A late subscriber starts with a bounded tail of the replay buffer, after a
\* Gap when something it asked for is no longer there or does not fit.
subscribe(x, requested) ==
    LET there == Wanted(requested)
        gap == _seq >= requested /\ (there = << >> \/ Head(there).seq > requested)
        allowance == SubscriberCapacity - (IF gap THEN 1 ELSE 0)
        tail == IF Len(there) > allowance THEN Latest(there, allowance) ELSE there
    IN  /\ x \notin opened
        /\ opened' = opened \cup { x }
        /\ attached' = attached \cup { x }
        /\ from' = [from EXCEPT ![x] = requested]
        /\ items' = [items EXCEPT ![x] =
                       IF gap \/ tail # there THEN << GapEnvelope(requested, requested) >> \o tail
                                              ELSE tail]
        /\ seen' = [seen EXCEPT ![x] = hubState]
        /\ UNCHANGED << log, hubState, replay, shutOff, ejected, got, pumpVars >>

\* EventStream.next, when there is something to take.
next(x) ==
    /\ items[x] # << >>
    /\ items' = [items EXCEPT ![x] = Tail(@)]
    /\ got' = [got EXCEPT ![x] = Append(@, Head(items[x]))]
    /\ UNCHANGED << log, hubState, replay, attached, opened, from, shutOff, ejected, seen,
                    pumpVars >>

\* The consumer closes its stream; the hub keeps it in _subscribers.
hangUp(x) ==
    /\ x \in opened \ shutOff
    /\ shutOff' = shutOff \cup { x }
    /\ UNCHANGED << log, hubState, replay, attached, opened, from, items, ejected, seen, got,
                    pumpVars >>

\* hub.close: every stream that is attached ends; then the pump is closed.
CloseStreams ==
    /\ ending = "none"
    /\ ending' = "called"
    /\ attached' = {}
    /\ shutOff' = shutOff \cup attached
    /\ UNCHANGED << log, hubState, replay, opened, from, items, ejected, seen, got, queue,
                    degraded, closed, pump, command, answer, fin, audit, offered, owed, heard >>
=============================================================================
