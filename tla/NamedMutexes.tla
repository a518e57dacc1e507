---------------------------- MODULE NamedMutexes ----------------------------
(***************************************************************************)
(* WindowsNamedMutexProvider (dispatcher/custody.py): the custody of a     *)
(* session is a set of machine-wide named mutexes that its worker thread   *)
(* takes one by one in the sorted order of the resources and gives back in *)
(* the reverse order.  Threads of several processes compete; a wait, a     *)
(* creation or a release may fail and a process may die at any point.      *)
(*                                                                         *)
(* A resource is the number of its place in the sorted order.              *)
(***************************************************************************)
EXTENDS Integers

CONSTANTS
    Processes,   \* the processes that share the machine
    Threads,     \* the worker threads
    Home,        \* Home[t]: the process of thread t
    Resources,   \* the resources, numbered in their sorted order
    Want,        \* Want[t]: the resources of the session thread t runs
    NoOne        \* the owner of a free mutex

ASSUME ConstantsAssumption ==
    /\ Resources \subseteq Nat
    /\ \E top \in Resources : \A r \in Resources : r <= top
    /\ Want \in [Threads -> SUBSET Resources]
    /\ Home \in [Threads -> Processes]
    /\ NoOne \notin Threads

VARIABLES
    pc,        \* where each thread is
    handles,   \* handles[t]: the mutexes acquire has taken so far
    owner,     \* the kernel's owner of each mutex
    canceled,  \* the cancel requests the sessions have received
    refused    \* refused[t]: the mutexes whose ReleaseMutex failed

vars == <<pc, handles, owner, canceled, refused>>

Init ==
    /\ pc = [t \in Threads |-> "idle"]
    /\ handles = [t \in Threads |-> {}]
    /\ owner = [r \in Resources |-> NoOne]
    /\ canceled = [t \in Threads |-> FALSE]
    /\ refused = [t \in Threads |-> {}]

Goto(t, step) == pc' = [pc EXCEPT ![t] = step]

-----------------------------------------------------------------------------
(***************************************************************************)
(* acquire                                                                 *)
(***************************************************************************)
\* Mutant: the mutexes are taken in whatever order the set yields them.
FollowingUnsorted(t) == Want[t] \ handles[t]

\* The resources the for loop may come to next: the least one left.
Following(t) ==
    { r \in Want[t] \ handles[t] : \A q \in Want[t] \ handles[t] : r <= q }

Begin(t) ==
    /\ pc[t] = "idle"
    /\ Goto(t, "enter")
    /\ UNCHANGED <<handles, owner, canceled, refused>>

\* A caller cancels the session at any time of the attempt.
Cancel(t) ==
    /\ pc[t] \in { "enter", "check", "poll", "leased" }
    /\ canceled' = [canceled EXCEPT ![t] = TRUE]
    /\ UNCHANGED <<pc, handles, owner, refused>>

\* The head of the for loop: the cancel check, then CreateMutexW.
Enter(t) ==
    /\ pc[t] = "enter"
    /\ handles[t] # Want[t]
    /\ \/ canceled[t] /\ Goto(t, "unwind")
       \/ ~ canceled[t] /\ Goto(t, "check")
       \/ ~ canceled[t] /\ Goto(t, "unwind")     \* CreateMutexW failed
    /\ UNCHANGED <<handles, owner, canceled, refused>>

\* The head of the while loop.
Check(t) ==
    /\ pc[t] = "check"
    /\ Goto(t, IF canceled[t] THEN "unwind" ELSE "poll")
    /\ UNCHANGED <<handles, owner, canceled, refused>>

\* WaitForSingleObject succeeds on a free mutex; one whose owner died counts.
Taken(t) ==
    /\ pc[t] = "poll"
    /\ \E r \in Following(t) :
          /\ owner[r] = NoOne
          /\ owner' = [owner EXCEPT ![r] = t]
          /\ handles' = [handles EXCEPT ![t] = @ \cup {r}]
    /\ Goto(t, "enter")
    /\ UNCHANGED <<canceled, refused>>

TimesOut(t) ==
    /\ pc[t] = "poll"
    /\ \A r \in Following(t) : owner[r] # NoOne
    /\ Goto(t, "check")
    /\ UNCHANGED <<handles, owner, canceled, refused>>

WaitFails(t) ==
    /\ pc[t] = "poll"
    /\ Goto(t, "unwind")
    /\ UNCHANGED <<handles, owner, canceled, refused>>

\* Mutant: acquire returns after the first mutex.
LeasedEarly(t) ==
    /\ pc[t] = "enter"
    /\ handles[t] # {}
    /\ Goto(t, "leased")
    /\ UNCHANGED <<handles, owner, canceled, refused>>

\* The for loop is over: acquire returns the lease.
Leased(t) ==
    /\ pc[t] = "enter"
    /\ handles[t] = Want[t]
    /\ Goto(t, "leased")
    /\ UNCHANGED <<handles, owner, canceled, refused>>

-----------------------------------------------------------------------------
(***************************************************************************)
(* release and the unwinding of a failed acquire                           *)
(***************************************************************************)
\* _CallbackLease.release; only the first call gets through.
Release(t) ==
    /\ pc[t] = "leased"
    /\ Goto(t, "release")
    /\ UNCHANGED <<handles, owner, canceled, refused>>

\* The last handle taken is the first given back.
Last(t) == { r \in handles[t] : \A q \in handles[t] : q <= r }

\* Mutant: the loop of _release_handles stops at the first refused release.
ReleaseHandleStops(t) ==
    /\ pc[t] \in { "unwind", "release" }
    /\ \E r \in Last(t) :
          \/ /\ handles' = [handles EXCEPT ![t] = @ \ {r}]
             /\ owner' = [owner EXCEPT ![r] = NoOne]
             /\ UNCHANGED refused
          \/ /\ handles' = [handles EXCEPT ![t] = {}]
             /\ refused' = [refused EXCEPT ![t] = @ \cup {r}]
             /\ UNCHANGED owner
    /\ UNCHANGED <<pc, canceled>>

\* One turn of the loop of _release_handles.  A mutex whose release the
\* kernel refuses is only closed, and the loop goes on with the next one.
ReleaseHandle(t) ==
    /\ pc[t] \in { "unwind", "release" }
    /\ \E r \in Last(t) :
          /\ handles' = [handles EXCEPT ![t] = @ \ {r}]
          /\ \/ /\ owner' = [owner EXCEPT ![r] = NoOne]
                /\ UNCHANGED refused
             \/ /\ refused' = [refused EXCEPT ![t] = @ \cup {r}]
                /\ UNCHANGED owner
    /\ UNCHANGED <<pc, canceled>>

\* handles.clear() and the re-raise; the worker leaves the provider.
Released(t) ==
    /\ pc[t] \in { "unwind", "release" }
    /\ handles[t] = {}
    /\ Goto(t, "ended")
    /\ UNCHANGED <<handles, owner, canceled, refused>>

-----------------------------------------------------------------------------
(***************************************************************************)
(* The kernel: the mutexes of a thread that ends are abandoned.            *)
(***************************************************************************)
Abandoned(S) == [r \in Resources |-> IF owner[r] \in S THEN NoOne ELSE owner[r]]

\* The worker thread of a session ends; a new one runs the next session.
ThreadEnds(t) ==
    /\ pc[t] = "ended"
    /\ Goto(t, "idle")
    /\ owner' = Abandoned({t})
    /\ canceled' = [canceled EXCEPT ![t] = FALSE]
    /\ refused' = [refused EXCEPT ![t] = {}]
    /\ UNCHANGED handles

Inhabitants(p) == { t \in Threads : Home[t] = p }

Crash(p) ==
    /\ \E t \in Inhabitants(p) : pc[t] \notin { "idle", "dead" }
    /\ pc' = [t \in Threads |-> IF Home[t] = p THEN "dead" ELSE pc[t]]
    /\ owner' = Abandoned(Inhabitants(p))
    /\ handles' = [t \in Threads |-> IF Home[t] = p THEN {} ELSE handles[t]]
    /\ canceled' = [t \in Threads |-> Home[t] # p /\ canceled[t]]
    /\ refused' = [t \in Threads |-> IF Home[t] = p THEN {} ELSE refused[t]]

Restart(t) ==
    /\ pc[t] = "dead"
    /\ Goto(t, "idle")
    /\ UNCHANGED <<handles, owner, canceled, refused>>

-----------------------------------------------------------------------------
Worker(t) ==
    \/ Enter(t) \/ Check(t) \/ Taken(t) \/ TimesOut(t) \/ WaitFails(t) \/ Leased(t)
    \/ Release(t) \/ ReleaseHandle(t) \/ Released(t) \/ ThreadEnds(t)

Next ==
    \/ \E t \in Threads : Begin(t) \/ Cancel(t) \/ Worker(t) \/ Restart(t)
    \/ \E p \in Processes : Crash(p)

Spec == Init /\ [][Next]_vars

\* Threads are scheduled and a session that has its lease gives it back.
FairSpec == Spec /\ \A t \in Threads : WF_vars(Worker(t))

-----------------------------------------------------------------------------
Steps ==
    { "idle", "enter", "check", "poll", "leased", "release", "unwind", "ended", "dead" }

\* The types of the variables, and handles only of wanted mutexes.
TypeOK ==
    /\ pc \in [Threads -> Steps]
    /\ handles \in [Threads -> SUBSET Resources]
    /\ \A t \in Threads : handles[t] \subseteq Want[t]
    /\ owner \in [Resources -> Threads \cup {NoOne}]
    /\ canceled \in [Threads -> BOOLEAN]
    /\ refused \in [Threads -> SUBSET Resources]

(***************************************************************************)
(* The provider keeps the promise of Leases: a lease counts from acquire's *)
(* return to the call of release, all resources at once, however the steps *)
(* of the threads and the deaths of their processes interleave.            *)
(***************************************************************************)
Provider == INSTANCE Leases
    WITH lease <- [t \in Threads |-> IF pc[t] = "leased" THEN Want[t] ELSE {}]

KeepsPromise == Provider!Spec

(***************************************************************************)
(* acquire's except clause and _release_handles give back everything that  *)
(* can be given back: a thread that has left the provider, or has not yet  *)
(* entered it, owns no mutex but those whose release the kernel refused.   *)
(***************************************************************************)
NoStrayMutex ==
    \A r \in Resources : \A t \in Threads :
        owner[r] = t /\ pc[t] \in { "idle", "ended", "dead" } => r \in refused[t]

(***************************************************************************)
(* Because every thread takes its mutexes in the sorted order, no two      *)
(* threads wait for each other, directly or around a ring.                 *)
(***************************************************************************)
WaitsFor(t, u) ==
    /\ pc[t] \in { "check", "poll" }
    /\ \E r \in Following(t) : owner[r] = u

NoCircularWait ==
    \A S \in (SUBSET Threads) \ {{}} :
        \E t \in S : \A u \in S : ~ WaitsFor(t, u)

(***************************************************************************)
(* While a thread waits, it or some other thread is eventually served,     *)
(* gives up or dies: nobody can wait on everybody.                         *)
(***************************************************************************)
WaitersProgress ==
    \A t \in Threads :
        pc[t] = "poll" ~>
            \/ pc[t] # "poll" /\ pc[t] # "check"
            \/ \E u \in Threads : pc[u] \in { "leased", "unwind", "dead" }

=============================================================================
