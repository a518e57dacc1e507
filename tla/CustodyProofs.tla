--------------------------- MODULE CustodyProofs ----------------------------
(***************************************************************************)
(* Proofs about the named mutexes of any number of threads and processes:  *)
(* the provider keeps the promise of Leases, gives back what it took, and  *)
(* its threads never wait for each other in a ring.                        *)
(***************************************************************************)
EXTENDS NamedMutexes, WellFoundedInduction, TLAPS

(***************************************************************************)
(* The inductive invariant: the list of handles is what the thread owns,   *)
(* up to the refused releases, and it is complete once the lease is out.   *)
(***************************************************************************)
HandlesOwned == \A t \in Threads : \A r \in handles[t] : owner[r] = t

OwnedListed ==
    \A r \in Resources : \A t \in Threads :
        owner[r] = t => r \in handles[t] \cup refused[t]

AwayEmpty == \A t \in Threads : pc[t] \in { "idle", "ended", "dead" } => handles[t] = {}

LeaseWhole == \A t \in Threads : pc[t] = "leased" => handles[t] = Want[t]

RefusedLate ==
    \A t \in Threads : pc[t] \in { "enter", "check", "poll", "leased" } => refused[t] = {}

Ascending ==
    \A t \in Threads : pc[t] \in { "enter", "check", "poll" } =>
        \A r \in handles[t] : \A q \in Want[t] \ handles[t] : r < q

\* A thread that is not in acquire has refused releases only after a release.
FreshClean == \A t \in Threads : pc[t] \in { "idle", "dead" } => refused[t] = {}

IInv ==
    /\ TypeOK
    /\ HandlesOwned /\ OwnedListed /\ AwayEmpty /\ LeaseWhole
    /\ RefusedLate /\ FreshClean /\ Ascending

-----------------------------------------------------------------------------
\* Every initial state satisfies the invariant.
LEMMA InitIInv == Init => IInv
BY ConstantsAssumption
   DEF Init, IInv, TypeOK, Steps, HandlesOwned, OwnedListed, AwayEmpty, LeaseWhole, RefusedLate,
       FreshClean, Ascending

\* A step that only moves one thread along.
LEMMA MoveKeeps ==
    ASSUME IInv, NEW t \in Threads, NEW step \in Steps, Goto(t, step),
           UNCHANGED <<handles, owner, refused>>,
           canceled' \in [Threads -> BOOLEAN],
           step \in { "idle", "ended", "dead" } => handles[t] = {},
           step = "leased" => handles[t] = Want[t],
           step \in { "enter", "check", "poll", "leased", "idle", "dead" } => refused[t] = {},
           step \in { "enter", "check", "poll" } =>
               \A r \in handles[t] : \A q \in Want[t] \ handles[t] : r < q
    PROVE  IInv'
<1>1. TypeOK'
    BY DEF IInv, TypeOK, Goto
<1>2. HandlesOwned' /\ OwnedListed'
    BY DEF IInv, HandlesOwned, OwnedListed
<1>3. AwayEmpty' /\ LeaseWhole'
    BY DEF IInv, TypeOK, Goto, AwayEmpty, LeaseWhole
<1>4. RefusedLate' /\ FreshClean'
    BY DEF IInv, TypeOK, Goto, RefusedLate, FreshClean
<1>5. Ascending'
    BY DEF IInv, TypeOK, Goto, Ascending
<1>6. QED
    BY <1>1, <1>2, <1>3, <1>4, <1>5 DEF IInv

\* A successful wait takes the least mutex that is left.
LEMMA TakenKeeps ==
    ASSUME IInv, NEW t \in Threads, Taken(t)
    PROVE  IInv'
<1>1. PICK r \in Following(t) :
          /\ owner[r] = NoOne
          /\ owner' = [owner EXCEPT ![r] = t]
          /\ handles' = [handles EXCEPT ![t] = @ \cup {r}]
    BY DEF Taken
<1>2. r \in Want[t] /\ r \notin handles[t] /\ r \in Resources /\ r \in Nat
    BY <1>1, ConstantsAssumption DEF Following
<1>3. TypeOK'
    BY <1>1, <1>2, ConstantsAssumption DEF IInv, TypeOK, Taken, Goto, Steps
<1>4. HandlesOwned'
    <2>1. ASSUME NEW u \in Threads, NEW q \in handles'[u] PROVE owner'[q] = u
        <3>1. CASE q = r
            BY <3>1, <1>1, <1>2, ConstantsAssumption DEF IInv, TypeOK, HandlesOwned
        <3>2. CASE q # r
            BY <3>2, <2>1, <1>1, <1>2 DEF IInv, TypeOK, HandlesOwned
        <3>3. QED
            BY <3>1, <3>2
    <2>2. QED
        BY <2>1 DEF HandlesOwned
<1>5. OwnedListed'
    BY <1>1, <1>2, ConstantsAssumption DEF IInv, TypeOK, OwnedListed, Taken
<1>6. AwayEmpty' /\ LeaseWhole' /\ RefusedLate' /\ FreshClean'
    BY <1>1 DEF IInv, TypeOK, Taken, Goto, AwayEmpty, LeaseWhole, RefusedLate, FreshClean
<1>7. Ascending'
    <2>1. ASSUME NEW q \in handles'[t], NEW w \in Want[t] \ handles'[t] PROVE q < w
        <3>1. r <= w /\ w # r /\ w \in Want[t] \ handles[t] /\ w \in Nat
            BY <2>1, <1>1, <1>2, ConstantsAssumption DEF IInv, TypeOK, Following
        <3>2. CASE q = r
            BY <3>1, <3>2, <1>2
        <3>3. CASE q \in handles[t]
            BY <3>1, <3>3 DEF IInv, Ascending, Taken
        <3>4. QED
            BY <2>1, <3>2, <3>3, <1>1 DEF IInv, TypeOK
    <2>2. QED
        BY <2>1, <1>1 DEF IInv, TypeOK, Ascending, Taken, Goto
<1>8. QED
    BY <1>3, <1>4, <1>5, <1>6, <1>7 DEF IInv

\* One turn of the release loop, refused or not.
LEMMA ReleaseHandleKeeps ==
    ASSUME IInv, NEW t \in Threads, ReleaseHandle(t)
    PROVE  IInv'
<1>1. PICK r \in Last(t) :
          /\ handles' = [handles EXCEPT ![t] = @ \ {r}]
          /\ \/ owner' = [owner EXCEPT ![r] = NoOne] /\ refused' = refused
             \/ refused' = [refused EXCEPT ![t] = @ \cup {r}] /\ owner' = owner
    BY DEF ReleaseHandle
<1>2. r \in handles[t] /\ r \in Resources /\ owner[r] = t /\ pc' = pc
      /\ pc[t] \in { "unwind", "release" } /\ canceled' = canceled
    BY <1>1 DEF IInv, TypeOK, Last, HandlesOwned, ReleaseHandle
<1>3. TypeOK'
    BY <1>1, <1>2 DEF IInv, TypeOK
<1>4. HandlesOwned'
    BY <1>1, <1>2 DEF IInv, TypeOK, HandlesOwned
<1>5. OwnedListed'
    BY <1>1, <1>2, ConstantsAssumption DEF IInv, TypeOK, OwnedListed
<1>6. AwayEmpty' /\ LeaseWhole' /\ RefusedLate' /\ FreshClean' /\ Ascending'
    BY <1>1, <1>2 DEF IInv, TypeOK, AwayEmpty, LeaseWhole, RefusedLate, FreshClean, Ascending
<1>7. QED
    BY <1>3, <1>4, <1>5, <1>6 DEF IInv

\* The kernel frees what an ending thread still owned.
LEMMA ThreadEndsKeeps ==
    ASSUME IInv, NEW t \in Threads, ThreadEnds(t)
    PROVE  IInv'
<1>1. handles[t] = {} /\ handles' = handles
    BY DEF IInv, ThreadEnds, AwayEmpty
<1>2. TypeOK'
    BY <1>1 DEF IInv, TypeOK, ThreadEnds, Goto, Steps, Abandoned
<1>3. HandlesOwned'
    BY <1>1, <1>2 DEF IInv, TypeOK, HandlesOwned, ThreadEnds, Abandoned
<1>4. OwnedListed'
    BY <1>1, ConstantsAssumption DEF IInv, TypeOK, OwnedListed, ThreadEnds, Abandoned
<1>5. AwayEmpty' /\ LeaseWhole' /\ RefusedLate' /\ FreshClean' /\ Ascending'
    BY <1>1 DEF IInv, TypeOK, ThreadEnds, Goto, AwayEmpty, LeaseWhole, RefusedLate, FreshClean,
                Ascending
<1>6. QED
    BY <1>2, <1>3, <1>4, <1>5 DEF IInv

\* The death of a process frees the mutexes of all its threads.
LEMMA CrashKeeps ==
    ASSUME IInv, NEW p \in Processes, Crash(p)
    PROVE  IInv'
<1>1. TypeOK'
    BY DEF IInv, TypeOK, Crash, Abandoned, Steps
<1>2. HandlesOwned'
    BY DEF IInv, TypeOK, HandlesOwned, Crash, Abandoned, Inhabitants
<1>3. OwnedListed'
    BY ConstantsAssumption DEF IInv, TypeOK, OwnedListed, Crash, Abandoned, Inhabitants
<1>4. AwayEmpty' /\ LeaseWhole' /\ RefusedLate' /\ FreshClean' /\ Ascending'
    BY DEF IInv, TypeOK, Crash, AwayEmpty, LeaseWhole, RefusedLate, FreshClean, Ascending
<1>5. QED
    BY <1>1, <1>2, <1>3, <1>4 DEF IInv

\* Every step preserves the invariant.
LEMMA NextIInv == IInv /\ [Next]_vars => IInv'
<1> SUFFICES ASSUME IInv, [Next]_vars PROVE IInv'
    OBVIOUS
<1>1. CASE UNCHANGED vars
    BY <1>1 DEF vars, IInv, TypeOK, HandlesOwned, OwnedListed, AwayEmpty, LeaseWhole, RefusedLate,
                FreshClean, Ascending
<1>2. ASSUME NEW t \in Threads, Begin(t) \/ Restart(t) PROVE IInv'
    BY <1>2, MoveKeeps
       DEF Begin, Restart, IInv, TypeOK, Steps, AwayEmpty, FreshClean
<1>3. ASSUME NEW t \in Threads, Cancel(t) PROVE IInv'
    BY <1>3 DEF Cancel, IInv, TypeOK, HandlesOwned, OwnedListed, AwayEmpty, LeaseWhole,
                RefusedLate, FreshClean, Ascending
<1>4. ASSUME NEW t \in Threads, Enter(t) \/ Check(t) \/ TimesOut(t) \/ WaitFails(t) PROVE IInv'
    <2>1. PICK step \in { "check", "poll", "unwind" } : Goto(t, step)
        BY <1>4 DEF Enter, Check, TimesOut, WaitFails
    <2>2. UNCHANGED <<handles, owner, refused, canceled>> /\ pc[t] \in { "enter", "check", "poll" }
        BY <1>4 DEF Enter, Check, TimesOut, WaitFails
    <2>3. QED
        BY <2>1, <2>2, MoveKeeps DEF IInv, TypeOK, Steps, RefusedLate, Ascending
<1>5. ASSUME NEW t \in Threads, Leased(t) \/ Release(t) \/ Released(t) PROVE IInv'
    BY <1>5, MoveKeeps DEF Leased, Release, Released, IInv, TypeOK, Steps, RefusedLate
<1>6. QED
    BY <1>1, <1>2, <1>3, <1>4, <1>5, TakenKeeps, ReleaseHandleKeeps, ThreadEndsKeeps, CrashKeeps
       DEF Next, Worker

-----------------------------------------------------------------------------
\* custody.py, acquire and _release_handles: the state stays well formed and
\* a session never holds a mutex it did not ask for.
THEOREM MutexTypeCorrect == Spec => []TypeOK
<1>1. IInv => TypeOK
    BY DEF IInv
<1>2. QED
    BY <1>1, InitIInv, NextIInv, PTL DEF Spec

\* custody.py, the except clause of acquire and _release_handles: a thread
\* outside the provider owns only mutexes whose release was refused.
THEOREM NothingStray == Spec => []NoStrayMutex
<1>1. IInv => NoStrayMutex
    BY DEF IInv, NoStrayMutex, OwnedListed, AwayEmpty
<1>2. QED
    BY <1>1, InitIInv, NextIInv, PTL DEF Spec

\* Two leases never share a resource.
LEMMA LeasesDisjoint ==
    ASSUME IInv, NEW t \in Threads, NEW u \in Threads, t # u,
           handles[t] = Want[t], handles[u] = Want[u]
    PROVE  Want[t] \cap Want[u] = {}
BY DEF IInv, HandlesOwned

\* custody.py, WindowsNamedMutexProvider: taking the mutexes one by one
\* implements the all-or-nothing leases that the dispatcher relies on.
THEOREM PromiseKept == Spec => KeepsPromise
<1> DEFINE leased == [t \in Threads |-> IF pc[t] = "leased" THEN Want[t] ELSE {}]
<1>1. Init => Provider!Init
    BY DEF Init, Provider!Init
<1>2. IInv /\ [Next]_vars => [Provider!Next]_leased
    <2> SUFFICES ASSUME IInv, [Next]_vars PROVE Provider!Next \/ leased' = leased
        OBVIOUS
    <2>1. ASSUME pc' = pc PROVE leased' = leased
        BY <2>1
    <2>2. ASSUME NEW t \in Threads, NEW step, Goto(t, step), step # "leased", pc[t] # "leased"
          PROVE  leased' = leased
        BY <2>2 DEF IInv, TypeOK, Goto
    <2>3. ASSUME NEW t \in Threads, Leased(t) PROVE Provider!Next
        <3>1. leased' = [leased EXCEPT ![t] = Want[t]]
            BY <2>3 DEF Leased, Goto, IInv, TypeOK
        <3>2. \A u \in Threads : leased[u] \cap Want[t] = {}
            BY <2>3, LeasesDisjoint DEF Leased, IInv, LeaseWhole
        <3>3. Provider!Acquire(t)
            BY <3>1, <3>2 DEF Provider!Acquire
        <3>4. QED
            BY <3>3 DEF Provider!Next
    <2>4. ASSUME NEW t \in Threads, Release(t) PROVE Provider!Next
        <3>1. leased' = [u \in Threads |-> IF u \in {t} THEN {} ELSE leased[u]]
            BY <2>4 DEF Release, Goto, IInv, TypeOK
        <3>2. Provider!Release({t})
            BY <3>1 DEF Provider!Release
        <3>3. QED
            BY <3>2 DEF Provider!Next
    <2>5. ASSUME NEW p \in Processes, Crash(p) PROVE Provider!Next
        <3>1. leased' = [u \in Threads |-> IF u \in Inhabitants(p) THEN {} ELSE leased[u]]
            BY <2>5 DEF Crash, Inhabitants, IInv, TypeOK
        <3>2. Provider!Release(Inhabitants(p)) /\ Inhabitants(p) \in SUBSET Threads
            BY <3>1 DEF Provider!Release, Inhabitants
        <3>3. QED
            BY <3>2 DEF Provider!Next
    <2>6. ASSUME NEW t \in Threads,
                 Begin(t) \/ Restart(t) \/ Enter(t) \/ Check(t) \/ Taken(t) \/ TimesOut(t)
                 \/ WaitFails(t) \/ Released(t) \/ ThreadEnds(t)
          PROVE  leased' = leased
        <3>1. PICK step \in Steps : Goto(t, step) /\ step # "leased" /\ pc[t] # "leased"
            BY <2>6 DEF Begin, Restart, Enter, Check, Taken, TimesOut, WaitFails, Released,
                        ThreadEnds, Steps
        <3>2. QED
            BY <3>1, <2>2
    <2>7. CASE UNCHANGED vars
        BY <2>7, <2>1 DEF vars
    <2>8. ASSUME NEW t \in Threads, Cancel(t) \/ ReleaseHandle(t) PROVE leased' = leased
        BY <2>8, <2>1 DEF Cancel, ReleaseHandle
    <2>9. QED
        BY <2>3, <2>4, <2>5, <2>6, <2>7, <2>8 DEF Next, Worker
<1>3. QED
    BY <1>1, <1>2, InitIInv, NextIInv, PTL DEF Spec, KeepsPromise, Provider!Spec

-----------------------------------------------------------------------------
\* A nonempty set of natural numbers has a least member.
LEMMA LeastMember ==
    ASSUME NEW T, T \subseteq Nat, T # {}
    PROVE  \E m \in T : \A n \in T : ~ (n < m)
<1> DEFINE Less == { p \in Nat \X Nat : p[1] < p[2] }
<1>1. IsWellFoundedOn(Less, Nat)
    BY NatLessThanWellFounded DEF OpToRel
<1> HIDE DEF Less
<1>2. PICK m \in T : \A n \in T : ~ (<<n, m>> \in Less)
    BY <1>1, WFMin
<1>3. ASSUME NEW n \in T PROVE ~ (n < m)
    BY <1>2 DEF Less
<1>4. QED
    BY <1>3

\* What a waiting thread owns comes before what it waits for.
LEMMA WaitAscends ==
    ASSUME IInv, NEW t \in Threads, NEW u \in Threads, NEW r \in Following(t), owner[r] = u,
           pc[u] \in { "check", "poll" }, NEW q \in Following(u)
    PROVE  r < q
<1>1. r \in Resources
    BY ConstantsAssumption DEF Following
<1>2. r \in handles[u]
    BY <1>1 DEF IInv, OwnedListed, RefusedLate
<1>3. QED
    BY <1>2 DEF IInv, Ascending, Following

\* custody.py, the sorted order of acquire: no ring of threads in which each
\* waits for a mutex of another, for any number of threads.
THEOREM NoRing == Spec => []NoCircularWait
<1>1. IInv => NoCircularWait
    <2> SUFFICES ASSUME IInv, NEW S \in (SUBSET Threads) \ {{}},
                        \A t \in S : \E u \in S : WaitsFor(t, u)
                 PROVE  FALSE
        BY DEF NoCircularWait
    <2>1. PICK top \in Resources : \A r \in Resources : r <= top
        BY ConstantsAssumption
    <2> DEFINE Waited == { r \in Resources : \E t \in S : pc[t] \in { "check", "poll" }
                                                      /\ r \in Following(t) }
               Room == { n \in Nat : top - n \in Waited }
    <2>2. \A t \in S : pc[t] \in { "check", "poll" } /\ Following(t) # {}
        BY DEF WaitsFor
    <2>3. \A t \in S : \A r \in Following(t) : r \in Waited /\ r \in Nat
        BY <2>2, ConstantsAssumption DEF Following
    <2>4. \A r \in Waited : top - r \in Room
        BY <2>1, ConstantsAssumption
    <2>5. Room # {}
        BY <2>2, <2>3, <2>4
    <2>6. PICK m \in Room : \A n \in Room : ~ (n < m)
        BY <2>5, LeastMember
    <2>7. PICK t \in S : top - m \in Following(t)
        BY <2>6
    <2>8. PICK u \in S : WaitsFor(t, u)
        BY <2>7
    <2>9. owner[top - m] = u
        <3>1. PICK r \in Following(t) : owner[r] = u
            BY <2>8 DEF WaitsFor
        <3>2. r = top - m
            BY <3>1, <2>7, <2>3 DEF Following
        <3>3. QED
            BY <3>1, <3>2
    <2>10. PICK q \in Following(u) : TRUE
        BY <2>2
    <2>11. top - m < q
        BY <2>2, <2>7, <2>9, <2>10, WaitAscends
    <2>12. top - q \in Room /\ top - q < m
        <3>1. top \in Nat /\ m \in Nat /\ q \in Nat
            BY <2>3, <2>10, ConstantsAssumption
        <3>2. top - q \in Room
            BY <2>3, <2>4, <2>10
        <3>3. QED
            BY <3>1, <3>2, <2>11
    <2>13. QED
        BY <2>6, <2>12
<1>2. QED
    BY <1>1, InitIInv, NextIInv, PTL DEF Spec
=============================================================================
