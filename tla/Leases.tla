------------------------------- MODULE Leases -------------------------------
(***************************************************************************)
(* What a resource lock provider promises (dispatcher/custody.py,          *)
(* ResourceLockProvider): acquire takes every wanted resource at once or   *)
(* none of them, and no resource is leased to two threads.                 *)
(***************************************************************************)
CONSTANTS Threads, Want

VARIABLE lease

Init == lease = [t \in Threads |-> {}]

Acquire(t) ==
    /\ \A u \in Threads : lease[u] \cap Want[t] = {}
    /\ lease' = [lease EXCEPT ![t] = Want[t]]

Release(S) ==
    lease' = [t \in Threads |-> IF t \in S THEN {} ELSE lease[t]]

Next ==
    \/ \E t \in Threads : Acquire(t)
    \/ \E S \in SUBSET Threads : Release(S)

Spec == Init /\ [][Next]_lease
=============================================================================
