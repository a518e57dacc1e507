----------------------------- MODULE Selection ------------------------------
(***************************************************************************)
(* The part of a plan that may run (workflows/selection.py and             *)
(* quarantined_operation_ids of core/planning.py).  What is blocked, what  *)
(* overlaps it and what an incomplete scan cannot justify is withheld;     *)
(* then, one by one, everything that depends on what is withheld.          *)
(***************************************************************************)
EXTENDS Planner

VARIABLES
    plan,        \* the plan: its operations and whether both scans were complete
    withheld     \* ids of the operations that will not run

selectionVars == <<plan, withheld>>

Operations == plan.ops

Ids == { Id(op) : op \in Operations }

Selected == Ids \ withheld

-----------------------------------------------------------------------------
Targets(op) == { op.target } \cup (IF op.prior = None THEN {} ELSE { op.prior })

BlockedOps(ops) == { op \in ops : op.blocked # None }

BlockedSources(ops) == { op.source : op \in { o \in BlockedOps(ops) : o.source # None } }

BlockedTargets(ops) == UNION { Targets(op) : op \in BlockedOps(ops) }

\* Paths whose entry an operation takes away.
Taken(op) ==
    CASE op.kind \in { "trash", "delete", "cleanup" } -> { op.target }
      [] op.kind \in Moves -> { op.prior }
      [] OTHER -> {}

\* Mutant: only operations inside a blocked path are set aside.
QuarantinedInside(ops) ==
    { op \in ops :
        /\ op.blocked = None
        /\ \/ op.source # None /\ \E q \in BlockedSources(ops) : Inside(op.source, q)
           \/ \E p \in Targets(op), q \in BlockedTargets(ops) : p = q }

Quarantined(ops) ==
    { op \in ops :
        /\ op.blocked = None
        /\ \/ op.source # None /\ \E q \in BlockedSources(ops) : Inside(op.source, q)
           \/ \E p \in Targets(op), q \in BlockedTargets(ops) : Inside(p, q)
           \/ \E p \in Taken(op), q \in BlockedTargets(ops) : Inside(q, p) }

Destructive == Moves \cup { "trash", "delete", "cleanup" }

\* Mutant: removals go ahead after an incomplete scan.
UnjustifiedNone(ops) == {}

\* What neither scan may have missed something for.
Unjustified(ops) == { op \in ops : ~ plan.complete /\ op.kind \in Destructive }

Direct ==
    { Id(op) : op \in BlockedOps(Operations) \cup Quarantined(Operations)
                      \cup Unjustified(Operations) }

-----------------------------------------------------------------------------
\* Mutant: only what depends on a blocked operation is left out, not what depends
\* on a deferred one.
DependentOnBlocked(op) ==
    Id(op) \notin withheld /\ op.deps \cap { Id(o) : o \in BlockedOps(Operations) } # {}

Dependent(op) == Id(op) \notin withheld /\ op.deps \cap withheld # {}

\* The next operation, in the order of the plan, that depends on a withheld one.
Withhold ==
    /\ \E op \in Operations :
          /\ Dependent(op)
          /\ \A o \in Operations : Dependent(o) => ~ Earlier(o, op)
          /\ withheld' = withheld \cup { Id(op) }
    /\ UNCHANGED plan

Decided == \A op \in Operations : ~ Dependent(op)

-----------------------------------------------------------------------------
(***************************************************************************)
(* Plan.__post_init__ never raises for what the planner made: ids are      *)
(* unique, and what an operation depends on is in the plan and comes       *)
(* before it.                                                              *)
(***************************************************************************)
WellFormed ==
    \A op \in Operations :
        /\ \A o \in Operations : Id(o) = Id(op) => o = op
        /\ \A id \in op.deps : \E o \in Operations : Earlier(o, op) /\ Id(o) = id

\* It has everything its operations depend on.
Closed(ids) == \A op \in Operations : Id(op) \in ids => op.deps \subseteq ids

(***************************************************************************)
(* The selection is the greatest set that may run: the loop never          *)
(* withholds an operation of a closed set without anything that is ruled   *)
(* out by itself, and what is left when it ends is such a set.             *)
(* Code: derive_execution_selection.                                       *)
(***************************************************************************)
GreatestSafe ==
    /\ \A ids \in SUBSET (Ids \ Direct) : Closed(ids) => ids \subseteq Selected
    /\ Selected \cap Direct = {}
    /\ Decided => Closed(Selected)
=============================================================================
