----------------------------- MODULE MCExecutor -----------------------------
(***************************************************************************)
(* Small plans for TLC.  An operation is named after its kind: a plan has  *)
(* one of each at most, in the order in which the planner puts them.       *)
(***************************************************************************)
EXTENDS Executor

\* Every kind of operation.
Everything ==
    << "mkdir", "copy", "update", "move", "recase", "move_update", "noop", "delete", "trash",
       "rmdir" >>

\* The targets that another program may meddle with in different ways.
Contended == << "mkdir", "copy", "update", "trash" >>

\* The operations of several steps, and one that a stopped run leaves undone.
Reworked == << "update", "move_update", "delete" >>

KindByName == [o \in Ops |-> o]

\* A file depends on its new directory, a cleanup on what empties it.
PlannedDeps ==
    [o \in Ops |-> CASE o = "copy"  -> { "mkdir" } \cap Ops
                     [] o = "rmdir" -> { "trash" } \cap Ops
                     [] OTHER       -> {}]
=============================================================================
