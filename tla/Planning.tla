------------------------------ MODULE Planning ------------------------------
(***************************************************************************)
(* A reviewed sync from its scans to its end (workflows/sync.py): scan     *)
(* both roots, plan, select, preflight for the review, commit, preflight   *)
(* again, execute.  Execution is coarse here: one step for an operation    *)
(* that finds what it expects; Executor has its inner steps and its        *)
(* faults.  Other programs interfere until a preflight has passed.         *)
(***************************************************************************)
EXTENDS Scanner, Selection

CONSTANTS
    Worlds,      \* where it may begin: trees, pairs and linked identities; room, the
                 \* free space an observation may find, in files; and the bounds on
                 \* what happens: budget, and pauses of the execution
    Options,     \* options a plan may be requested with
    Hardlinks    \* the target volume has hard links

\* No two entries of a target differ in case only.
ASSUME WorldsAssumption ==
    \A w \in Worlds :
        /\ IsTree(w.source) /\ IsTree(w.target)
        /\ \A pair \in w.pairs : pair.target \in Path
        /\ \A p, q \in DOMAIN w.target : Key(p) = Key(q) => p = q

ASSUME OptionsAssumption == \A opts \in Options : opts.filters \subseteq Path

VARIABLES
    world,       \* the world it began with
    phase,       \* "scan", "select", "review", "reviewed", "commit", "run",
                 \* "refused" or "done"
    ran,         \* ids of the operations that succeeded
    failed,      \* ids of the operations that found something else
    space,       \* free space on the target volume since the last verdict
    pauses

runVars == <<ran, failed, space, pauses>>

vars == <<scanVars, selectionVars, world, phase, runVars>>

\* The snapshot of the mapping names no source key as ambiguous.
Input(opts) ==
    [source |-> reports["source"], target |-> reports["target"],
     pairs |-> world.pairs, linked |-> world.linked, ambiguous |-> {}, opts |-> opts]

\* run_plan, between the scans and the selection.
MakePlan ==
    /\ phase = "scan" /\ \A side \in Sides : reports[side] # None
    /\ \E opts \in Options :
          plan' = [ops |-> PlanOf(Input(opts)), opts |-> opts,
                   complete |-> reports["source"].complete /\ reports["target"].complete,
                   volumes |-> reports["source"].volume /\ reports["target"].volume]
    /\ withheld' = Direct'
    /\ phase' = "select"
    /\ UNCHANGED <<scanVars, world, runVars>>

Exclude ==
    /\ phase = "select"
    /\ Withhold
    /\ UNCHANGED <<scanVars, world, phase, runVars>>

SelectionMade ==
    /\ phase = "select" /\ Decided
    /\ phase' = "review"
    /\ UNCHANGED <<scanVars, selectionVars, world, runVars>>

-----------------------------------------------------------------------------
(***************************************************************************)
(* Preflight: observe the remaining operations and judge.                  *)
(***************************************************************************)
Remaining == { op \in Operations : Id(op) \in Selected \ (ran \cup failed) }

\* _add_stat_refusals: an expected entry is unchanged, any other place is free.
Agrees(side, p, expected) == Stat(disk[side], p) = expected

AsPlanned(op) ==
    /\ op.source # None /\ op.want # None => Agrees("source", op.source, op.want)
    /\ Agrees("target", op.target, op.found)
    /\ op.prior # None => Agrees("target", op.prior, op.old)

\* Mutant: a dependency has to be among the operations that are left.
DependenciesAhead(op) ==
    \A d \in op.deps : \E o \in Remaining : Id(o) = d

DependenciesMet(op) ==
    \A d \in op.deps : d \in ran \/ \E o \in Remaining : Id(o) = d

\* A parent that no remaining operation is about is a directory.
ParentsThere ==
    LET direct == { Key(p) : p \in UNION { Targets(op) : op \in Remaining } }
        parents == { Parent(p) : p \in UNION { Targets(op) : op \in Remaining } }
    IN  \A p \in parents : Key(p) \in direct \/ IsDirectory(disk["target"], p)

NeedsTrash ==
    \E op \in Remaining :
        \/ op.kind = "trash"
        \/ plan.opts.trash /\ op.kind \in { "update", "move_update" }

Accepts(free, trouble) ==
    /\ trouble \notin { "roots", "settings" } /\ (trouble = "trash" => ~ NeedsTrash)
    /\ plan.volumes
    /\ \A op \in Remaining :
          /\ AsPlanned(op) /\ DependenciesMet(op)
          /\ ~ plan.complete => op.kind \notin Destructive
          /\ op.blocked = None /\ op \notin Quarantined(Operations)
    /\ ParentsThere
    /\ RequiredBytes(Remaining, plan.opts.trash, Hardlinks) <= free

\* One observation and its verdict.
Judge(next) ==
    /\ \E free \in world.room, trouble \in { None, "roots", "settings", "trash" } :
          /\ IF trouble = None THEN UNCHANGED budget ELSE Spend
          /\ \/ Accepts(free, trouble) /\ phase' = next
             \/ ~ Accepts(free, trouble) /\ phase' = "refused"
          /\ space' = free
    /\ UNCHANGED <<disk, walk, reports, steady, calm, selectionVars, world, ran, failed, pauses>>

\* The end of run_plan.
Review == phase = "review" /\ Judge("reviewed")

\* commit_plan: a refused plan cannot be committed.
Commit ==
    /\ phase = "reviewed"
    /\ phase' = "commit"
    /\ UNCHANGED <<scanVars, selectionVars, world, runVars>>

\* run_execution, at first and after a pause.
Begin == phase = "commit" /\ Judge("run")

-----------------------------------------------------------------------------
(***************************************************************************)
(* Execution                                                               *)
(***************************************************************************)
Free(p) == ~ Exists(disk["target"], p) /\ IsDirectory(disk["target"], Parent(p))

\* New content; with trash on update the old version is kept, as a copy where
\* there are no hard links.
Use(op) ==
    IF op.kind \notin { "copy", "update", "move_update" } THEN 0
    ELSE IF op.kind # "copy" /\ plan.opts.trash /\ ~ Hardlinks THEN 2 ELSE 1

\* What the executor looks at before it acts.  A directory that is cleaned up
\* may have another modification time.
Feasible(op) ==
    /\ Use(op) <= space
    /\ op.source # None /\ op.want # None => Agrees("source", op.source, op.want)
    /\ CASE op.kind \in { "mkdir", "copy" } -> Free(op.target)
         [] op.kind \in { "update", "noop", "trash", "delete" } ->
                Agrees("target", op.target, op.found)
         [] op.kind = "recase" -> Agrees("target", op.prior, op.old)
         [] op.kind \in Moves -> Free(op.target) /\ Agrees("target", op.prior, op.old)
         [] op.kind = "cleanup" ->
                /\ Exists(disk["target"], op.target)
                /\ Stat(disk["target"], op.target).id = op.found.id
                /\ \A p \in DOMAIN disk["target"] : ~ Below(p, op.target)

Written(op) == [kind |-> op.want.kind, id |-> FreshId("target"), ver |-> op.want.ver]

Effect(op) ==
    LET tree == disk["target"]
        old == tree[Actual(tree, IF op.prior = None THEN op.target ELSE op.prior)]
    IN
    CASE op.kind \in { "mkdir", "copy", "update" } -> With(tree, op.target, Written(op))
      [] op.kind = "noop" -> tree
      [] op.kind \in { "move", "recase" } ->
             With(Without(tree, op.prior), op.target, old)
      [] op.kind = "move_update" -> With(Without(tree, op.prior), op.target, Written(op))
      [] op.kind \in { "trash", "delete", "cleanup" } -> Without(tree, op.target)

\* The next operation in plan order.
Execute ==
    /\ phase = "run"
    /\ \E op \in Remaining :
          /\ \A o \in Remaining : ~ Earlier(o, op)
          /\ IF Feasible(op) /\ op.deps \subseteq ran
             THEN /\ disk' = [disk EXCEPT !["target"] = Effect(op)]
                  /\ ran' = ran \cup { Id(op) }
                  /\ space' = space - Use(op)
                  /\ UNCHANGED failed
             ELSE /\ failed' = failed \cup { Id(op) }
                  /\ UNCHANGED <<disk, ran, space>>
    /\ UNCHANGED <<budget, walk, reports, steady, calm, selectionVars, world, phase, pauses>>

\* Paused between two operations; a resume starts with a new preflight.
Pause ==
    /\ phase = "run" /\ Remaining # {} /\ pauses < world.pauses
    /\ pauses' = pauses + 1
    /\ phase' = "commit"
    /\ UNCHANGED <<scanVars, selectionVars, world, ran, failed, space>>

Finish ==
    /\ phase = "run" /\ Remaining = {}
    /\ phase' = "done"
    /\ UNCHANGED <<scanVars, selectionVars, world, runVars>>

-----------------------------------------------------------------------------
NoPlan == [ops |-> {}, opts |-> None, complete |-> FALSE, volumes |-> FALSE]

Init ==
    /\ world \in Worlds
    /\ disk = [source |-> world.source, target |-> world.target]
    /\ budget = world.budget
    /\ walk = None
    /\ reports = [side \in Sides |-> None]
    /\ steady = [side \in Sides |-> {}] /\ calm = TRUE
    /\ plan = NoPlan /\ withheld = {}
    /\ phase = "scan"
    /\ ran = {} /\ failed = {} /\ space = 0 /\ pauses = 0

Next ==
    \/ phase = "scan" /\ Scan /\ UNCHANGED <<selectionVars, world, phase, runVars>>
    \/ /\ phase \in { "scan", "review", "reviewed", "commit" }
       /\ Drift
       /\ UNCHANGED <<selectionVars, world, phase, runVars>>
    \/ MakePlan \/ Exclude \/ SelectionMade
    \/ Review \/ Commit \/ Begin \/ Execute \/ Pause \/ Finish

Spec == Init /\ [][Next]_vars

-----------------------------------------------------------------------------
(***************************************************************************)
(* Properties                                                              *)
(***************************************************************************)
Reported(r) == { f.path : f \in r.files \cup r.dirs } \cup r.odd

Overlooked(p) == \E q \in {p} \cup Ancestors(p) : Key(q) \in Ignored

(***************************************************************************)
(* A scan that calls itself complete reported every entry that was there   *)
(* from its beginning to its end, whatever happened around it.             *)
(***************************************************************************)
ScanHonest ==
    \A side \in Sides : reports[side] # None /\ reports[side].complete =>
        \A p \in steady[side] : Overlooked(p) \/ p \in Reported(reports[side])

(***************************************************************************)
(* Nothing is taken away from a target path that the source had during the *)
(* whole of its scan: not when entries were missed, renamed, unreadable or *)
(* of an unsupported kind.                                                 *)
(***************************************************************************)
RemovalJustified ==
    phase \notin { "scan", "select" } =>
        \A op \in Operations : Id(op) \in Selected =>
            \A p \in Taken(op), q \in steady["source"] : Key(p) # Key(q)

\* No file is moved away that another operation of the run is about.  The
\* planner does not see to it: _move_pair asks which targets have a source file
\* of their own key, not which are taken for the other Unicode form of one.
MovesApart ==
    \A op, o \in Operations :
        op.kind \in Moves /\ o # op /\ { Id(op), Id(o) } \subseteq Selected =>
            \A p \in Targets(o) : Key(p) # Key(op.prior)

\* No file of the target has two names.  Of one that has, the run itself changes
\* the link count, which _matches_expected takes for a drift at the other name.
Unshared ==
    \A p, q \in DOMAIN world.target : world.target[p].id = world.target[q].id => p = q

(***************************************************************************)
(* A plan is well formed and can be carried out as it stands: after a      *)
(* verdict, and with nobody interfering, every operation finds in its turn *)
(* what it expects and room for what it writes, also after a pause and a   *)
(* change before the resume; unless two operations, or two names, are of   *)
(* one old file.                                                           *)
(* Code: the order and the dependencies of plan, _add_stat_refusals,       *)
(* calculate_required_bytes.                                               *)
(***************************************************************************)
PlanRuns == WellFormed /\ (MovesApart /\ Unshared => failed = {})

(***************************************************************************)
(* A pause does not spoil a run: when nobody interferes, there is room and *)
(* no old file has two names, the preflight of the resume accepts what the *)
(* first part of the run left behind; except that it takes the             *)
(* modification time of a directory that is to be cleaned up, which the    *)
(* run itself has changed, for drift.                                      *)
(***************************************************************************)
ResumeAccepted ==
    /\ phase = "refused" /\ pauses > 0 /\ budget = world.budget /\ Unshared
    /\ RequiredBytes(Remaining, plan.opts.trash, Hardlinks) <= space
    => \E op \in Remaining : op.kind = "cleanup"

Image(tree) ==
    { <<[i \in DOMAIN p |-> NameForm[NameKey[p[i]]]], tree[p].kind,
        IF tree[p].kind = "file" THEN tree[p].ver ELSE 0>>
        : p \in { q \in DOMAIN tree : ~ Overlooked(q) /\ ~ Excludes(plan.opts, q) } }

\* Directories that are kept for the sake of something in them.
Harbours(p) == \E q \in DOMAIN world.target : Below(q, p) /\ Excludes(plan.opts, q)

(***************************************************************************)
(* If nobody interferes, nothing is withheld and no two operations, or     *)
(* names, are of one old file, the target mirrors the source at the end,   *)
(* or contains it where the policy is additive.                            *)
(***************************************************************************)
Mirrored ==
    phase = "done" /\ calm /\ plan.complete /\ withheld = {} /\ MovesApart /\ Unshared =>
        LET source == Image(disk["source"])
            kept == { p \in DOMAIN disk["target"] : ~ Harbours(p) }
        IN
        /\ source \subseteq Image(disk["target"])
        /\ plan.opts.policy # "additive" =>
              Image([p \in kept |-> disk["target"][p]]) \subseteq source

Protected(p) ==
    \/ Overlooked(p) \/ Excludes(plan.opts, p)
    \/ \E q \in BlockedTargets(Operations) : Inside(p, q) \/ Below(q, p)

(***************************************************************************)
(* What the plan is blocked on, and what filters and ignores leave out, is *)
(* never touched, nor are the directories it is in.                        *)
(***************************************************************************)
Kept ==
    phase \in { "run", "done" } /\ calm =>
        \A p \in DOMAIN world.target : Protected(p) =>
            /\ p \in DOMAIN disk["target"]
            /\ disk["target"][p].id = world.target[p].id
            /\ world.target[p].kind = "file" => disk["target"][p] = world.target[p]
=============================================================================
