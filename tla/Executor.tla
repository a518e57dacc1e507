------------------------------ MODULE Executor ------------------------------
(***************************************************************************)
(* The execution of one reviewed plan: run_execution of workflows/sync.py, *)
(* which preflights, and execute of modules/executor.py, which works the   *)
(* plan's operations off one by one, retries, pauses, cancels and settles. *)
(*                                                                         *)
(* The executor is one thread.  What makes it hard is everything around    *)
(* it: a primitive of the filesystem may fail before or after it took      *)
(* effect, the recorder may fail, a pause or a cancel is met at the next   *)
(* checkpoint, a resumed run starts again from the statuses alone, and     *)
(* other programs change files.                                            *)
(***************************************************************************)
EXTENDS Naturals, Sequences, FiniteSets

CONSTANTS
    Plan,           \* plan.operations that are selected, in plan order
    Kind,           \* Kind[o]: OperationKind
    Deps,           \* Deps[o]: dependencies
    ReadOnly,       \* operations whose displaced target is readonly
    TrashOnUpdate,  \* plan.trash_on_update
    Hardlinks,      \* target_profile.supports_hardlinks
    MaxRetries,     \* policies.max_retries
    StopOnFailure,  \* the FailurePolicy decides Stop, not Continue
    Flaky,          \* the calls that may raise
    Persistent,     \* those of them that a held lock makes raise any number of times
    MaxFaults,      \* bound: calls that raise
    MaxPauses,      \* bound: pause requests
    Cancelable,     \* whether the run is ever canceled
    MaxDrifts       \* bound: changes by other programs

Ops == { Plan[i] : i \in DOMAIN Plan }

\* "rmdir" is a DELETE of an emptied directory, for the reason DIRECTORY_CLEANUP.
OperationKind ==
    { "copy", "update", "move", "recase", "move_update", "trash", "delete", "rmdir", "noop",
      "mkdir" }

ASSUME PlanAssumption ==
    /\ Plan \in Seq(Ops)
    /\ \A i, j \in DOMAIN Plan : Plan[i] = Plan[j] => i = j
    /\ Kind \in [Ops -> OperationKind]
    /\ Deps \in [Ops -> SUBSET Ops]
    /\ ReadOnly \subseteq Ops
    /\ TrashOnUpdate \in BOOLEAN
    /\ Hardlinks \in BOOLEAN
    /\ StopOnFailure \in BOOLEAN
    /\ Cancelable \in BOOLEAN
    /\ Persistent \subseteq Flaky
    /\ { MaxRetries, MaxFaults, MaxPauses, MaxDrifts } \subseteq Nat

VARIABLES
    fs,         \* fs[o][p]: what is at place p of operation o
    bare,       \* operations whose target lacks its intended metadata
    cleared,    \* operations whose displaced file has lost its readonly bit
    run,        \* the session: ready to run, executing, paused or done
    stage,      \* where execute is
    pos,        \* the operation of the loop is Plan[pos]
    attempt,    \* the attempt of that operation
    stop,       \* stop_requested
    ending,     \* how the loop ended: finish, cancel or pause
    inflight,   \* state.inflight_temp is the temp of Plan[pos]
    cont,       \* its continuation: none, prepared or published
    live,       \* the target an update has seen: as the backup began, then live_stat
    why,        \* the exception that is being handled
    pending,    \* pending_directories, which are the ready_directories too
    restore,    \* restore_directories
    recording,  \* state.recording
    fsFailed,   \* state.filesystem_failed
    status,     \* xset.status
    reason,     \* the reason of an outcome
    recorded,   \* the operations in the ledger
    result,     \* the session's OperationResult
    request,    \* the control request that the next checkpoint resolves
    faults, pauses, drifts,     \* history: for the bounds
    meddled,    \* history: operations whose files another program changed
    forgotten   \* history: operations settled before a pause that lost a degraded recording

diskVars == << fs, bare, cleared >>
loopVars == << run, pos, stop, ending >>
tryVars  == << attempt, inflight, cont, live >>
bookVars == << pending, restore, recording, fsFailed, status, reason, recorded, result >>
envVars  == << request, pauses, drifts, meddled, forgotten >>
vars == << diskVars, loopVars, stage, tryVars, why, bookVars, envVars, faults >>

Place   == { "source", "target", "prior", "temp", "trash", "spare" }
Content == { "none", "old", "new", "part", "drift", "foreign", "torn", "dir" }

Outcome == { "none", "succeeded", "failed", "skipped", "deferred", "canceled" }

Displacing == { "update", "trash", "delete", "noop" }   \* target_expected is a file
Relocating == { "move", "recase", "move_update" }       \* prior_target_expected
Copying    == { "copy", "update", "move_update" }
Sourced    == Copying \cup { "move", "noop", "recase" }

\* What the plan expects at a place.
Expected(o, p) ==
    CASE p = "source" /\ Kind[o] \in Sourced    -> "new"
      [] p = "target" /\ Kind[o] \in Displacing -> "old"
      [] p = "target" /\ Kind[o] = "rmdir"      -> "dir"
      [] p = "prior"  /\ Kind[o] \in Relocating -> "old"
      [] OTHER                                  -> "none"

Init ==
    /\ fs = [o \in Ops |-> [p \in Place |-> Expected(o, p)]]
    /\ bare = {}
    /\ cleared = {}
    /\ run = "ready"
    /\ stage = "next"
    /\ pos = 0
    /\ attempt = 0
    /\ stop = FALSE
    /\ ending = "finish"
    /\ inflight = FALSE
    /\ cont = "none"
    /\ live = "none"
    /\ why = "none"
    /\ pending = {}
    /\ restore = {}
    /\ recording = "ok"
    /\ fsFailed = FALSE
    /\ status = [o \in Ops |-> "none"]
    /\ reason = [o \in Ops |-> "none"]
    /\ recorded = {}
    /\ result = [status |-> "none", recording |-> "ok"]
    /\ request = "none"
    /\ faults = 0
    /\ pauses = 0
    /\ drifts = 0
    /\ meddled = {}
    /\ forgotten = {}

-----------------------------------------------------------------------------
(***************************************************************************)
(* The guards.  A stat is matched with its link count and its attributes,  *)
(* so a backup by hardlink and a cleared readonly bit change it.           *)
(***************************************************************************)
op == Plan[pos]

Linked(o) == Hardlinks /\ fs[o].trash = "old" /\ fs[o].target = "old"

\* _matches_expected
_matches_expected(o, p) ==
    \/ p = "target" /\ Kind[o] = "recase"     \* the old name finds the same file
    \/ /\ fs[o][p] = Expected(o, p)
       /\ p = "target" => o \notin cleared /\ ~ Linked(o)

\* Removing the children of a directory changes its mtime.
Churned(o) ==
    \E d \in Deps[o] : \/ Kind[d] \in { "trash", "delete", "rmdir" } /\ fs[d].target = "none"
                       \/ Kind[d] \in { "move", "move_update" } /\ fs[d].prior = "none"

Remaining == { o \in Ops : status[o] = "none" }

\* preflight, which matches a directory that is to be removed exactly.
preflight ==
    \A o \in Remaining :
        /\ \A p \in { "source", "target", "prior" } : _matches_expected(o, p)
        /\ Kind[o] = "rmdir" => ~ Churned(o)
        /\ \A d \in Deps[o] : status[d] \notin { "failed", "canceled", "deferred" }

\* The places that the guards of an operation look at, in their order.
Guarded ==
    [copy |-> << "source", "target" >>, update |-> << "source", "target" >>,
     move |-> << "prior", "target" >>, recase |-> << "source", "prior" >>,
     move_update |-> << "prior", "source", "target" >>, trash |-> << "target" >>,
     delete |-> << "target" >>, rmdir |-> << "target" >>, noop |-> << "source", "target" >>,
     mkdir |-> << "target" >>]

\* The reason with which the first guard fails, or "none".
Drift(places) ==
    LET broken == { i \in DOMAIN places : ~ _matches_expected(op, places[i]) }
        p == places[CHOOSE i \in broken : \A j \in broken : i <= j]
    IN  IF broken = {} THEN "none"
        ELSE IF Expected(op, p) = "none" THEN "destination-occupied"
        ELSE IF p = "source" THEN "source-drift"    \* no source ever vanishes here
        ELSE IF fs[op][p] = "none" THEN "target-missing"
        ELSE "target-drift"

_dependencies_succeeded(o) == \A d \in Deps[o] : status[d] = "succeeded" \/ d \in pending

-----------------------------------------------------------------------------
(***************************************************************************)
(* Exceptions and outcomes.                                                *)
(***************************************************************************)
Goes(s) == stage' = s /\ UNCHANGED why

Raises(r) == stage' = "caught" /\ why' = r

Fault(call) ==
    /\ call \in Flaky
    /\ IF call \in Persistent THEN UNCHANGED faults
                              ELSE faults < MaxFaults /\ faults' = faults + 1

\* A call raises: a sharing violation, or another error of the system.
Fails(call) == Fault(call) /\ \E r \in { "sharing-violation", "io-error" } : Raises(r)

\* Mutant: a failure of the recorder is swallowed.
Swallowed == UNCHANGED recording

\* state.recording = RecordingStatus.DEGRADED
Degraded == recording' = "degraded"

_settle(o, outcome, r) ==
    /\ status' = [status EXCEPT ![o] = outcome]
    /\ reason' = [reason EXCEPT ![o] = r]

\* fs with v at place p of o, and with o's file renamed.
Put(o, p, v) == [fs EXCEPT ![o][p] = v]
Moved(o, from, to) == [fs EXCEPT ![o][to] = fs[o][from], ![o][from] = "none"]

\* Mutant: the temp is forgotten, not removed.
ForgetInflight(failed) == inflight' = FALSE /\ UNCHANGED << fs, faults >>

\* _cleanup_inflight, which may fail.
_cleanup_inflight(failed) ==
    /\ inflight' = FALSE
    /\ IF ~ inflight \/ fs[op].temp = "none"
       THEN ~ failed /\ UNCHANGED << fs, faults >>
       ELSE IF failed
       THEN Fault("cleanup") /\ UNCHANGED fs
       ELSE fs' = Put(op, "temp", "none") /\ UNCHANGED faults

\* The directories of this plan that a change of op's files touches.
Parents == { d \in Deps[op] : Kind[d] = "mkdir" }

Works(kinds, s) ==
    /\ run = "executing"
    /\ stage = s
    /\ Kind[op] \in kinds

-----------------------------------------------------------------------------
(***************************************************************************)
(* run_execution and the loop of execute.                                  *)
(***************************************************************************)

\* A fresh preflight, then a fresh state: nothing of a run survives its pause
\* but the statuses.
Start ==
    /\ run = "ready"
    /\ stage' = "next"
    /\ pos' = 0
    /\ forgotten' = IF recording = "degraded" THEN Ops \ Remaining ELSE forgotten
    /\ \/ /\ ~ preflight
          /\ run' = "done"
          /\ result' = [status |-> "refused", recording |-> "ok"]
          /\ UNCHANGED << stop, pending, restore, recording, fsFailed, faults >>
       \/ /\ preflight     \* open_recording or remove_orphaned_temps raises
          /\ Fault("open")
          /\ run' = "done"
          /\ result' = [status |-> "failed", recording |-> "ok"]
          /\ UNCHANGED << stop, pending, restore, recording, fsFailed >>
       \/ /\ preflight
          /\ run' = "executing"
          /\ stop' = FALSE
          /\ pending' = {}
          /\ restore' = { o \in Ops : Kind[o] = "mkdir" /\ status[o] = "succeeded" }
          /\ recording' = "ok"
          /\ fsFailed' = FALSE
          /\ UNCHANGED << result, faults >>
    /\ UNCHANGED << diskVars, ending, tryVars, why, status, reason, recorded, request, pauses,
                    drifts, meddled >>

\* ctx.checkpoint() raises: the in-flight temp goes and execute winds up.
Unwinds ==
    /\ request # "none"
    /\ stage' = "wrapup"
    /\ ending' = request
    /\ cont' = "none"
    /\ live' = "none"
    /\ \E failed \in BOOLEAN : _cleanup_inflight(failed)

Entry ==
    [copy |-> "prepare", update |-> "prepare", move_update |-> "prepare", move |-> "check",
     recase |-> "check", trash |-> "check", delete |-> "check", rmdir |-> "check",
     noop |-> "check", mkdir |-> "mkdir"]

Advance ==
    /\ run = "executing"
    /\ stage = "next"
    /\ pos < Len(Plan)
    /\ pos' = pos + 1
    /\ LET o == Plan[pos + 1]
       IN  \/ /\ status[o] # "none"
              /\ UNCHANGED << stage, attempt, ending, status, reason >>
           \/ /\ status[o] = "none"
              /\ request # "none"
              /\ stage' = "wrapup"
              /\ ending' = request
              /\ UNCHANGED << attempt, status, reason >>
           \/ /\ status[o] = "none"
              /\ request = "none"
              /\ IF stop THEN _settle(o, "canceled", "policy-stop") /\ UNCHANGED << stage, attempt >>
                 ELSE IF ~ _dependencies_succeeded(o)
                 THEN _settle(o, "deferred", "dependency-failed") /\ UNCHANGED << stage, attempt >>
                 ELSE stage' = Entry[Kind[o]] /\ attempt' = 1 /\ UNCHANGED << status, reason >>
              /\ UNCHANGED ending
    /\ UNCHANGED << diskVars, run, stop, inflight, cont, live, why, pending, restore, recording,
                    fsFailed, recorded, result, envVars, faults >>

\* _start_directory; a failure is settled without a retry.
_start_directory ==
    /\ Works({ "mkdir" }, "mkdir")
    /\ Goes("next")
    /\ \/ /\ Drift(Guarded.mkdir) # "none"
          /\ _settle(op, "failed", Drift(Guarded.mkdir))
          /\ UNCHANGED << fs, bare, pending, faults >>
       \/ /\ Drift(Guarded.mkdir) = "none"
          /\ fs' = Put(op, "target", "dir")
          /\ bare' = bare \cup Parents \cup { op }
          /\ pending' = pending \cup { op }
          /\ UNCHANGED << status, reason, faults >>
       \/ /\ Drift(Guarded.mkdir) = "none"
          /\ Fault("mkdir")
          /\ _settle(op, "failed", "io-error")
          /\ UNCHANGED << fs, bare, pending >>
    /\ UNCHANGED << cleared, loopVars, tryVars, restore, recording, fsFailed, recorded, result,
                    envVars >>

-----------------------------------------------------------------------------
(***************************************************************************)
(* _prepare_copy: the complete replacement in an owned temp.               *)
(***************************************************************************)
Prepare ==
    /\ Works(Copying, "prepare")
    /\ \/ /\ Drift(Guarded[Kind[op]]) # "none"
          /\ Raises(Drift(Guarded[Kind[op]]))
          /\ UNCHANGED << fs, bare, inflight, faults >>
       \/ /\ Drift(Guarded[Kind[op]]) = "none"
          /\ fs[op].temp # "none"
          /\ Fault("cleanup")
          /\ \E r \in { "temp-shared", "cleanup-failed" } : Raises(r)
          /\ UNCHANGED << fs, bare, inflight >>
       \/ /\ Drift(Guarded[Kind[op]]) = "none"
          /\ fs' = Put(op, "temp", "part")
          /\ bare' = bare \cup Parents
          /\ inflight' = TRUE
          /\ Goes("stream")
          /\ UNCHANGED faults
    /\ UNCHANGED << cleared, loopVars, attempt, cont, live, bookVars, envVars >>

\* The bytes, with a checkpoint before every chunk.
Stream ==
    /\ Works(Copying, "stream")
    /\ \/ Unwinds /\ UNCHANGED why
       \/ /\ request = "none"
          /\ fs' = Put(op, "temp", fs[op].source)
          /\ Goes("prepared")
          /\ UNCHANGED << ending, inflight, cont, live, faults >>
       \/ /\ request = "none"
          /\ Fails("copy")
          /\ UNCHANGED << fs, ending, inflight, cont, live >>
    /\ UNCHANGED << bare, cleared, run, pos, stop, attempt, bookVars, envVars >>

\* Mutant: the source is not looked at again after the copy.
PreparedUnchecked ==
    /\ Works(Copying, "prepared")
    /\ request = "none"
    /\ Goes(IF Kind[op] = "update" THEN "backup" ELSE "publish")
    /\ UNCHANGED << diskVars, loopVars, tryVars, bookVars, envVars, faults >>

\* Metadata and flush of the temp, a checkpoint, and the guards once more.
Prepared ==
    /\ Works(Copying, "prepared")
    /\ \/ Fails("prepare") /\ UNCHANGED << fs, ending, inflight, cont, live >>
       \/ Unwinds /\ UNCHANGED why
       \/ /\ request = "none"
          /\ LET r == Drift(<< "source", "target" >>)
             IN  IF r # "none" THEN Raises(r)
                 ELSE Goes(IF Kind[op] = "update" THEN "backup" ELSE "publish")
          /\ UNCHANGED << fs, ending, inflight, cont, live, faults >>
    /\ UNCHANGED << bare, cleared, run, pos, stop, attempt, bookVars, envVars >>

-----------------------------------------------------------------------------
(***************************************************************************)
(* _copy and _move_update: the temp becomes the new file by a rename that  *)
(* never replaces.  Only a move-update remembers that it did.              *)
(***************************************************************************)
Published == Moved(op, "temp", "target")

\* Mutant: os.replace takes the place of the conditional rename.
PublishReplacing ==
    /\ Works({ "copy", "move_update" }, "publish")
    /\ fs' = Published
    /\ bare' = bare \cup Parents \cup { op }
    /\ Goes("dress")
    /\ inflight' = FALSE
    /\ UNCHANGED << cleared, loopVars, attempt, cont, live, bookVars, envVars, faults >>

Publish ==
    /\ Works({ "copy", "move_update" }, "publish")
    /\ \/ /\ fs[op].target # "none"
          /\ Raises("destination-occupied")
          /\ UNCHANGED << fs, bare, inflight, cont, faults >>
       \/ /\ Fails("publish")
          /\ UNCHANGED << fs, bare, inflight, cont >>
       \/ /\ fs[op].target = "none"
          /\ fs' = Published
          /\ bare' = bare \cup Parents \cup { op }
          /\ \/ Fails("publish_late") /\ UNCHANGED << inflight, cont >>
             \/ /\ Goes("dress")
                /\ inflight' = FALSE
                /\ cont' = IF Kind[op] = "move_update" THEN "published" ELSE cont
                /\ UNCHANGED faults
    /\ UNCHANGED << cleared, loopVars, attempt, live, bookVars, envVars >>

-----------------------------------------------------------------------------
(***************************************************************************)
(* _update: the displaced version goes to the run's trash first.           *)
(***************************************************************************)
BackedUp(v) == [fs EXCEPT ![op].trash = v, ![op].spare = "none"]

\* Mutant: an update goes on without the backup that failed.
BackupOptional ==
    /\ Works({ "update" }, "backup")
    /\ fs' \in { fs, BackedUp(fs[op].target) }
    /\ Goes("backed")
    /\ UNCHANGED << bare, cleared, loopVars, tryVars, bookVars, envVars, faults >>

\* Mutant: the backup is written in its place, not in a temp beside it.
BackupInPlace ==
    /\ Works({ "update" }, "backup")
    /\ fs' = Put(op, "trash", "part")
    /\ live' = fs[op].target
    /\ Goes("backing")
    /\ UNCHANGED << bare, cleared, loopVars, attempt, inflight, cont, bookVars, envVars, faults >>

\* The place in the trash is reserved and the hardlink made, or the copy begun.
Backup ==
    /\ Works({ "update" }, "backup")
    /\ \/ /\ ~ TrashOnUpdate
          /\ Goes("backed")
          /\ UNCHANGED << fs, live, faults >>
       \/ /\ TrashOnUpdate
          /\ fs[op].trash # "none"
          /\ Raises("trash-collision")
          /\ UNCHANGED << fs, live, faults >>
       \/ /\ TrashOnUpdate
          /\ fs[op].trash = "none"
          /\ Fails("backup")
          /\ UNCHANGED << fs, live >>
       \/ /\ TrashOnUpdate /\ Hardlinks
          /\ fs[op].trash = "none"
          /\ fs' = Put(op, "trash", fs[op].target)
          /\ Goes("backed")
          /\ UNCHANGED << live, faults >>
       \/ /\ TrashOnUpdate /\ ~ Hardlinks
          /\ fs[op].trash = "none"
          /\ \/ /\ fs[op].spare # "none"     \* the temp of an earlier attempt stays
                /\ Fault("cleanup")
                /\ \E r \in { "temp-shared", "cleanup-failed" } : Raises(r)
                /\ UNCHANGED << fs, live >>
             \/ /\ fs' = Put(op, "spare", "part")
                /\ live' = fs[op].target
                /\ Goes("backing")
                /\ UNCHANGED faults
    /\ UNCHANGED << bare, cleared, loopVars, attempt, inflight, cont, bookVars, envVars >>

\* copy_backup: a checkpoint before every chunk, the metadata, and a rename that
\* never replaces.  A target that is written to meanwhile is copied in part as
\* it was and in part as it is.
copy_backup ==
    /\ Works({ "update" }, "backing")
    /\ \/ Unwinds /\ UNCHANGED why
       \/ /\ request = "none"
          /\ fs' = BackedUp(IF fs[op].target = live THEN live ELSE "torn")
          /\ Goes("backed")
          /\ UNCHANGED << ending, inflight, cont, live, faults >>
       \/ /\ Fails("backup")
          /\ live' = "none"
          /\ UNCHANGED << fs, ending, inflight, cont >>
    /\ UNCHANGED << bare, cleared, run, pos, stop, attempt, bookVars, envVars >>

\* The continuation, with the stats of the temp, the target and the backup as
\* they are now.  A backup that raised but exists is kept, and its error raised
\* after that.
Backed ==
    /\ Works({ "update" }, "backed")
    /\ \/ /\ Fails("backup_stat")
          /\ live' = "none"
          /\ UNCHANGED cont
       \/ /\ live' = fs[op].target
          /\ cont' = "prepared"
          /\ \/ Goes("recheck") /\ UNCHANGED faults
             \/ TrashOnUpdate /\ Fails("backup_late")
    /\ UNCHANGED << diskVars, loopVars, attempt, inflight, bookVars, envVars >>

\* Mutant: what was checked when the continuation was made is not checked again.
RecheckTrusting ==
    /\ Works({ "update" }, "recheck")
    /\ IF fs[op].temp = "none"
       THEN Goes("dress") /\ cont' = "published" /\ inflight' = FALSE
       ELSE Goes("replace") /\ UNCHANGED << cont, inflight >>
    /\ UNCHANGED << diskVars, loopVars, attempt, live, bookVars, envVars, faults >>

\* The guards of a prepared update, against the stats of its continuation.  A
\* temp that is gone was published by a call that raised.  Nobody touches the
\* temp and the backup.
Recheck ==
    /\ Works({ "update" }, "recheck")
    /\ IF fs[op].temp = "none"
       THEN IF fs[op].target = "new"
            THEN Goes("dress") /\ cont' = "published" /\ inflight' = FALSE
            ELSE Raises("target-drift") /\ UNCHANGED << cont, inflight >>
       ELSE /\ IF fs[op].source # "new" THEN Raises("source-drift")
               ELSE IF fs[op].target # live \/ op \in cleared THEN Raises("target-drift")
               ELSE Goes("replace")
            /\ UNCHANGED << cont, inflight >>
    /\ UNCHANGED << diskVars, loopVars, attempt, live, bookVars, envVars, faults >>

\* A call fails whose readonly file was cleared for it: the bit is set again,
\* which may fail too.  An update does so only to the version it has seen.
Unrestored ==
    { cleared } \cup
    IF "metadata" \in Flaky \/ (stage = "replace" /\ fs[op].target # live)
    THEN { cleared \cup ({ op } \cap ReadOnly) } ELSE {}

Replace ==
    /\ Works({ "update" }, "replace")
    /\ \/ /\ Fault("flush")
          /\ Degraded
          /\ Raises("recorder-failed")
          /\ cleared' \in Unrestored
          /\ UNCHANGED << fs, bare, inflight, cont >>
       \/ /\ Fails("replace")
          /\ cleared' \in Unrestored
          /\ UNCHANGED << fs, bare, inflight, cont, recording >>
       \/ /\ fs' = Published
          /\ bare' = bare \cup Parents \cup { op }
          /\ cleared' = cleared \cup ({ op } \cap ReadOnly)
          /\ \/ Fails("replace_late") /\ UNCHANGED << inflight, cont >>
             \/ /\ Goes("dress")
                /\ inflight' = FALSE
                /\ cont' = "published"
                /\ UNCHANGED faults
          /\ UNCHANGED recording
    /\ UNCHANGED << loopVars, attempt, live, pending, restore, fsFailed, status, reason, recorded,
                    result, envVars >>

\* The metadata of the displaced file and of the new one.
Dress ==
    /\ Works(Copying, "dress")
    /\ IF Kind[op] = "move_update" /\ fs[op].target # "new"
       THEN Raises("target-drift") /\ UNCHANGED << bare, cleared, faults >>
       ELSE \/ Fails("metadata") /\ UNCHANGED bare /\ cleared' \in { cleared, cleared \ { op } }
            \/ /\ Goes(IF Kind[op] = "move_update" THEN "retire" ELSE "record")
               /\ bare' = bare \ { op }
               /\ cleared' = cleared \ { op }
               /\ UNCHANGED faults
    /\ UNCHANGED << fs, loopVars, tryVars, bookVars, envVars >>

-----------------------------------------------------------------------------
(***************************************************************************)
(* The operations that relocate or remove.  The recorder is flushed before *)
(* each of them; a failure of the flush fails the operation.               *)
(***************************************************************************)
\* _flush_before_destructive raises.
FlushFails ==
    /\ Fault("flush")
    /\ Degraded
    /\ Raises("recorder-failed")

\* A conditional rename of op's file, which may raise before or after it acts.
Renames(from, to) ==
    \/ /\ fs[op][to] # "none"
       /\ Raises(IF to = "trash" THEN "trash-collision" ELSE "destination-occupied")
       /\ UNCHANGED << fs, recording, faults >>
    \/ FlushFails /\ UNCHANGED fs
    \/ Fails("rename") /\ UNCHANGED << fs, recording >>
    \/ /\ fs[op][to] = "none"
       /\ fs' = Moved(op, from, to)
       /\ Fails("rename_late") \/ (Goes("record") /\ UNCHANGED faults)
       /\ UNCHANGED recording

\* The last stage of _move_update.
Retire ==
    /\ Works({ "move_update" }, "retire")
    /\ \/ /\ fs[op].prior = "none"
          /\ IF fs[op].trash = "old" THEN Goes("record") ELSE Raises("target-missing")
          /\ UNCHANGED << fs, recording, faults >>
       \/ /\ fs[op].prior \notin { "none", "old" }
          /\ Raises("target-drift")
          /\ UNCHANGED << fs, recording, faults >>
       \/ /\ fs[op].prior = "old"
          /\ Renames("prior", "trash")
    /\ UNCHANGED << bare, cleared, loopVars, tryVars, pending, restore, fsFailed, status, reason,
                    recorded, result, envVars >>

\* The guards of the other operations.  Another program may still change a file
\* between its guard and the call that touches it.
Check ==
    /\ Works(OperationKind \ (Copying \cup { "mkdir" }), "check")
    /\ LET r == Drift(Guarded[Kind[op]])
       IN  IF r # "none" THEN Raises(r)
           ELSE Goes(CASE Kind[op] \in { "move", "recase", "trash" } -> "rename"
                       [] Kind[op] \in { "delete", "rmdir" }         -> "remove"
                       [] Kind[op] = "noop"                          -> "record")
    /\ UNCHANGED << diskVars, loopVars, tryVars, bookVars, envVars, faults >>

\* _move, _trash, and _recase, which renames a file to another spelling of its
\* own name: the old spelling still finds it.
Rename ==
    /\ Works({ "move", "recase", "trash" }, "rename")
    /\ CASE Kind[op] = "move"   -> Renames("prior", "target")
         [] Kind[op] = "trash"  -> Renames("target", "trash")
         [] Kind[op] = "recase" ->
               \/ FlushFails /\ UNCHANGED fs
               \/ Fails("rename") /\ UNCHANGED << fs, recording >>
               \/ /\ fs' = Put(op, "target", fs[op].prior)
                  /\ Fails("rename_late") \/ (Goes("record") /\ UNCHANGED faults)
                  /\ UNCHANGED recording
    /\ bare' = IF fs' = fs THEN bare ELSE bare \cup Parents
    /\ UNCHANGED << cleared, loopVars, tryVars, pending, restore, fsFailed, status, reason,
                    recorded, result, envVars >>

\* _delete of a file, and of a directory that this plan has emptied.
Remove ==
    /\ Works({ "delete", "rmdir" }, "remove")
    /\ \/ FlushFails /\ UNCHANGED << fs, cleared >>
       \/ /\ Fails("remove")
          /\ cleared' \in Unrestored
          /\ UNCHANGED << fs, recording >>
       \/ /\ fs' = Put(op, "target", "none")
          /\ cleared' = cleared \ { op }
          /\ Fails("remove_late") \/ (Goes("record") /\ UNCHANGED faults)
          /\ UNCHANGED recording
    /\ UNCHANGED << bare, loopVars, tryVars, pending, restore, fsFailed, status, reason, recorded,
                    result, envVars >>

\* The final stat, the recorder's command, whose failure only degrades the
\* recording, and the outcome.
Record ==
    /\ Works(OperationKind \ { "mkdir" }, "record")
    /\ \/ /\ Kind[op] \notin { "noop", "delete", "rmdir", "move_update" }
          /\ Fails("stat")
          /\ UNCHANGED << cont, live, recording, recorded, status, reason >>
       \/ /\ \/ recorded' = recorded \cup { op } /\ UNCHANGED << recording, faults >>
             \/ Fault("record") /\ Degraded /\ UNCHANGED recorded
          /\ Goes("next")
          /\ cont' = "none"
          /\ live' = "none"
          /\ IF Kind[op] = "noop" THEN _settle(op, "skipped", "noop")
                                  ELSE _settle(op, "succeeded", "none")
    /\ UNCHANGED << diskVars, loopVars, attempt, inflight, pending, restore, fsFailed, result,
                    envVars >>

-----------------------------------------------------------------------------
(***************************************************************************)
(* A failed attempt.                                                       *)
(***************************************************************************)
\* Mutant: one attempt too many.
RetriesOnceMore == why \in { "sharing-violation", "temp-shared" } /\ attempt <= MaxRetries + 1

Retries == why \in { "sharing-violation", "temp-shared" } /\ attempt <= MaxRetries

\* Mutant: the counter is set up again for every attempt.
FirstAttempt == 1

NextAttempt == attempt + 1

\* Mutant: a published file is taken for a finished one.
ReentrySkipping == IF cont = "none" THEN Entry[Kind[op]] ELSE "record"

\* Mutant: every operation starts again.
ReentryAtStart == Entry[Kind[op]]

Reentry ==
    CASE cont = "none"      -> Entry[Kind[op]]
      [] cont = "prepared"  -> "recheck"
      [] cont = "published" -> "dress"

\* A simple operation starts again without its temp; an update or a move-update
\* that has got further resumes at its continuation.
Retry ==
    /\ run = "executing"
    /\ stage = "caught"
    /\ Retries
    /\ \/ Unwinds /\ UNCHANGED << why, attempt >>
       \/ /\ request = "none"
          /\ attempt' = NextAttempt
          /\ Goes(Reentry)
          /\ IF cont = "none" THEN \E failed \in BOOLEAN : _cleanup_inflight(failed)
                              ELSE UNCHANGED << fs, inflight, faults >>
          /\ UNCHANGED << ending, cont, live >>
    /\ UNCHANGED << bare, cleared, run, pos, stop, bookVars, envVars >>

GiveUp ==
    /\ run = "executing"
    /\ stage = "caught"
    /\ ~ Retries
    /\ \E failed \in BOOLEAN :
          /\ _cleanup_inflight(failed)
          /\ _settle(op, "failed", IF failed \/ why = "temp-shared" THEN "cleanup-failed" ELSE why)
    /\ Goes("next")
    /\ cont' = "none"
    /\ live' = "none"
    /\ stop' = (stop \/ StopOnFailure)
    /\ UNCHANGED << bare, cleared, run, pos, ending, attempt, pending, restore, recording,
                    fsFailed, recorded, result, envVars >>

-----------------------------------------------------------------------------
(***************************************************************************)
(* The end of execute, however the loop ended.                             *)
(***************************************************************************)
LoopEnds ==
    /\ run = "executing"
    /\ stage = "next"
    /\ pos = Len(Plan)
    /\ stage' = "wrapup"
    /\ ending' = "finish"
    /\ UNCHANGED << diskVars, run, pos, stop, tryVars, why, bookVars, envVars, faults >>

\* One directory of _finalize_directories.
_finalize_directories ==
    /\ run = "executing"
    /\ stage = "wrapup"
    /\ \E d \in pending :
          /\ pending' = pending \ { d }
          /\ \/ /\ bare' = bare \ { d }
                /\ _settle(d, "succeeded", "none")
                /\ \/ recorded' = recorded \cup { d } /\ UNCHANGED << recording, faults >>
                   \/ Fault("record") /\ Degraded /\ UNCHANGED recorded
             \/ /\ Fault("metadata")
                /\ _settle(d, "failed", "io-error")
                /\ UNCHANGED << bare, recorded, recording >>
    /\ UNCHANGED << fs, cleared, loopVars, stage, tryVars, why, restore, fsFailed, result,
                    envVars >>

\* A directory made before a pause gets its metadata again, but not when the
\* run is canceled.
_restore_completed_directory_metadata ==
    /\ run = "executing"
    /\ stage = "wrapup"
    /\ pending = {}
    /\ ending # "cancel"
    /\ \E d \in restore :
          /\ restore' = restore \ { d }
          /\ \/ bare' = bare \ { d } /\ UNCHANGED << fsFailed, faults >>
             \/ Fault("metadata") /\ fsFailed' = TRUE /\ UNCHANGED bare
    /\ UNCHANGED << fs, cleared, loopVars, stage, tryVars, why, pending, recording, status,
                    reason, recorded, result, envVars >>

\* Mutant: the statuses are not looked at.
FailedDisk == fsFailed

Failed == fsFailed \/ \E o \in Ops : status[o] \in { "failed", "canceled", "deferred" }

\* execute returns, and the run is finished in the ledger.
Returns ==
    /\ run = "executing"
    /\ stage = "wrapup"
    /\ ending = "finish"
    /\ pending = {}
    /\ restore = {}
    /\ run' = "done"
    /\ \/ recording' = recording /\ UNCHANGED faults
       \/ Fault("flush") /\ Degraded
    /\ result' = [status |-> IF Failed THEN "failed" ELSE "completed", recording |-> recording']
    /\ UNCHANGED << diskVars, stage, pos, stop, ending, tryVars, why, pending, restore, fsFailed,
                    status, reason, recorded, envVars >>

\* Every operation that was not reached is canceled, and Canceled is raised
\* again: the result is made by run_session, which knows no recording.
Cancels ==
    /\ run = "executing"
    /\ stage = "wrapup"
    /\ ending = "cancel"
    /\ pending = {}
    /\ run' = "done"
    /\ status' = [o \in Ops |-> IF status[o] = "none" THEN "canceled" ELSE status[o]]
    /\ reason' = [o \in Ops |-> IF status[o] = "none" THEN "canceled" ELSE reason[o]]
    /\ \/ recording' = recording /\ UNCHANGED faults
       \/ Fault("flush") /\ Degraded
    /\ result' = [status |-> "canceled", recording |-> "ok"]
    /\ UNCHANGED << diskVars, stage, pos, stop, ending, tryVars, why, pending, restore, fsFailed,
                    recorded, envVars >>

\* PauseRequested is raised again; the statuses are kept in the payload.
Pauses ==
    /\ run = "executing"
    /\ stage = "wrapup"
    /\ ending = "pause"
    /\ pending = {}
    /\ restore = {}
    /\ run' = "paused"
    /\ UNCHANGED << diskVars, stage, pos, stop, ending, tryVars, why, bookVars, envVars, faults >>

-----------------------------------------------------------------------------
(***************************************************************************)
(* The session's controls, and other programs.                             *)
(***************************************************************************)
Control ==
    /\ \/ /\ run = "executing"
          /\ request = "none"
          /\ pauses < MaxPauses
          /\ request' = "pause"
          /\ pauses' = pauses + 1
          /\ UNCHANGED run
       \/ /\ run = "executing"
          /\ Cancelable
          /\ request' = "cancel"
          /\ UNCHANGED << pauses, run >>
       \/ /\ run = "paused"       \* resume
          /\ run' = "ready"
          /\ request' = "none"
          /\ UNCHANGED pauses
    /\ UNCHANGED << diskVars, pos, stop, ending, stage, tryVars, why, bookVars, drifts, meddled,
                    forgotten, faults >>

\* A source changes, or a foreign file takes the place of a target.
Meddle ==
    /\ run # "done"
    /\ drifts < MaxDrifts
    /\ drifts' = drifts + 1
    /\ \E o \in Ops :
          /\ meddled' = meddled \cup { o }
          /\ \/ fs[o].source = "new" /\ fs' = Put(o, "source", "drift")
             \/ fs[o].target \in { "none", "old" } /\ fs' = Put(o, "target", "foreign")
    /\ UNCHANGED << bare, cleared, loopVars, stage, tryVars, why, bookVars, request, pauses,
                    forgotten, faults >>

Execute ==
    \/ Start \/ Advance \/ _start_directory
    \/ Prepare \/ Stream \/ Prepared \/ Publish
    \/ Backup \/ copy_backup \/ Backed \/ Recheck \/ Replace \/ Dress
    \/ Retire \/ Rename \/ Check \/ Remove \/ Record
    \/ Retry \/ GiveUp
    \/ LoopEnds \/ _finalize_directories \/ _restore_completed_directory_metadata
    \/ Returns \/ Cancels \/ Pauses

Next == Execute \/ Control \/ Meddle

Spec == Init /\ [][Next]_vars

\* The worker thread goes on as long as it can.
FairSpec == Spec /\ WF_vars(Execute)

-----------------------------------------------------------------------------
(***************************************************************************)
(* Correctness.  What is on the disk in a state is what a crash there      *)
(* leaves behind, so the invariants on fs are claims about crashes too.    *)
(***************************************************************************)

\* Every variable keeps its type, an operation is attempted at most once more
\* than max_retries, and the ledger has only operations that were settled well.
TypeOK ==
    /\ fs \in [Ops -> [Place -> Content]]
    /\ { bare, cleared, pending, restore, recorded, meddled, forgotten } \subseteq SUBSET Ops
    /\ run \in { "ready", "executing", "paused", "done" }
    /\ pos \in 0 .. Len(Plan)
    /\ attempt \in 0 .. MaxRetries + 1
    /\ { stop, inflight, fsFailed } \subseteq BOOLEAN
    /\ cont \in { "none", "prepared", "published" }
    /\ live \in Content
    /\ ending \in { "finish", "cancel", "pause" }
    /\ status \in [Ops -> Outcome]
    /\ \A o \in recorded : status[o] \in { "succeeded", "skipped" }

\* No live path and no trash entry ever holds a partial copy, or bytes of a
\* source that changed while it was copied: _prepare_copy looks at the source
\* again, and only a complete temp or backup is renamed into place.  A backup
\* mixes two versions only if another program wrote to the target meanwhile.
PublishedWhole ==
    \A o \in Ops :
        /\ { fs[o].target, fs[o].trash } \cap { "part", "drift" } = {}
        /\ fs[o].target # "torn"
        /\ fs[o].trash = "torn" => o \in meddled

\* The version that an operation displaces is always somewhere: an update backs
\* it up before it replaces it and never leaves the live path empty, a
\* move-update publishes before it retires, trash and move only rename.
VersionsKept ==
    \A o \in Ops \ meddled :
        /\ \/ Kind[o] \in { "move", "recase", "move_update", "trash" }
           \/ Kind[o] = "update" /\ TrashOnUpdate
           => "old" \in { fs[o].target, fs[o].prior, fs[o].trash }
        /\ Kind[o] = "update" => fs[o].target \in { "old", "new" }

\* The effect that an operation promises is complete.
Applied(o) ==
    /\ fs[o].temp = "none"
    /\ o \notin cleared
    /\ Kind[o] # "mkdir" => o \notin bare
    /\ CASE Kind[o] = "copy"        -> fs[o].target = "new"
         [] Kind[o] = "update"      -> fs[o].target = "new" /\ (TrashOnUpdate => fs[o].trash = "old")
         [] Kind[o] = "move_update" -> /\ fs[o].target = "new"
                                       /\ fs[o].prior = "none"
                                       /\ fs[o].trash = "old"
         [] Kind[o] = "move"        -> fs[o].target = "old" /\ fs[o].prior = "none"
         [] Kind[o] = "recase"      -> fs[o].target = "old"
         [] Kind[o] = "trash"       -> fs[o].target = "none" /\ fs[o].trash = "old"
         [] Kind[o] \in { "delete", "rmdir" } -> fs[o].target = "none"
         [] Kind[o] = "mkdir"       -> fs[o].target = "dir"
         [] Kind[o] = "noop"        -> fs[o].target = "old"

\* A success that is reported is on the disk in full: published, with the
\* metadata of the new and of the displaced file, whatever calls raised before
\* or after they took effect and however many attempts it took.
SuccessIsReal ==
    \A o \in Ops \ meddled : status[o] \in { "succeeded", "skipped" } => Applied(o)

\* When execute has returned or unwound a cancel, every operation has its one
\* outcome, and "completed" means that everything was done and every directory
\* has its metadata, over all the pauses on the way.
ResultIsExact ==
    run = "done" /\ stage = "wrapup" =>
        /\ \A o \in Ops : status[o] # "none"
        /\ result.status = "completed" =>
               \A o \in Ops \ meddled : Applied(o) /\ o \notin bare

\* A run that says its recording is in order has every success in the ledger,
\* over all its pauses, and whatever the recorder refuses.  There are two ways
\* only in which it fails to say so: the result of a canceled run knows no
\* recording, and a resumed run forgets what was degraded before its pause.
RecordingTruthful ==
    run = "done" /\ result.status # "canceled" /\ result.recording = "ok" =>
        \A o \in Ops \ forgotten : status[o] = "succeeded" => o \in recorded

\* A paused or settled run leaves no temp of its own beside the targets.
TempsReclaimed ==
    run \in { "paused", "done" } => \A o \in Ops : fs[o].temp = "none"

\* A file that another program puts where the plan expects none is never
\* overwritten or moved, whenever it appears, and a file that it puts in the
\* place of one that is to be trashed ends up in the trash at worst.
ForeignKept ==
    [][\A o \in Ops : fs[o].target = "foreign" =>
          CASE Kind[o] \in { "copy", "move", "move_update", "mkdir" } -> fs'[o].target = "foreign"
            [] Kind[o] = "trash" -> "foreign" \in { fs'[o].target, fs'[o].trash }
            [] OTHER -> TRUE]_vars

\* The target of an update is no longer the version that was backed up: it has
\* changed since, and before the last guard or while a retry is due.
ChangedSince(o) ==
    /\ stage \in { "caught", "recheck" }
    /\ op = o
    /\ cont = "prepared"
    /\ fs[o].target = "foreign"
    /\ live # "foreign"

\* What another program has put in the place of a file that an update has backed
\* up but not replaced yet stays there for good: a retry that resumes at its
\* continuation looks at the target again, and so does a resume.
LateChangeKept == \A o \in Ops : [](ChangedSince(o) => [](fs[o].target = "foreign"))

\* An operation whose files nobody else touched never fails with the drift, the
\* occupancy or the trash collision that its own earlier attempt caused.
NoSelfCollision ==
    \A o \in Ops \ meddled :
        reason[o] \notin { "source-drift", "target-drift", "target-missing",
                           "destination-occupied", "trash-collision" }

\* A run comes to an end or to a pause, whatever is locked and for how long.
Terminates == run = "executing" ~> run \in { "paused", "done" }

-----------------------------------------------------------------------------
(***************************************************************************)
(* Promises of the documentation that the code does not keep in every      *)
(* behaviour.  The README describes the behaviours that break them.        *)
(***************************************************************************)
\* A paused run whose files nobody touched is not refused when it is resumed.
ResumeContinues == meddled = {} => result.status # "refused"

\* A directory that is reported as made has the metadata of its source when the
\* run is over.
DirectoriesDressed ==
    run = "done" => \A o \in Ops : Kind[o] = "mkdir" /\ status[o] = "succeeded" => o \notin bare

\* The version that an update is about to replace is the one that was reviewed:
\* a change of the target that comes before the last guard is found by it.
ReviewedIsReplaced == stage = "replace" => live = "old"
=============================================================================
