-------------------------- MODULE ExecutorOutcomes --------------------------
(***************************************************************************)
(* More proofs about Executor, on top of the invariant of ExecutorProofs:  *)
(* what its result says, what is left of its temps, what is in the ledger, *)
(* the files of other programs, and what a retry meets.                    *)
(***************************************************************************)
EXTENDS ExecutorProofs

\* The steps that work on the operation in hand and do not settle it.
Works_on ==
    \/ Prepare \/ Stream \/ Prepared \/ Publish
    \/ Backup \/ copy_backup \/ Backed \/ Recheck \/ Replace
    \/ Dress \/ Retire \/ Rename \/ Check \/ Remove \/ Retry

LEMMA WorkStep ==
    ASSUME IInv, Works_on
    PROVE  /\ Working /\ Stays
           /\ stage' \in Stage \ { "next" }
           /\ IF stage' = "wrapup" THEN ending' = request /\ request # "none" ELSE ending' = ending
           /\ recording' \in { recording, "degraded" }
           /\ UNCHANGED << result, pauses >>
<1> USE DEF Working, Works, Stays, Stage, diskVars, loopVars, tryVars, bookVars, envVars, Goes, Raises, Fails, Degraded, FlushFails, Unwinds
<1>1. CASE Prepare
  BY <1>1 DEF Prepare
<1>2. CASE Stream
  BY <1>2 DEF Stream
<1>3. CASE Prepared
  BY <1>3 DEF Prepared
<1>4. CASE Publish
  BY <1>4 DEF Publish
<1>5. CASE Backup
  BY <1>5 DEF Backup
<1>6. CASE Recheck
  BY <1>6 DEF Recheck
<1>7. CASE Replace
  BY <1>7 DEF Replace
<1>8. CASE Dress
  BY <1>8 DEF Dress
<1>9. CASE Retire
  BY <1>9 DEF Retire, Renames
<1>10. CASE Rename
  <2>1. Kind[op] \in { "move", "recase", "trash" }
    BY <1>10 DEF Rename
  <2>2. CASE Kind[op] = "move"
    BY <1>10, <2>2 DEF Rename, Renames
  <2>3. CASE Kind[op] = "trash"
    BY <1>10, <2>3 DEF Rename, Renames
  <2>4. CASE Kind[op] = "recase"
    BY <1>10, <2>4 DEF Rename
  <2> QED
    BY <2>1, <2>2, <2>3, <2>4
<1>11. CASE Check
  <2>1. Kind[op] \in { "move", "recase", "trash", "delete", "rmdir", "noop" }
    <3>1. op \in Ops
      BY <1>11, WorkingOp DEF Check
    <3> QED
      BY <1>11, <3>1, PlanAssumption DEF Check, OperationKind, Copying
  <2> QED
    BY <1>11, <2>1 DEF Check
<1>12. CASE Remove
  BY <1>12 DEF Remove
<1>13. CASE Retry
  <2>1. op \in Ops /\ Typed
    BY <1>13, WorkingOp, IsTyped DEF Retry
  <2>2. Entry[Kind[op]] \in { "prepare", "check", "mkdir" }
    BY <2>1, Entries
  <2>3. Reentry \in { "prepare", "check", "mkdir", "recheck", "dress" }
    BY <2>1, <2>2 DEF Reentry, Typed
  <2> QED
    BY <1>13, <2>3 DEF Retry
<1>14. CASE copy_backup
  BY <1>14 DEF copy_backup
<1>15. CASE Backed
  BY <1>15 DEF Backed
<1> QED
  BY <1>1, <1>2, <1>3, <1>4, <1>5, <1>6, <1>7, <1>8, <1>9, <1>10, <1>11, <1>12, <1>13, <1>14,
     <1>15 DEF Works_on

-----------------------------------------------------------------------------
(***************************************************************************)
(* The result.                                                             *)
(***************************************************************************)
\* Every operation that the loop has passed has an outcome or is a directory
\* that waits for the end.  A directory whose metadata a later operation may
\* have disturbed is on the list of those to be restored.
Reached ==
    /\ run = "executing" /\ stage # "wrapup" =>
          /\ \A i \in DOMAIN Plan :
                i < pos \/ (i = pos /\ ~ Working) => status[Plan[i]] # "none" \/ Plan[i] \in pending
          /\ \A d \in Ops : Kind[d] = "mkdir" /\ status[d] = "succeeded" => d \in restore
    /\ run = "executing" /\ stage = "wrapup" /\ ending # "cancel" =>
          \A d \in Ops : Kind[d] = "mkdir" /\ status[d] = "succeeded" /\ d \in bare =>
                            d \in restore \/ fsFailed
    /\ run = "executing" /\ stage = "wrapup" /\ ending = "finish" =>
          \A o \in Ops : status[o] # "none" \/ o \in pending
    /\ run = "done" /\ stage = "wrapup" =>
          /\ \A o \in Ops : status[o] # "none"
          /\ result.status = "completed" =>
                \A o \in Ops : /\ status[o] \in { "succeeded", "skipped" }
                               /\ Kind[o] = "mkdir" => o \notin bare

LEMMA ReachedKept ==
    ASSUME IInv, Reached, Next
    PROVE  Reached'
<1>0. status \in [Ops -> Outcome] /\ pending \subseteq Ops /\ request \in { "none", "pause", "cancel" }
  BY DEF IInv, TypeOK, Booked
<1>1. CASE Works_on
  BY <1>1, WorkStep DEF Reached, Working, Stays, IInv, Booked
<1>2. CASE Start
  <2>1. /\ UNCHANGED << status >> /\ stage' = "next" /\ pos' = 0
        /\ run' = "done" \/ restore' = { o \in Ops : Kind[o] = "mkdir" /\ status[o] = "succeeded" }
    BY <1>2 DEF Start
  <2> QED
    BY <2>1, PlanAssumption DEF Reached
<1>3. CASE Advance
  <2> DEFINE o == Plan[pos + 1]
  <2>1. /\ run' = run /\ run = "executing" /\ stage = "next" /\ pos' = pos + 1 /\ pos \in Nat
        /\ pos + 1 \in DOMAIN Plan /\ o \in Ops /\ UNCHANGED << bare, pending, restore, fsFailed >>
    BY <1>3, PlanAssumption DEF Advance, IInv, TypeOK, Ops, diskVars
  <2>2. \A i \in DOMAIN Plan : i <= pos => status[Plan[i]] # "none" \/ Plan[i] \in pending
    BY <2>1, PlanAssumption DEF Reached, Working
  <2>3. \A d \in Ops : Kind[d] = "mkdir" /\ status[d] = "succeeded" => d \in restore
    BY <2>1 DEF Reached
  <2>4. CASE status[o] # "none" /\ UNCHANGED << stage, status >>
    BY <2>1, <2>2, <2>3, <2>4, PlanAssumption DEF Reached, Working
  <2>5. CASE stage' = "wrapup" /\ ending' = request /\ request # "none" /\ UNCHANGED status
    BY <1>0, <2>1, <2>3, <2>5 DEF Reached
  <2>6. CASE /\ UNCHANGED stage
             /\ \E r \in { "canceled", "deferred" } : status' = [status EXCEPT ![o] = r]
    <3>1. \A d \in Ops : status'[d] = status[d] \/ (d = o /\ status'[d] \in { "canceled", "deferred" })
      BY <1>0, <2>1, <2>6
    <3>2. \A i \in DOMAIN Plan : i <= pos' => status'[Plan[i]] # "none" \/ Plan[i] \in pending
      <4>1. SUFFICES ASSUME NEW i \in DOMAIN Plan, i <= pos + 1
                     PROVE  status'[Plan[i]] # "none" \/ Plan[i] \in pending
        BY <2>1
      <4>2. CASE i = pos + 1
        BY <1>0, <2>1, <2>6, <4>2
      <4>3. CASE i # pos + 1
        <5>1. i <= pos /\ Plan[i] \in Ops
          BY <2>1, <4>1, <4>3, PlanAssumption DEF Ops
        <5> QED
          BY <2>2, <3>1, <5>1
      <4> QED
        BY <4>2, <4>3
    <3> QED
      BY <2>1, <2>3, <2>6, <3>1, <3>2, PlanAssumption DEF Reached, Working
  <2>7. CASE stage' = Entry[Kind[o]] /\ UNCHANGED status
    <3>1. stage' \in { "prepare", "check", "mkdir" }
      BY <2>1, <2>7, Entries
    <3> QED
      BY <2>1, <2>2, <2>3, <2>7, <3>1, PlanAssumption DEF Reached, Working
  <2> QED
    BY <1>3, <2>4, <2>5, <2>6, <2>7 DEF Advance, _settle
<1>4. CASE _start_directory \/ Record \/ GiveUp
  <2>1. /\ Working /\ run' = run /\ pos' = pos /\ UNCHANGED << restore, meddled >>
        /\ stage' \in { "next", "caught" }
    BY <1>4 DEF _start_directory, Record, GiveUp, Works, Working, loopVars, envVars, Goes, Fails, Raises
  <2>2. op \in Ops /\ pos \in DOMAIN Plan /\ run = "executing" /\ Plan[pos] = op
    BY <2>1, WorkingOp DEF op
  <2>3. /\ \A o \in Ops \ { op } : status'[o] = status[o]
        /\ pending' \in { pending, pending \cup { op } }
        /\ stage' = "next" => status'[op] # "none" \/ op \in pending'
        /\ stage' = "caught" => status' = status
        /\ Kind[op] = "mkdir" => status'[op] # "succeeded"
    <3>1. CASE _start_directory
      BY <1>0, <2>1, <2>2, <3>1 DEF _start_directory, _settle, Goes, IInv, Booked, Working
    <3>2. CASE Record
      BY <1>0, <2>1, <2>2, <3>2 DEF Record, Works, _settle, Goes, Fails, Raises, IInv, Booked, Working
    <3>3. CASE GiveUp
      BY <1>0, <2>2, <3>3 DEF GiveUp, _settle, Goes
    <3> QED
      BY <1>4, <3>1, <3>2, <3>3
  <2>4. \A d \in Ops : Kind[d] = "mkdir" /\ status'[d] = "succeeded" => d \in restore
    BY <2>1, <2>2, <2>3 DEF Reached, Working
  <2>5. \A i \in DOMAIN Plan : i < pos => status[Plan[i]] # "none" \/ Plan[i] \in pending
    BY <2>1, <2>2 DEF Reached, Working
  <2>6. \A i \in DOMAIN Plan :
           i < pos \/ (i = pos /\ stage' = "next") => status'[Plan[i]] # "none" \/ Plan[i] \in pending'
    <3>1. \A i \in DOMAIN Plan : i < pos => Plan[i] \in Ops \ { op }
      BY <2>2, PlanAssumption DEF Ops
    <3> QED
      BY <2>2, <2>3, <2>5, <3>1
  <2> QED
    BY <2>1, <2>2, <2>4, <2>6 DEF Reached, Working
<1>5. CASE LoopEnds
  <2>1. /\ run = "executing" /\ stage = "next" /\ pos = Len(Plan) /\ stage' = "wrapup"
        /\ UNCHANGED << run, bare, pending, restore, fsFailed, status >>
    BY <1>5 DEF LoopEnds, diskVars, bookVars
  <2>2. \A o \in Ops : status[o] # "none" \/ o \in pending
    <3>1. \A i \in DOMAIN Plan : status[Plan[i]] # "none" \/ Plan[i] \in pending
      BY <2>1, PlanAssumption DEF Reached, Working
    <3> QED
      BY <3>1, PlaceOfPlan
  <2> QED
    BY <2>1, <2>2 DEF Reached
<1>6. CASE _finalize_directories
  <2>1. stage' = "wrapup" /\ stage = "wrapup" /\ run = "executing" /\ UNCHANGED << run, ending, restore, fsFailed >>
    BY <1>6 DEF _finalize_directories, loopVars
  <2>2. PICK d \in pending :
           /\ pending' = pending \ { d }
           /\ \/ bare' = bare \ { d } /\ status' = [status EXCEPT ![d] = "succeeded"]
              \/ bare' = bare /\ status' = [status EXCEPT ![d] = "failed"]
    BY <1>6 DEF _finalize_directories, _settle
  <2> QED
    BY <1>0, <2>1, <2>2 DEF Reached
<1>7. CASE _restore_completed_directory_metadata
  <2>1. /\ stage' = "wrapup" /\ stage = "wrapup" /\ run = "executing"
        /\ UNCHANGED << run, ending, status, pending >>
    BY <1>7 DEF _restore_completed_directory_metadata, loopVars
  <2>2. PICK d \in restore :
           /\ restore' = restore \ { d }
           /\ (bare' = bare \ { d } /\ fsFailed' = fsFailed) \/ (bare' = bare /\ fsFailed' = TRUE)
    BY <1>7 DEF _restore_completed_directory_metadata
  <2> QED
    BY <2>1, <2>2 DEF Reached
<1>8. CASE Returns
  <2>1. /\ run = "executing" /\ stage = "wrapup" /\ ending = "finish" /\ pending = {} /\ restore = {}
        /\ run' = "done" /\ UNCHANGED << bare, status >>
        /\ result'.status = IF Failed THEN "failed" ELSE "completed"
    BY <1>8 DEF Returns, diskVars
  <2>2. \A o \in Ops : status[o] # "none"
    BY <2>1 DEF Reached
  <2>3. ~ Failed => \A o \in Ops : status[o] \in { "succeeded", "skipped" }
    BY <1>0, <2>2 DEF Failed, Outcome
  <2>4. ~ Failed => \A o \in Ops : Kind[o] = "mkdir" => o \notin bare
    <3> SUFFICES ASSUME ~ Failed, NEW o \in Ops, Kind[o] = "mkdir" PROVE o \notin bare
      OBVIOUS
    <3>1. status[o] = "succeeded"
      BY <2>3 DEF IInv, OpInv, Done
    <3> QED
      BY <2>1, <3>1 DEF Reached, Failed
  <2> QED
    BY <2>1, <2>2, <2>3, <2>4 DEF Reached
<1>9. CASE Cancels
  <2>1. /\ run' = "done" /\ result'.status = "canceled"
        /\ status' = [o \in Ops |-> IF status[o] = "none" THEN "canceled" ELSE status[o]]
    BY <1>9 DEF Cancels
  <2> QED
    BY <2>1 DEF Reached
<1>10. CASE Pauses
  BY <1>10 DEF Pauses, Reached
<1>11. CASE Control
  <2>1. /\ UNCHANGED << pos, ending, stage, bare, pending, restore, fsFailed, status, result >>
        /\ run' = run \/ run' = "ready"
    BY <1>11 DEF Control, diskVars, bookVars
  <2> QED
    BY <2>1 DEF Reached, Working
<1>12. CASE Meddle
  <2>1. UNCHANGED << run, pos, ending, stage, bare, pending, restore, fsFailed, status, result >>
    BY <1>12 DEF Meddle, loopVars, bookVars
  <2> QED
    BY <2>1 DEF Reached, Working
<1> QED
  BY <1>1, <1>2, <1>3, <1>4, <1>5, <1>6, <1>7, <1>8, <1>9, <1>10, <1>11, <1>12
     DEF Next, Execute, Works_on

LEMMA ReachedHolds == Spec => []Reached
<1>1. Init => Reached
  BY DEF Init, Reached
<1>2. Reached /\ UNCHANGED vars => Reached'
  BY DEF Reached, Working, vars, diskVars, loopVars, bookVars
<1>3. IInv /\ Reached /\ [Next]_vars => Reached'
  BY <1>2, ReachedKept
<1> QED
  BY <1>1, <1>3, Invariance, PTL DEF Spec

\* A run that has returned or unwound a cancel has given every operation its
\* outcome, and when it says "completed" everything is on the disk and every
\* directory has its metadata, however often it was paused and resumed.
THEOREM ResultOnDisk == Spec => []ResultIsExact
<1>1. IInv /\ Reached => ResultIsExact
  <2> SUFFICES ASSUME IInv, Reached, run = "done", stage = "wrapup",
                      result.status = "completed", NEW o \in Ops, o \notin meddled
               PROVE  Applied(o) /\ o \notin bare
    BY DEF ResultIsExact, Reached
  <2>1. status[o] \in { "succeeded", "skipped" } /\ (Kind[o] = "mkdir" => o \notin bare)
    BY DEF Reached
  <2>2. Applied(o)
    BY <2>1 DEF IInv, OpInv, Done
  <2> QED
    BY <2>1, <2>2 DEF Applied
<1> QED
  BY <1>1, ReachedHolds, Invariance, PTL

-----------------------------------------------------------------------------
(***************************************************************************)
(* The disk.  Every step is one of a few writes, to one operation's files. *)
(***************************************************************************)
Writes ==
    \/ \E v \in Content : fs' = Put(op, "temp", v)
    \/ fs' = Put(op, "spare", "part")
    \/ Kind[op] = "update" /\ \E v \in Content : fs' = Put(op, "trash", v) \/ fs' = BackedUp(v)
    \/ (Kind[op] = "update" \/ fs[op].target = "none") /\ fs' = Published
    \/ Kind[op] = "mkdir" /\ fs[op].target = "none" /\ fs' = Put(op, "target", "dir")
    \/ Kind[op] = "move" /\ fs[op].target = "none" /\ fs' = Moved(op, "prior", "target")
    \/ Kind[op] = "trash" /\ fs' = Moved(op, "target", "trash")
    \/ Kind[op] = "move_update" /\ fs' = Moved(op, "prior", "trash")
    \/ Kind[op] = "recase" /\ fs' = Put(op, "target", fs[op].prior)
    \/ Kind[op] \in { "delete", "rmdir" } /\ fs' = Put(op, "target", "none")

LEMMA ExecuteWrites ==
    ASSUME IInv, Execute
    PROVE  fs' = fs \/ (op \in Ops /\ Writes)
<1>1. CASE ~ Working
  BY <1>1 DEF Execute, Start, Advance, _start_directory, Prepare, Stream, Prepared, Publish, Backup,
     copy_backup, Backed, Recheck, Replace, Dress, Retire, Rename, Check, Remove, Record, Retry, GiveUp, LoopEnds,
     _finalize_directories, _restore_completed_directory_metadata, Returns, Cancels, Pauses,
     Works, Working, diskVars
<1>2. CASE Working
  <2> USE <1>2
  <2>1. op \in Ops /\ Typed
    BY WorkingOp, IsTyped
  <2>2. \A failed \in BOOLEAN : _cleanup_inflight(failed) => fs' = fs \/ fs' = Put(op, "temp", "none")
    BY DEF _cleanup_inflight
  <2>3. CASE _start_directory
    BY <2>1, <2>3, MkdirGuarded DEF _start_directory, Works, Writes
  <2>4. CASE Prepare
    BY <2>1, <2>4 DEF Prepare, Writes, Content
  <2>5. CASE Stream
    <3>1. fs[op].source \in Content
      BY <2>1 DEF Typed, Disk, Place
    <3> QED
      BY <2>1, <2>2, <2>5, <3>1 DEF Stream, Unwinds, Writes, Content
  <2>6. CASE Prepared
    BY <2>1, <2>2, <2>6 DEF Prepared, Unwinds, Writes, Content
  <2>7. CASE Publish
    BY <2>1, <2>7 DEF Publish, Writes
  <2>8. CASE Backup
    <3>1. fs[op].target \in Content
      BY <2>1 DEF Typed, Disk, Place
    <3> QED
      BY <2>1, <2>8, <3>1 DEF Backup, Works, Writes
  <2>9. CASE Replace
    BY <2>1, <2>9 DEF Replace, Works, Writes
  <2>10. CASE Backed \/ Recheck \/ Dress \/ Check \/ Record
    BY <2>10 DEF Backed, Recheck, Dress, Check, Record, diskVars
  <2>11. CASE Retire
    BY <2>1, <2>11 DEF Retire, Works, Renames, Writes
  <2>12. CASE Rename
    <3>1. CASE Kind[op] = "move"
      BY <2>1, <2>12, <3>1 DEF Rename, Renames, Writes
    <3>2. CASE Kind[op] = "trash"
      BY <2>1, <2>12, <3>2 DEF Rename, Renames, Writes
    <3>3. CASE Kind[op] = "recase"
      BY <2>1, <2>12, <3>3 DEF Rename, Writes
    <3> QED
      BY <2>12, <3>1, <3>2, <3>3 DEF Rename, Works
  <2>13. CASE Remove
    BY <2>1, <2>13 DEF Remove, Works, Writes
  <2>14. CASE Retry \/ GiveUp
    BY <2>1, <2>2, <2>14 DEF Retry, GiveUp, Unwinds, Writes, Content
  <2>15. CASE Start \/ Advance \/ LoopEnds \/ _finalize_directories
              \/ _restore_completed_directory_metadata \/ Returns \/ Cancels \/ Pauses
    BY <2>15 DEF Start, Advance, LoopEnds, _finalize_directories,
       _restore_completed_directory_metadata, Returns, Cancels, Pauses, diskVars
  <2>16. CASE copy_backup
    BY <2>1, <2>2, <2>16 DEF copy_backup, Works, Unwinds, Writes, Content, Typed
  <2> QED
    BY <2>3, <2>4, <2>5, <2>6, <2>7, <2>8, <2>9, <2>10, <2>11, <2>12, <2>13, <2>14, <2>15, <2>16
       DEF Execute
<1> QED
  BY <1>1, <1>2

LEMMA DiskStep ==
    ASSUME IInv, Next
    PROVE  \/ fs' = fs
           \/ Meddle
           \/ op \in Ops /\ Writes
<1>1. CASE Control
  BY <1>1 DEF Control, diskVars
<1> QED
  BY <1>1, ExecuteWrites DEF Next

\* A write leaves the files of the other operations alone, the source, and a
\* foreign target of the kinds that expect none.
LEMMA WriteSpares ==
    ASSUME IInv, op \in Ops, Writes
    PROVE  /\ \A x \in Ops \ { op } : fs'[x] = fs[x]
           /\ fs'[op].source = fs[op].source
           /\ fs[op].target = "foreign" =>
                 /\ Kind[op] \in { "copy", "move", "move_update", "mkdir" } => fs'[op].target = "foreign"
                 /\ Kind[op] = "trash" => "foreign" \in { fs'[op].target, fs'[op].trash }
<1>1. fs \in Disk /\ fs[op].prior \in Content
  BY IsTyped DEF Typed, Disk, Place
<1>2. CASE \E v \in Content : fs' = Put(op, "temp", v)
  BY <1>1, <1>2, PutIs DEF Place
<1>3. CASE fs' = Put(op, "spare", "part")
  BY <1>1, <1>3, PutIs DEF Place, Content
<1>4. CASE Kind[op] = "update" /\ \E v \in Content : fs' = Put(op, "trash", v)
  BY <1>1, <1>4, PutIs DEF Place
<1>5. CASE Kind[op] = "update" /\ \E v \in Content : fs' = BackedUp(v)
  BY <1>1, <1>5, BackedUpIs
<1>6. CASE (Kind[op] = "update" \/ fs[op].target = "none") /\ fs' = Published
  BY <1>1, <1>6, MovedIs DEF Published, Place
<1>7. CASE Kind[op] = "mkdir" /\ fs[op].target = "none" /\ fs' = Put(op, "target", "dir")
  BY <1>1, <1>7, PutIs DEF Place, Content
<1>8. CASE Kind[op] = "move" /\ fs[op].target = "none" /\ fs' = Moved(op, "prior", "target")
  BY <1>1, <1>8, MovedIs DEF Place
<1>9. CASE Kind[op] = "trash" /\ fs' = Moved(op, "target", "trash")
  BY <1>1, <1>9, MovedIs DEF Place
<1>10. CASE Kind[op] = "move_update" /\ fs' = Moved(op, "prior", "trash")
  BY <1>1, <1>10, MovedIs DEF Place
<1>11. CASE Kind[op] = "recase" /\ fs' = Put(op, "target", fs[op].prior)
  BY <1>1, <1>11, PutIs DEF Place
<1>12. CASE Kind[op] \in { "delete", "rmdir" } /\ fs' = Put(op, "target", "none")
  BY <1>1, <1>12, PutIs DEF Place, Content
<1> QED
  BY <1>2, <1>3, <1>4, <1>5, <1>6, <1>7, <1>8, <1>9, <1>10, <1>11, <1>12 DEF Writes

LEMMA MeddleSpares ==
    ASSUME IInv, Meddle, NEW o \in Ops
    PROVE  /\ fs'[o].temp = fs[o].temp
           /\ fs[o].target = "foreign" => fs'[o].target = "foreign"
<1>1. fs \in Disk
  BY IsTyped DEF Typed
<1>2. PICK x \in Ops : \/ fs' = Put(x, "source", "drift")
                       \/ fs[x].target \in { "none", "old" } /\ fs' = Put(x, "target", "foreign")
  BY DEF Meddle
<1>3. CASE fs' = Put(x, "source", "drift")
  BY <1>1, <1>3, PutIs DEF Place, Content
<1>4. CASE fs' = Put(x, "target", "foreign")
  BY <1>1, <1>4, PutIs DEF Place, Content
<1> QED
  BY <1>2, <1>3, <1>4

\* A file that another program puts where the plan expects none survives every
\* step of the executor: the renames of _copy, _move and _move_update never
\* replace, and _trash moves the file that it finds.
THEOREM ForeignSurvives == Spec => ForeignKept
<1>1. IInv /\ [Next]_vars =>
         [\A o \in Ops : fs[o].target = "foreign" =>
             CASE Kind[o] \in { "copy", "move", "move_update", "mkdir" } -> fs'[o].target = "foreign"
               [] Kind[o] = "trash" -> "foreign" \in { fs'[o].target, fs'[o].trash }
               [] OTHER -> TRUE]_vars
  <2> SUFFICES ASSUME IInv, Next, NEW o \in Ops, fs[o].target = "foreign"
               PROVE  /\ Kind[o] \in { "copy", "move", "move_update", "mkdir" } => fs'[o].target = "foreign"
                      /\ Kind[o] = "trash" => "foreign" \in { fs'[o].target, fs'[o].trash }
    OBVIOUS
  <2>1. CASE fs' = fs
    BY <2>1
  <2>2. CASE Meddle
    BY <2>2, MeddleSpares
  <2>3. CASE op \in Ops /\ Writes
    BY <2>3, WriteSpares
  <2> QED
    BY <2>1, <2>2, <2>3, DiskStep
<1> QED
  BY <1>1, Invariance, PTL DEF Spec, ForeignKept

\* Another program has put its file in the place of the one that update o was
\* to replace, and the attempt that may be in hand does not take it for that.
Noticed(o) ==
    /\ Kind[o] = "update"
    /\ fs[o].target = "foreign"
    /\ Working /\ op = o =>
          \/ stage \in { "prepare", "caught" } /\ cont = "none"
          \/ stage \in { "recheck", "caught" } /\ cont = "prepared" /\ live # "foreign"

LEMMA NoticedKept ==
    ASSUME IInv, Next, NEW o \in Ops, Noticed(o)
    PROVE  Noticed(o)'
<1>1. CASE Meddle
  <2>1. UNCHANGED << pos, stage, cont, live >> /\ op' = op
    BY <1>1 DEF Meddle, loopVars, tryVars, op
  <2> QED
    BY <1>1, <2>1, MeddleSpares DEF Noticed, Working
<1>2. CASE Control
  <2>1. UNCHANGED << fs, pos, stage, cont, live >> /\ op' = op
    BY <1>2 DEF Control, diskVars, tryVars, op
  <2> QED
    BY <2>1 DEF Noticed, Working
<1>3. CASE Execute /\ ~ Working
  <2>1. fs' = fs /\ cont = "none"
    BY <1>3 DEF Execute, Start, Advance, _start_directory, Prepare, Stream, Prepared, Publish, Backup,
     copy_backup, Backed, Recheck, Replace, Dress, Retire, Rename, Check, Remove, Record, Retry,
     GiveUp, LoopEnds, _finalize_directories, _restore_completed_directory_metadata, Returns,
     Cancels, Pauses, Works, Working, diskVars, IInv, InHand, ContInHand, TypeOK
  <2>2. CASE Advance
    <3>1. op' = Plan[pos + 1] /\ cont' = cont
      BY <2>2 DEF Advance, op
    <3>2. op' = o /\ Working' => stage' = "prepare"
      BY <1>3, <2>2, <3>1 DEF Advance, Noticed, Entry, Working
    <3> QED
      BY <2>1, <3>1, <3>2 DEF Noticed
  <2>3. CASE ~ Advance
    <3>1. ~ Working'
      BY <1>3, <2>3 DEF Execute, Start, _start_directory, Prepare, Stream, Prepared, Publish, Backup,
       copy_backup, Backed, Recheck, Replace, Dress, Retire, Rename, Check, Remove, Record, Retry,
       GiveUp, LoopEnds, _finalize_directories, _restore_completed_directory_metadata, Returns,
       Cancels, Pauses, Works, Working
    <3> QED
      BY <2>1, <3>1 DEF Noticed
  <2> QED
    BY <2>2, <2>3
<1>4. CASE Execute /\ Working
  <2>1. op \in Ops /\ op' = op
    <3>1. pos' = pos
      BY <1>4 DEF Execute, Start, Advance, _start_directory, Prepare, Stream, Prepared, Publish,
       Backup, copy_backup, Backed, Recheck, Replace, Dress, Retire, Rename, Check, Remove, Record,
       Retry, GiveUp, LoopEnds, _finalize_directories, _restore_completed_directory_metadata,
       Returns, Cancels, Pauses, Works, Working, loopVars, IInv, Booked
    <3> QED
      BY <1>4, <3>1, WorkingOp DEF op
  <2>2. CASE op # o
    <3>1. fs'[o] = fs[o]
      BY <1>4, <2>1, <2>2, ExecuteWrites, WriteSpares
    <3> QED
      BY <2>1, <2>2, <3>1 DEF Noticed
\* The guards of a first attempt find it, and those of a continuation.
  <2>3. CASE op = o /\ stage = "prepare" /\ cont = "none"
    <3>1. Prepare
      BY <1>4, <2>3 DEF Execute, Start, Advance, _start_directory, Prepare, Stream, Prepared, Publish,
       Backup, copy_backup, Backed, Recheck, Replace, Dress, Retire, Rename, Check, Remove, Record,
       Retry, GiveUp, LoopEnds, _finalize_directories, _restore_completed_directory_metadata,
       Returns, Cancels, Pauses, Works, IInv, Booked
    <3>2. Drift(Guarded[Kind[op]]) # "none"
      <4>1. Guarded[Kind[op]] = << "source", "target" >> /\ Kind[op] \in Copying
        BY <2>3 DEF Noticed, Guarded, Copying
      <4> QED
        BY <2>1, <2>3, <4>1, PairGuarded DEF Noticed
    <3>3. fs' = fs /\ stage' = "caught" /\ cont' = cont
      BY <3>1, <3>2 DEF Prepare, Raises
    <3> QED
      BY <2>1, <2>3, <3>3 DEF Noticed
  <2>4. CASE op = o /\ stage = "recheck"
    <3>1. Recheck /\ cont = "prepared" /\ live # "foreign"
      BY <1>4, <2>4 DEF Noticed, Execute, Start, Advance, _start_directory, Prepare, Stream, Prepared,
       Publish, Backup, copy_backup, Backed, Recheck, Replace, Dress, Retire, Rename, Check, Remove,
       Record, Retry, GiveUp, LoopEnds, _finalize_directories,
       _restore_completed_directory_metadata, Returns, Cancels, Pauses, Works, IInv, Booked
    <3>2. UNCHANGED << fs, cont, live >> /\ stage' = "caught"
      BY <2>4, <3>1 DEF Recheck, Raises, Goes, Noticed, diskVars
    <3> QED
      BY <2>1, <2>4, <3>1, <3>2 DEF Noticed
  <2>5. CASE op = o /\ stage = "caught"
    <3>1. Retry \/ GiveUp
      BY <1>4, <2>5 DEF Execute, Start, Advance, _start_directory, Prepare, Stream, Prepared, Publish,
       Backup, copy_backup, Backed, Recheck, Replace, Dress, Retire, Rename, Check, Remove, Record,
       Retry, GiveUp, LoopEnds, _finalize_directories, _restore_completed_directory_metadata,
       Returns, Cancels, Pauses, Works, IInv, Booked
    <3>2. fs'[o].target = fs[o].target
      <4>1. fs' = fs \/ \E failed \in BOOLEAN : _cleanup_inflight(failed)
        BY <3>1 DEF Retry, GiveUp, Unwinds
      <4> QED
        BY <2>1, <2>5, <4>1, CleanedUp
    <3>3. CASE GiveUp \/ Unwinds
      <4>1. ~ Working'
        BY <3>3 DEF GiveUp, Unwinds, Goes, Working
      <4> QED
        BY <3>2, <4>1 DEF Noticed
    <3>4. CASE stage' = Reentry /\ UNCHANGED << cont, live >>
      <4>1. IF cont = "none" THEN stage' = "prepare" ELSE stage' = "recheck"
        BY <2>5, <3>4 DEF Noticed, Reentry, Entry, Working
      <4> QED
        BY <2>1, <2>5, <3>2, <3>4, <4>1 DEF Noticed, Working
    <3> QED
      BY <3>1, <3>3, <3>4 DEF Retry, Goes
  <2> QED
    BY <1>4, <2>2, <2>3, <2>4, <2>5 DEF Noticed
<1> QED
  BY <1>1, <1>2, <1>3, <1>4 DEF Next

\* A file that another program puts in the place of one that _update has backed
\* up is never overwritten, unless it comes after the last guard: a retry that
\* resumes at its continuation compares the target with live_stat again, and a
\* later run compares it with the plan.
THEOREM LateChangesAreKept == Spec => LateChangeKept
<1> SUFFICES ASSUME NEW o \in Ops
             PROVE  Spec => [](ChangedSince(o) => [](fs[o].target = "foreign"))
  BY DEF LateChangeKept
<1>1. IInv /\ ChangedSince(o) => Noticed(o)
  BY DEF IInv, InHand, ContInHand, ChangedSince, Noticed
<1>2. Noticed(o) /\ UNCHANGED vars => Noticed(o)'
  BY DEF Noticed, Working, op, vars, diskVars, loopVars, tryVars
<1>3. IInv /\ Noticed(o) /\ [Next]_vars => Noticed(o)'
  BY <1>2, NoticedKept
<1>4. Noticed(o) => fs[o].target = "foreign"
  BY DEF Noticed
<1> QED
  BY <1>1, <1>3, <1>4, Invariance, PTL DEF Spec

-----------------------------------------------------------------------------
(***************************************************************************)
(* Temps.                                                                  *)
(***************************************************************************)
\* There is a temp only of the operation in hand, and state.inflight_temp
\* knows of it.
Tidy ==
    /\ \A o \in Ops : fs[o].temp # "none" => Working /\ o = op /\ inflight
    /\ stage = "record" => fs[op].temp = "none"

LEMMA TidyKept ==
    ASSUME IInv, Tidy, Next, "cleanup" \notin Flaky
    PROVE  Tidy'
<1>1. \A o \in Ops : fs'[o].temp = fs[o].temp \/ (Working /\ o = op)
  <2>1. CASE fs' = fs
    BY <2>1
  <2>2. CASE Meddle
    BY <2>2, MeddleSpares
  <2>3. CASE op \in Ops /\ Writes /\ Working
    BY <2>3, WriteSpares
  <2>4. ~ Working /\ Execute => fs' = fs
    BY DEF Execute, Start, Advance, _start_directory, Prepare, Stream, Prepared, Publish, Backup,
     copy_backup, Backed, Recheck, Replace, Dress, Retire, Rename, Check, Remove, Record, Retry, GiveUp, LoopEnds,
     _finalize_directories, _restore_completed_directory_metadata, Returns, Cancels, Pauses,
     Works, Working, diskVars
  <2>5. Control => fs' = fs
    BY DEF Control, diskVars
  <2> QED
    BY <2>1, <2>2, <2>3, <2>4, <2>5, DiskStep DEF Next
<1>2. ~ Fault("cleanup")
  BY DEF Fault
<1>3. \A failed \in BOOLEAN : op \in Ops /\ Working /\ _cleanup_inflight(failed) => fs'[op].temp = "none"
  <2> SUFFICES ASSUME NEW failed \in BOOLEAN, op \in Ops, Working, _cleanup_inflight(failed)
               PROVE  fs'[op].temp = "none"
    OBVIOUS
  <2>1. fs \in Disk
    BY IsTyped DEF Typed
  <2>2. CASE fs' = Put(op, "temp", "none")
    BY <2>1, <2>2, PutIs DEF Place, Content
  <2>3. CASE fs' = fs /\ fs[op].temp = "none"
    BY <2>3
  <2> QED
    BY <1>2, <2>2, <2>3 DEF _cleanup_inflight, Tidy
<1>4. ASSUME ~ Working, UNCHANGED fs, stage' # "record"
      PROVE  Tidy'
  BY <1>4 DEF Tidy
<1>5. ASSUME Working, op \in Ops, op' = op,
             IF Working' THEN fs'[op].temp # "none" => inflight' ELSE fs'[op].temp = "none",
             stage' = "record" => fs'[op].temp = "none"
      PROVE  Tidy'
  BY <1>1, <1>5 DEF Tidy
<1>6. CASE Start \/ Advance \/ LoopEnds \/ _finalize_directories
           \/ _restore_completed_directory_metadata \/ Returns \/ Cancels \/ Pauses
  <2>1. ~ Working /\ UNCHANGED fs
    BY <1>6 DEF Start, Advance, LoopEnds, _finalize_directories,
       _restore_completed_directory_metadata, Returns, Cancels, Pauses, diskVars, Working, IInv, Booked
  <2>2. stage' # "record"
    <3>1. CASE Advance
      <4>1. Plan[pos + 1] \in Ops
        BY <3>1, PlanAssumption DEF Advance, IInv, TypeOK, Ops
      <4> QED
        BY <3>1, <4>1, Entries DEF Advance
    <3> QED
      BY <1>6, <3>1 DEF Start, LoopEnds, _finalize_directories,
         _restore_completed_directory_metadata, Returns, Cancels, Pauses
  <2> QED
    BY <1>4, <2>1, <2>2
<1>7. CASE Control \/ Meddle
  <2>1. UNCHANGED << stage, pos, inflight >> /\ op' = op
    BY <1>7 DEF Control, Meddle, loopVars, tryVars, op
  <2>2. \A o \in Ops : fs'[o].temp = fs[o].temp
    BY <1>7, MeddleSpares DEF Control, diskVars
  <2>3. stage = "record" => op \in Ops
    BY WorkingOp DEF Working
  <2> QED
    BY <2>1, <2>2, <2>3 DEF Tidy, Working
<1>8. CASE _start_directory \/ Record \/ GiveUp
  <2>1. Working /\ op \in Ops /\ op' = op
    <3>1. Working /\ pos' = pos
      BY <1>8 DEF _start_directory, Record, GiveUp, Works, Working, loopVars
    <3> QED
      BY <3>1, WorkingOp DEF op
  <2>2. fs \in Disk /\ stage' \in { "next", "caught" }
    BY <1>8, IsTyped DEF Typed, _start_directory, Record, GiveUp, Goes, Fails, Raises
  <2>3. fs'[op].temp = "none"
    <3>1. CASE _start_directory
      <4>1. fs[op].temp = "none"
        BY <2>1, <3>1 DEF _start_directory, Works, IInv, OpInv, Done, Copying
      <4>2. CASE fs' = Put(op, "target", "dir")
        BY <2>1, <2>2, <4>1, <4>2, PutIs DEF Place, Content
      <4> QED
        BY <3>1, <4>1, <4>2 DEF _start_directory
    <3>2. CASE Record
      BY <3>2 DEF Record, Works, Tidy, diskVars
    <3>3. CASE GiveUp
      BY <1>3, <2>1, <3>3 DEF GiveUp
    <3> QED
      BY <1>8, <3>1, <3>2, <3>3
  <2> QED
    BY <1>5, <2>1, <2>2, <2>3
<1>9. CASE Works_on
  <2>1. Working /\ Stays /\ stage' \in Stage \ { "next" }
    BY <1>9, WorkStep
  <2>2. op \in Ops /\ op' = op /\ fs \in Disk
    BY <2>1, WorkingOp, IsTyped DEF Stays, op, Typed
  <2>3. ASSUME Unwinds
        PROVE  fs'[op].temp = "none" /\ stage' = "wrapup"
    BY <1>3, <2>1, <2>2, <2>3 DEF Unwinds
  <2>4. fs[op].temp # "none" => inflight
    BY <2>2 DEF Tidy
  <2>5. ASSUME stage' \in Stage \ { "next", "wrapup", "record" },
               fs'[op].temp # "none" => inflight'
        PROVE  Tidy'
    BY <1>5, <2>1, <2>2, <2>5 DEF Working, Stage
  <2>6. ASSUME fs'[op].temp = "none"
        PROVE  Tidy'
    BY <1>5, <2>1, <2>2, <2>6
  <2>7. CASE Prepare
    BY <2>4, <2>5, <2>7 DEF Prepare, Goes, Raises, Stage
  <2>8. CASE Stream
    <3>1. CASE Unwinds
      BY <2>3, <2>6, <3>1
    <3>2. CASE ~ Unwinds
      <4>1. UNCHANGED inflight /\ inflight
        BY <2>4, <2>8, <3>2 DEF Stream, Works, IInv, InHand, TempInHand
      <4> QED
        BY <2>5, <2>8, <3>2, <4>1 DEF Stream, Goes, Raises, Fails, Stage
    <3> QED
      BY <3>1, <3>2
  <2>9. CASE Prepared
    BY <2>3, <2>4, <2>5, <2>6, <2>9 DEF Prepared, Goes, Raises, Fails, Stage
  <2>10. CASE Publish
    <3>1. CASE fs' = Published
      BY <2>2, <2>6, <3>1, MovedIs DEF Published, Place
    <3> QED
      BY <2>4, <2>5, <2>10, <3>1 DEF Publish, Raises, Fails, Stage
  <2>11. CASE Backup
    <3>1. fs[op].target \in Content
      BY <2>2 DEF Disk, Place
    <3>2. fs' \in { fs, Put(op, "trash", fs[op].target), Put(op, "spare", "part") } => fs'[op].temp = fs[op].temp
      BY <2>2, <3>1, PutIs DEF Place, Content
    <3> QED
      BY <2>4, <2>5, <2>11, <3>2 DEF Backup, Raises, Fails, Goes, Stage
  <2>12. CASE Recheck
    <3>1. UNCHANGED fs
      BY <2>12 DEF Recheck, diskVars
    <3> QED
      BY <2>4, <2>5, <2>12, <3>1 DEF Recheck, Raises, Goes, Stage
  <2>13. CASE Replace
    <3>1. CASE fs' = Published
      BY <2>2, <2>6, <3>1, MovedIs DEF Published, Place
    <3> QED
      BY <2>4, <2>5, <2>13, <3>1 DEF Replace, Raises, Fails, Stage
  <2>14. CASE Dress \/ Retire
    <3>1. fs[op].temp = "none"
      BY <2>14 DEF Dress, Retire, Works, IInv, InHand, TempInHand
    <3>2. fs' = fs \/ fs' = Moved(op, "prior", "trash")
      BY <2>14 DEF Dress, Retire, Renames
    <3>3. fs'[op].temp = "none"
      BY <2>2, <3>1, <3>2, MovedIs DEF Place
    <3> QED
      BY <2>6, <3>3
  <2>15. CASE Rename \/ Check \/ Remove
    <3>1. fs[op].temp = "none"
      BY <2>2, <2>15 DEF Rename, Check, Remove, Works, IInv, OpInv, Done, Copying
    <3>2. fs'[op].temp = "none"
      <4>1. CASE Rename
        <5>1. fs[op].prior \in Content
          BY <2>2 DEF Disk, Place
        <5>2. \/ fs' = fs
              \/ fs' = Moved(op, "prior", "target") \/ fs' = Moved(op, "target", "trash")
              \/ fs' = Put(op, "target", fs[op].prior)
          <6>1. CASE Kind[op] = "move"
            BY <4>1, <6>1 DEF Rename, Renames
          <6>2. CASE Kind[op] = "trash"
            BY <4>1, <6>2 DEF Rename, Renames
          <6>3. CASE Kind[op] = "recase"
            BY <4>1, <6>3 DEF Rename
          <6> QED
            BY <4>1, <6>1, <6>2, <6>3 DEF Rename, Works
        <5>3. CASE fs' = Moved(op, "prior", "target")
          BY <2>2, <3>1, <5>3, MovedIs DEF Place
        <5>4. CASE fs' = Moved(op, "target", "trash")
          BY <2>2, <3>1, <5>4, MovedIs DEF Place
        <5>5. CASE fs' = Put(op, "target", fs[op].prior)
          BY <2>2, <3>1, <5>1, <5>5, PutIs DEF Place
        <5> QED
          BY <3>1, <5>2, <5>3, <5>4, <5>5
      <4>2. CASE Check
        BY <3>1, <4>2 DEF Check, diskVars
      <4>3. CASE Remove
        BY <2>2, <3>1, <4>3, PutIs DEF Remove, Place, Content
      <4> QED
        BY <2>15, <4>1, <4>2, <4>3
    <3> QED
      BY <2>6, <3>2
  <2>16. CASE Retry
    <3>1. CASE Unwinds
      BY <2>3, <2>6, <3>1
    <3>2. CASE \E failed \in BOOLEAN : _cleanup_inflight(failed)
      BY <1>3, <2>1, <2>2, <2>6, <3>2
    <3>3. CASE UNCHANGED << fs, inflight >> /\ stage' = Reentry
      <4>1. Entry[Kind[op]] \in { "prepare", "check", "mkdir" } /\ cont \in { "none", "prepared", "published" }
        BY <2>2, Entries, IsTyped DEF Typed
      <4>2. stage' \in { "prepare", "check", "mkdir", "recheck", "dress" }
        BY <3>3, <4>1 DEF Reentry
      <4> QED
        BY <2>4, <2>5, <3>3, <4>2 DEF Stage
    <3> QED
      BY <2>16, <3>1, <3>2, <3>3 DEF Retry, Goes
  <2>17. CASE copy_backup
    <3>1. \A v \in Content : fs' = BackedUp(v) => fs'[op].temp = fs[op].temp
      BY <2>2, BackedUpIs
    <3>2. live \in Content
      BY IsTyped DEF Typed
    <3>3. CASE fs' = fs \/ fs' = BackedUp(live) \/ fs' = BackedUp("torn")
      BY <2>3, <2>4, <2>5, <2>6, <2>17, <3>1, <3>2, <3>3
         DEF copy_backup, Raises, Fails, Goes, Stage, Content
    <3>4. CASE Unwinds
      BY <2>3, <2>6, <3>4
    <3> QED
      BY <2>17, <3>3, <3>4 DEF copy_backup
  <2>18. CASE Backed
    BY <2>4, <2>5, <2>18 DEF Backed, Raises, Fails, Goes, Stage, diskVars
  <2> QED
    BY <1>9, <2>7, <2>8, <2>9, <2>10, <2>11, <2>12, <2>13, <2>14, <2>15, <2>16, <2>17, <2>18
       DEF Works_on
<1> QED
  BY <1>6, <1>7, <1>8, <1>9 DEF Next, Execute, Works_on

\* If the removal of a temp does not itself fail, a run that is paused or over
\* has left no temp beside the targets, however it ended: every way out of an
\* attempt passes through _cleanup_inflight or has published the temp.
THEOREM NoTempLeft == "cleanup" \notin Flaky /\ Spec => []TempsReclaimed
<1> SUFFICES ASSUME "cleanup" \notin Flaky PROVE Spec => []TempsReclaimed
  OBVIOUS
<1>1. Init => Tidy
  <2> SUFFICES ASSUME Init PROVE Tidy
    OBVIOUS
  <2>1. \A o \in Ops : fs[o].temp = "none"
    BY DEF Init, Expected, Place
  <2> QED
    BY <2>1 DEF Init, Tidy
<1>2. Tidy /\ UNCHANGED vars => Tidy'
  BY DEF Tidy, Working, op, vars, diskVars, loopVars, tryVars
<1>3. IInv /\ Tidy /\ [Next]_vars => Tidy'
  BY <1>2, TidyKept
<1>4. IInv /\ Tidy => TempsReclaimed
  BY DEF IInv, Booked, Tidy, TempsReclaimed
<1> QED
  BY <1>1, <1>3, <1>4, Invariance, PTL DEF Spec

-----------------------------------------------------------------------------
(***************************************************************************)
(* The ledger.                                                             *)
(***************************************************************************)
\* The successes that the ledger should have.
Ledgered == \A o \in Ops \ forgotten : status[o] = "succeeded" => o \in recorded

\* As long as the recording is in order they are there; and a run that is over
\* says so only then, unless it was canceled.
Faithful ==
    /\ recording \in { "ok", "degraded" }
    /\ recording = "ok" => Ledgered
    /\ run = "done" /\ result.status # "canceled" /\ result.recording = "ok" => Ledgered

LEMMA FaithfulKept ==
    ASSUME IInv, Faithful, Next
    PROVE  Faithful'
<1>0. status \in [Ops -> Outcome] /\ pending \subseteq Ops /\ recorded \subseteq Ops
  BY DEF IInv, TypeOK
\* A step of a run that goes on, which records what it settles or degrades.
<1>1. ASSUME run' = run, run # "done", UNCHANGED forgotten, recording' \in { recording, "degraded" },
             recorded \subseteq recorded',
             \A o \in Ops : status'[o] = "succeeded" =>
                status[o] = "succeeded" \/ o \in recorded' \/ recording' = "degraded"
      PROVE  Faithful'
  BY <1>1 DEF Faithful, Ledgered
<1>2. CASE Start
  <2>1. UNCHANGED << status, recorded >>
    BY <1>2 DEF Start
  <2>2. recording = "degraded" => \A o \in Ops \ forgotten' : status[o] = "none"
    BY <1>2 DEF Start, Remaining
  <2>3. recording = "ok" => forgotten' = forgotten /\ Ledgered
    BY <1>2 DEF Start, Faithful
  <2>4. recording' \in { recording, "ok" }
    BY <1>2 DEF Start
  <2> QED
    BY <2>1, <2>2, <2>3, <2>4 DEF Faithful, Ledgered
<1>3. CASE Works_on
  <2>1. /\ run' = run /\ run = "executing" /\ UNCHANGED << status, recorded, forgotten >>
        /\ recording' \in { recording, "degraded" }
    BY <1>3, WorkStep, WorkingOp DEF Stays
  <2> QED
    BY <1>1, <2>1
<1>4. CASE Advance
  <2>1. Plan[pos + 1] \in Ops
    BY <1>4, PlanAssumption DEF Advance, IInv, TypeOK, Ops
  <2>2. \A o \in Ops : status'[o] = status[o] \/ status'[o] \in { "canceled", "deferred" }
    BY <1>0, <1>4, <2>1 DEF Advance, _settle
  <2>3. run' = run /\ run = "executing" /\ UNCHANGED << recording, recorded, forgotten >>
    BY <1>4 DEF Advance, envVars
  <2> QED
    BY <1>1, <2>2, <2>3
<1>5. CASE _start_directory \/ Record \/ GiveUp
  <2>1. Working /\ run' = run /\ UNCHANGED forgotten
    BY <1>5 DEF _start_directory, Record, GiveUp, Works, Working, loopVars, envVars
  <2>2. op \in Ops /\ run = "executing"
    BY <2>1, WorkingOp
  <2>3. /\ recording' \in { recording, "degraded" }
        /\ recorded \subseteq recorded'
        /\ \A o \in Ops : status'[o] = "succeeded" =>
              status[o] = "succeeded" \/ o \in recorded' \/ recording' = "degraded"
    <3>1. CASE _start_directory
      BY <1>0, <2>2, <3>1 DEF _start_directory, _settle
    <3>2. CASE Record
      BY <1>0, <2>2, <3>2 DEF Record, _settle, Degraded
    <3>3. CASE GiveUp
      BY <1>0, <2>2, <3>3 DEF GiveUp, _settle
    <3> QED
      BY <1>5, <3>1, <3>2, <3>3
  <2> QED
    BY <1>1, <2>1, <2>2, <2>3
<1>6. CASE LoopEnds \/ _restore_completed_directory_metadata
  <2>1. run' = run /\ run = "executing" /\ UNCHANGED << recording, recorded, status, forgotten >>
    BY <1>6 DEF LoopEnds, _restore_completed_directory_metadata, loopVars, bookVars, envVars
  <2> QED
    BY <1>1, <2>1
<1>7. CASE _finalize_directories
  <2>1. run' = run /\ run = "executing" /\ UNCHANGED forgotten
    BY <1>7 DEF _finalize_directories, loopVars, envVars
  <2>2. PICK d \in pending :
           \/ /\ status' = [status EXCEPT ![d] = "succeeded"]
              /\ \/ recorded' = recorded \cup { d } /\ UNCHANGED recording
                 \/ recording' = "degraded" /\ UNCHANGED recorded
           \/ status' = [status EXCEPT ![d] = "failed"] /\ UNCHANGED << recorded, recording >>
    BY <1>7 DEF _finalize_directories, _settle, Degraded
  <2> QED
    BY <1>0, <1>1, <2>1, <2>2
<1>8. CASE Returns
  BY <1>8 DEF Returns, Faithful, Ledgered, Degraded, envVars
<1>9. CASE Cancels
  <2>1. /\ \A o \in Ops : status'[o] = "succeeded" => status[o] = "succeeded"
        /\ result'.status = "canceled" /\ recording' \in { recording, "degraded" }
        /\ UNCHANGED << recorded, forgotten >>
    BY <1>9 DEF Cancels, Degraded, envVars
  <2> QED
    BY <2>1 DEF Faithful, Ledgered
<1>10. CASE Pauses \/ Control
  <2>1. run' # "done" \/ run' = run
    BY <1>10 DEF Pauses, Control
  <2>2. UNCHANGED << recording, recorded, status, result, forgotten >>
    BY <1>10 DEF Pauses, Control, bookVars, envVars
  <2> QED
    BY <2>1, <2>2 DEF Faithful, Ledgered
<1>11. CASE Meddle
  BY <1>11 DEF Meddle, Faithful, Ledgered, loopVars, bookVars
<1> QED
  BY <1>2, <1>3, <1>4, <1>5, <1>6, <1>7, <1>8, <1>9, <1>10, <1>11 DEF Next, Execute, Works_on

\* Over any number of pauses, and whichever commands and flushes of the recorder
\* fail, a run that returns with its recording in order has every success of all
\* its parts in the ledger, but for those that a resume has forgotten: they were
\* settled before a pause that found the recording degraded.
THEOREM LedgerComplete == Spec => []RecordingTruthful
<1>1. Init => Faithful
  BY DEF Init, Faithful, Ledgered
<1>2. Faithful /\ UNCHANGED vars => Faithful'
  BY DEF Faithful, Ledgered, vars, loopVars, bookVars, envVars
<1>3. IInv /\ Faithful /\ [Next]_vars => Faithful'
  BY <1>2, FaithfulKept
<1>4. Faithful => RecordingTruthful
  BY DEF Faithful, Ledgered, RecordingTruthful
<1> QED
  BY <1>1, <1>3, <1>4, Invariance, PTL DEF Spec

-----------------------------------------------------------------------------
(***************************************************************************)
(* Retries.  A retry starts an operation again, or goes on with it, from   *)
(* what its failed attempt left; it must not take that for a change by     *)
(* another program.                                                        *)
(***************************************************************************)
Collisions ==
    { "source-drift", "target-drift", "target-missing", "destination-occupied", "trash-collision" }

\* The calls that a retry of o does not recover from: they raise when o has had
\* an effect and has no continuation, or leave the readonly bit of its target
\* cleared.
Stumbles(o) ==
    CASE Kind[o] = "copy"                -> { "publish_late", "metadata", "stat" }
      [] Kind[o] = "move_update"         -> { "publish_late" }
      [] Kind[o] \in { "move", "trash" } -> { "rename_late", "stat" }
      [] Kind[o] = "update" ->
             { "backup_stat" } \cup IF o \in ReadOnly THEN { "metadata" } ELSE {}
      [] Kind[o] \in { "delete", "rmdir" } ->
             { "remove_late" } \cup IF o \in ReadOnly THEN { "metadata" } ELSE {}
      [] OTHER                           -> {}

\* None of them raises, and the run is not paused.
Recoverable == MaxPauses = 0 /\ \A o \in Ops : Stumbles(o) \cap Flaky = {}

\* o has had no effect.  A recase leaves its target at the name that it had.
Pristine(o) ==
    /\ fs[o].source = Expected(o, "source")
    /\ fs[o].prior = Expected(o, "prior")
    /\ Kind[o] # "recase" => fs[o].target = Expected(o, "target")
    /\ fs[o].trash = "none"
    /\ o \notin cleared

\* The loop has still to come to o.
Due(o) ==
    /\ run \in { "ready", "executing" } /\ stage # "wrapup"
    /\ status[o] = "none" /\ o \notin pending
    /\ ~ (Working /\ o = op)

Clean(o) ==
    /\ reason[o] \notin Collisions
    /\ fs[o].source = Expected(o, "source")
    /\ Due(o) => Pristine(o)

\* The operation in hand has had no effect, or has the continuation that knows
\* of it, or has one step left that does not fail.
Halfway ==
    /\ stage = "caught" => why \notin Collisions
    /\ /\ cont = "none" /\ stage # "backed"
       /\ stage \in { "dress", "retire", "record" } => Kind[op] = "recase"
       => Pristine(op)
    /\ stage = "backed" => op \notin cleared
    /\ cont = "prepared" =>
          IF fs[op].temp = "none" THEN fs[op].target = "new"
                                  ELSE fs[op].target = "old" /\ op \notin cleared
    /\ stage \in { "dress", "retire", "record" } /\ Kind[op] \in { "update", "move_update" } =>
          cont = "published"
    /\ cont = "published" /\ Kind[op] = "move_update" =>
          \/ fs[op].prior = "old" /\ fs[op].trash = "none"
          \/ fs[op].prior = "none" /\ fs[op].trash = "old"

Unpaused ==
    /\ pauses = 0 /\ run # "paused" /\ request # "pause" /\ ending # "pause"
    /\ run = "ready" => stage = "next"

Reasoned == reason = [o \in Ops |-> reason[o]]

Smooth ==
    /\ Reasoned
    /\ Unpaused
    /\ \A o \in Ops \ meddled : Clean(o)
    /\ Working /\ op \notin meddled => Halfway

\* No guard fails for an operation that has had no effect.
LEMMA PristineGuarded ==
    ASSUME op \in Ops, Pristine(op)
    PROVE  Drift(Guarded[Kind[op]]) = "none" /\ Drift(<< "source", "target" >>) = "none"
<1> DEFINE sides == { "source", "target", "prior" }
<1>1. \A p \in sides : _matches_expected(op, p)
  BY DEF Pristine, _matches_expected, Linked
<1>2. ASSUME NEW places, \A i \in DOMAIN places : places[i] \in sides
      PROVE  Drift(places) = "none"
  <2>1. { i \in DOMAIN places : ~ _matches_expected(op, places[i]) } = {}
    BY <1>1, <1>2
  <2> QED
    BY <2>1 DEF Drift
<1>3. \A k \in OperationKind : \A i \in DOMAIN Guarded[k] : Guarded[k][i] \in sides
  <2>1. \A k \in OperationKind :
           Guarded[k] \in { << "source", "target" >>, << "prior", "target" >>,
                            << "source", "prior" >>, << "prior", "source", "target" >>,
                            << "target" >> }
    BY DEF OperationKind, Guarded
  <2>2. \A s \in { << "source", "target" >>, << "prior", "target" >>, << "source", "prior" >>,
                   << "prior", "source", "target" >>, << "target" >> } :
           \A i \in DOMAIN s : s[i] \in sides
    OBVIOUS
  <2> QED
    BY <2>1, <2>2
<1>4. Kind[op] \in OperationKind
  BY PlanAssumption
<1>5. \A i \in DOMAIN << "source", "target" >> : << "source", "target" >>[i] \in sides
  OBVIOUS
<1> HIDE DEF sides
<1> QED
  BY <1>2, <1>3, <1>4, <1>5

\* The calls that may raise, for the kinds of operations at hand.
LEMMA Recovers ==
    ASSUME Recoverable, NEW o \in Ops
    PROVE  /\ Kind[o] \in { "copy", "move_update" } => ~ Fault("publish_late")
           /\ Kind[o] = "copy" => ~ Fault("metadata")
           /\ Kind[o] \in { "copy", "move", "trash" } => ~ Fault("stat")
           /\ Kind[o] \in { "move", "trash" } => ~ Fault("rename_late")
           /\ Kind[o] \in { "delete", "rmdir" } => ~ Fault("remove_late")
           /\ Kind[o] = "update" => ~ Fault("backup_stat")
           /\ /\ Kind[o] \in { "update", "delete", "rmdir" } /\ o = op
              /\ stage = "replace" => fs[op].target = live
              => Unrestored = { cleared }
BY DEF Recoverable, Stumbles, Fault, Unrestored

LEMMA PristineStays ==
    ASSUME NEW o \in Ops, Pristine(o), o \notin cleared',
           \A q \in { "source", "prior", "trash" } : fs'[o][q] = fs[o][q],
           Kind[o] # "recase" => fs'[o].target = fs[o].target
    PROVE  Pristine(o)'
BY DEF Pristine, Expected

\* What a step leaves as it is of an operation that it does not work on.
LEMMA CleanStays ==
    ASSUME NEW o \in Ops, Clean(o), fs'[o] = fs[o], o \in cleared' => o \in cleared,
           reason'[o] = reason[o] \/ reason'[o] \notin Collisions, Due(o)' => Due(o)
    PROVE  Clean(o)'
<1>1. Pristine(o) => Pristine(o)'
  BY PristineStays DEF Pristine
<1>2. Expected(o, "source")' = Expected(o, "source")
  BY DEF Expected
<1> QED
  BY <1>1, <1>2 DEF Clean

\* A step that works on the operation in hand keeps it retriable.
LEMMA HalfwayKept ==
    ASSUME IInv, Recoverable, Works_on, Working', op \notin meddled, Halfway, Clean(op)
    PROVE  Halfway'
<1>1. /\ Working /\ Stays /\ op' = op /\ op \in Ops /\ fs \in Disk
      /\ cont \in { "none", "prepared", "published" }
  BY WorkStep, WorkingOp, IsTyped DEF Stays, op, Typed
<1>2. ~ Unwinds
  BY DEF Unwinds, Working
<1>3. Kind[op] \in Copying => fs[op].source = "new"
  BY DEF Clean, Expected, Sourced
<1>4. { "sharing-violation", "io-error", "recorder-failed", "temp-shared", "cleanup-failed" }
         \cap Collisions = {}
  BY DEF Collisions
\* An exception before the operation has had any effect.
<1>5. ASSUME Pristine(op), cont = "none", cont' = "none", cleared' = cleared,
             stage' \in Stage \ { "dress", "retire", "record" },
             stage' = "caught" => why' \notin Collisions,
             \A q \in { "source", "target", "prior", "trash" } : fs'[op][q] = fs[op][q]
      PROVE  Halfway'
  <2>1. Pristine(op)'
    BY <1>1, <1>5, PristineStays DEF Pristine
  <2> QED
    BY <1>1, <1>5, <2>1 DEF Halfway, Pristine
\* One from which the continuation goes on.
<1>6. ASSUME cont # "none", cont' = cont, cleared' = cleared, fs' = fs, stage' = "caught", why' \notin Collisions
      PROVE  Halfway'
  BY <1>1, <1>6 DEF Halfway
<1>7. CASE Prepare
  <2>1. cont = "none" /\ Kind[op] \in Copying /\ stage = "prepare" /\ UNCHANGED << cont, cleared >>
    BY <1>7 DEF Prepare, Works, IInv, InHand, ContInHand
  <2>2. Pristine(op)
    BY <2>1 DEF Halfway
  <2>3. Drift(Guarded[Kind[op]]) = "none"
    BY <1>1, <2>2, PristineGuarded
  <2>4. \/ fs' = fs /\ stage' = "caught" /\ why' \in { "temp-shared", "cleanup-failed" }
        \/ fs' = Put(op, "temp", "part") /\ stage' = "stream"
    BY <1>7, <2>3 DEF Prepare, Raises, Goes
  <2>5. \A q \in { "source", "target", "prior", "trash" } : fs'[op][q] = fs[op][q]
    BY <1>1, <2>4, PutIs DEF Place, Content
  <2> QED
    BY <1>4, <1>5, <2>1, <2>2, <2>4, <2>5 DEF Stage
<1>8. CASE Stream
  <2>1. cont = "none" /\ stage = "stream" /\ Kind[op] \in Copying /\ UNCHANGED << cont, cleared >>
    BY <1>2, <1>8 DEF Stream, Works, IInv, InHand, ContInHand
  <2>2. Pristine(op)
    BY <2>1 DEF Halfway
  <2>3. \/ fs' = fs /\ stage' = "caught" /\ why' \in { "sharing-violation", "io-error" }
        \/ fs' = Put(op, "temp", fs[op].source) /\ stage' = "prepared"
    BY <1>2, <1>8 DEF Stream, Raises, Goes, Fails
  <2>4. \A q \in { "source", "target", "prior", "trash" } : fs'[op][q] = fs[op][q]
    BY <1>1, <1>3, <2>1, <2>3, PutIs DEF Place, Content
  <2> QED
    BY <1>4, <1>5, <2>1, <2>2, <2>3, <2>4 DEF Stage
<1>9. CASE Prepared
  <2>1. cont = "none" /\ stage = "prepared" /\ UNCHANGED << fs, cont, cleared >>
    BY <1>2, <1>9 DEF Prepared, Works, IInv, InHand, ContInHand
  <2>2. Pristine(op)
    BY <2>1 DEF Halfway
  <2>3. Drift(<< "source", "target" >>) = "none"
    BY <1>1, <2>2, PristineGuarded
  <2>4. \/ stage' = "caught" /\ why' \in { "sharing-violation", "io-error" }
        \/ stage' \in { "backup", "publish" }
    BY <1>2, <1>9, <2>3 DEF Prepared, Raises, Goes, Fails
  <2> QED
    BY <1>4, <1>5, <2>1, <2>2, <2>4 DEF Stage
<1>10. CASE Publish
  <2>1. cont = "none" /\ stage = "publish" /\ Kind[op] \in { "copy", "move_update" } /\ UNCHANGED cleared
    BY <1>10 DEF Publish, Works, IInv, InHand, ContInHand
  <2>2. Pristine(op)
    BY <2>1 DEF Halfway
  <2>3. fs[op].target = "none" /\ (Kind[op] = "move_update" => fs[op].prior = "old")
    BY <2>1, <2>2 DEF Pristine, Expected, Displacing, Relocating
  <2>4. ~ Fails("publish_late")
    BY <1>1, <2>1, Recovers DEF Fails
  <2>5. CASE fs' = fs /\ stage' = "caught" /\ why' \in { "sharing-violation", "io-error" } /\ cont' = cont
    BY <1>4, <1>5, <2>1, <2>2, <2>5 DEF Stage
  <2>6. CASE /\ fs' = Published /\ stage' = "dress"
             /\ cont' = IF Kind[op] = "move_update" THEN "published" ELSE cont
    <3>1. \A q \in { "prior", "trash" } : fs'[op][q] = fs[op][q]
      BY <1>1, <2>6, MovedIs DEF Published, Place
    <3> QED
      BY <1>1, <2>1, <2>2, <2>3, <2>6, <3>1 DEF Halfway, Pristine
  <2> QED
    BY <1>10, <2>3, <2>4, <2>5, <2>6 DEF Publish, Raises, Goes, Fails
<1>11. CASE Backup
  <2>1. /\ cont = "none" /\ stage = "backup" /\ Kind[op] = "update" /\ fs[op].temp = "new"
        /\ UNCHANGED cleared
    BY <1>11 DEF Backup, Works, IInv, InHand, ContInHand, TempInHand
  <2>2. Pristine(op)
    BY <2>1 DEF Halfway
  <2>3. fs[op].trash = "none" /\ fs[op].target = "old" /\ op \notin cleared
    BY <2>1, <2>2 DEF Pristine, Expected, Displacing
  <2>4. CASE /\ fs' \in { fs, Put(op, "spare", "part") } /\ cont' = cont
             /\ \/ stage' \in { "backing", "backed" }
                \/ /\ stage' = "caught"
                   /\ why' \in { "sharing-violation", "io-error", "temp-shared", "cleanup-failed" }
    <3>1. \A q \in { "source", "target", "prior", "trash" } : fs'[op][q] = fs[op][q]
      BY <1>1, <2>4, PutIs DEF Place, Content
    <3> QED
      BY <1>4, <1>5, <2>1, <2>2, <2>4, <3>1 DEF Stage
  <2>5. CASE stage' = "backed" /\ cont' = cont
    BY <1>1, <2>1, <2>3, <2>5 DEF Halfway
  <2> QED
    BY <1>11, <2>3, <2>4, <2>5 DEF Backup, Raises, Goes, Fails
<1>20. CASE copy_backup
  <2>1. cont = "none" /\ stage = "backing" /\ Kind[op] = "update" /\ UNCHANGED cleared
    BY <1>20 DEF copy_backup, Works, IInv, InHand, ContInHand
  <2>2. Pristine(op)
    BY <2>1 DEF Halfway
  <2>3. \/ stage' = "backed" /\ cont' = cont
        \/ /\ UNCHANGED << fs, cont >> /\ stage' = "caught"
           /\ why' \in { "sharing-violation", "io-error" }
    BY <1>2, <1>20 DEF copy_backup, Raises, Goes, Fails
  <2>4. CASE stage' = "backed" /\ cont' = cont
    BY <1>1, <2>1, <2>2, <2>4 DEF Halfway, Pristine
  <2>5. CASE UNCHANGED << fs, cont >> /\ stage' = "caught" /\ why' \in { "sharing-violation", "io-error" }
    BY <1>4, <1>5, <2>1, <2>2, <2>5 DEF Stage
  <2> QED
    BY <2>3, <2>4, <2>5
<1>21. CASE Backed
  <2>1. /\ stage = "backed" /\ Kind[op] = "update" /\ UNCHANGED << fs, cleared >>
        /\ fs[op].temp = "new" /\ fs[op].target = "old" /\ op \notin cleared
    BY <1>21 DEF Backed, Works, IInv, InHand, TempInHand, EffectInHand, Halfway, diskVars
  <2>2. ~ Fails("backup_stat")
    BY <1>1, <2>1, Recovers DEF Fails
  <2>3. /\ cont' = "prepared"
        /\ \/ stage' = "recheck"
           \/ stage' = "caught" /\ why' \in { "sharing-violation", "io-error" }
    BY <1>21, <2>2 DEF Backed, Raises, Goes, Fails
  <2> QED
    BY <1>1, <1>4, <2>1, <2>3 DEF Halfway
<1>12. CASE Recheck
  <2>1. cont = "prepared" /\ stage = "recheck" /\ Kind[op] = "update" /\ UNCHANGED << fs, cleared >>
    BY <1>12 DEF Recheck, Works, IInv, InHand, ContInHand, diskVars
  <2>2. fs[op].source = "new" /\ live = "old"
    BY <1>3, <2>1 DEF Copying, IInv, InHand, ContInHand
  <2>3. \/ stage' = "dress" /\ cont' = "published"
        \/ fs[op].temp # "none" /\ stage' = "replace" /\ cont' = cont
    BY <1>12, <2>1, <2>2 DEF Recheck, Halfway, Goes
  <2> QED
    BY <1>1, <2>1, <2>3 DEF Halfway
<1>13. CASE Replace
  <2>1. cont = "prepared" /\ stage = "replace" /\ Kind[op] = "update" /\ fs[op].temp = "new"
    BY <1>13 DEF Replace, Works, IInv, InHand, ContInHand, TempInHand
  <2>2. Unrestored = { cleared }
    <3>1. fs[op].target = live
      BY <2>1 DEF IInv, InHand, ContInHand, Halfway
    <3> QED
      BY <1>1, <2>1, <3>1, Recovers
  <2>3. CASE fs' = fs /\ cleared' = cleared /\ cont' = cont /\ stage' = "caught"
             /\ why' \in { "recorder-failed", "sharing-violation", "io-error" }
    BY <1>4, <1>6, <2>1, <2>3
  <2>4. CASE /\ fs' = Published
             /\ \/ stage' = "caught" /\ why' \in { "sharing-violation", "io-error" } /\ cont' = cont
                \/ stage' = "dress" /\ cont' = "published"
    <3>1. fs'[op].temp = "none" /\ fs'[op].target = "new"
      BY <1>1, <2>1, <2>4, MovedIs DEF Published, Place
    <3> QED
      BY <1>1, <1>4, <2>1, <2>4, <3>1 DEF Halfway
  <2> QED
    BY <1>13, <2>2, <2>3, <2>4 DEF Replace, Raises, Goes, Fails
<1>14. CASE Dress
  <2>1. /\ stage = "dress" /\ Kind[op] \in Copying /\ UNCHANGED << fs, cont >>
        /\ fs[op].target = "new"
    BY <1>14 DEF Dress, Works, IInv, InHand, EffectInHand, tryVars
  <2>2. Kind[op] # "copy" => cont = "published"
    BY <2>1 DEF Halfway, Copying
  <2>3. Kind[op] = "copy" => ~ Fails("metadata")
    BY <1>1, Recovers DEF Fails
  <2>4. Kind[op] = "copy" => cont = "none"
    BY <1>1 DEF IInv, InHand, ContInHand
  <2>5. \/ stage' = "caught" /\ why' \in { "sharing-violation", "io-error" } /\ Kind[op] # "copy"
        \/ stage' = IF Kind[op] = "move_update" THEN "retire" ELSE "record"
    BY <1>14, <2>1, <2>3 DEF Dress, Raises, Goes, Fails
  <2> QED
    BY <1>1, <1>4, <2>1, <2>2, <2>4, <2>5 DEF Halfway
<1>15. CASE Retire
  <2>1. stage = "retire" /\ Kind[op] = "move_update" /\ UNCHANGED << cont, cleared >> /\ cont = "published"
    BY <1>15 DEF Retire, Works, Halfway, tryVars
  <2>2. \/ fs[op].prior = "old" /\ fs[op].trash = "none"
        \/ fs[op].prior = "none" /\ fs[op].trash = "old"
    BY <2>1 DEF Halfway
  <2>3. CASE fs' = fs /\ (stage' = "caught" => why' \notin Collisions) /\ stage' \in { "record", "caught" }
    BY <1>1, <2>1, <2>3 DEF Halfway
  <2>4. CASE /\ fs' = Moved(op, "prior", "trash") /\ fs[op].prior = "old"
             /\ (stage' = "caught" => why' \notin Collisions) /\ stage' \in { "record", "caught" }
    <3>1. fs'[op].prior = "none" /\ fs'[op].trash = "old"
      BY <1>1, <2>4, MovedIs DEF Place
    <3> QED
      BY <1>1, <2>1, <2>4, <3>1 DEF Halfway
  <2> QED
    BY <1>4, <1>15, <2>2, <2>3, <2>4 DEF Retire, Renames, FlushFails, Raises, Goes, Fails
<1>16. CASE Rename
  <2>1. /\ stage = "rename" /\ Kind[op] \in { "move", "recase", "trash" }
        /\ cont = "none" /\ UNCHANGED << cont, cleared >>
    BY <1>1, <1>16 DEF Rename, Works, IInv, InHand, ContInHand, tryVars
  <2>2. Pristine(op)
    BY <2>1 DEF Halfway
  <2>3. /\ Kind[op] = "move" => fs[op].target = "none"
        /\ fs[op].trash = "none"
        /\ Kind[op] \in { "move", "trash" } => ~ Fails("rename_late")
    BY <1>1, <2>2, Recovers DEF Pristine, Expected, Displacing, Relocating, Fails
  <2>4. CASE fs' = fs /\ stage' = "caught" /\ why' \in { "recorder-failed", "sharing-violation", "io-error" }
    BY <1>4, <1>5, <2>1, <2>2, <2>4 DEF Stage
  <2>5. CASE stage' = "record" /\ Kind[op] # "recase"
    BY <1>1, <2>1, <2>5 DEF Halfway
  <2>6. CASE /\ Kind[op] = "recase" /\ fs' = Put(op, "target", fs[op].prior)
             /\ \/ stage' = "record"
                \/ stage' = "caught" /\ why' \in { "sharing-violation", "io-error" }
    <3>1. fs[op].prior \in Content
      BY <1>1 DEF Disk, Place
    <3>2. Pristine(op)'
      BY <1>1, <2>1, <2>2, <2>6, <3>1, PutIs, PristineStays DEF Place, Pristine
    <3> QED
      BY <1>1, <1>4, <2>1, <2>6, <3>2 DEF Halfway
  <2>7. CASE Kind[op] = "recase"
    BY <1>16, <2>4, <2>6, <2>7 DEF Rename, FlushFails, Raises, Goes, Fails
  <2>8. CASE Kind[op] = "move"
    BY <1>16, <2>3, <2>4, <2>5, <2>8 DEF Rename, Renames, FlushFails, Raises, Goes, Fails
  <2>9. CASE Kind[op] = "trash"
    BY <1>16, <2>3, <2>4, <2>5, <2>9 DEF Rename, Renames, FlushFails, Raises, Goes, Fails
  <2> QED
    BY <2>1, <2>7, <2>8, <2>9
<1>17. CASE Check
  <2>1. /\ stage = "check" /\ Kind[op] \in { "move", "recase", "trash", "delete", "rmdir", "noop" }
        /\ UNCHANGED << fs, cleared, cont >>
    BY <1>1, <1>17, PlanAssumption DEF Check, Works, diskVars, tryVars, OperationKind, Copying
  <2>2. cont = "none"
    BY <1>1, <2>1 DEF IInv, InHand, ContInHand
  <2>3. Pristine(op)
    BY <2>1, <2>2 DEF Halfway
  <2>4. Drift(Guarded[Kind[op]]) = "none"
    BY <1>1, <2>3, PristineGuarded
  <2>5. stage' \in { "rename", "remove" } \/ (stage' = "record" /\ Kind[op] = "noop")
    BY <1>17, <2>1, <2>4 DEF Check, Goes
  <2>6. CASE stage' \in { "rename", "remove" }
    BY <1>5, <2>1, <2>2, <2>3, <2>6 DEF Stage
  <2>7. CASE stage' = "record" /\ Kind[op] = "noop"
    BY <1>1, <2>1, <2>2, <2>7 DEF Halfway
  <2> QED
    BY <2>5, <2>6, <2>7
<1>18. CASE Remove
  <2>1. stage = "remove" /\ Kind[op] \in { "delete", "rmdir" } /\ UNCHANGED cont
    BY <1>18 DEF Remove, Works, tryVars
  <2>2. cont = "none"
    BY <1>1, <2>1 DEF IInv, InHand, ContInHand
  <2>3. Pristine(op)
    BY <2>1, <2>2 DEF Halfway
  <2>4. Unrestored = { cleared } /\ ~ Fails("remove_late")
    BY <1>1, <2>1, Recovers DEF Fails
  <2>5. CASE /\ fs' = fs /\ cleared' = cleared /\ stage' = "caught"
             /\ why' \in { "recorder-failed", "sharing-violation", "io-error" }
    BY <1>4, <1>5, <2>1, <2>2, <2>3, <2>5 DEF Stage
  <2>6. CASE stage' = "record"
    BY <1>1, <2>1, <2>2, <2>6 DEF Halfway
  <2> QED
    BY <1>18, <2>4, <2>5, <2>6 DEF Remove, FlushFails, Raises, Goes, Fails
<1>19. CASE Retry
  <2>1. stage = "caught" /\ stage' = Reentry /\ UNCHANGED << cont, cleared >>
    BY <1>2, <1>19 DEF Retry, Goes
  <2>2. CASE cont = "none"
    <3>1. Pristine(op) /\ stage' \in { "prepare", "check", "mkdir" }
      BY <1>1, <2>1, <2>2, Entries DEF Halfway, Reentry
    <3>2. PICK failed \in BOOLEAN : _cleanup_inflight(failed)
      BY <1>2, <1>19, <2>2 DEF Retry
    <3>3. \A q \in { "source", "target", "prior", "trash" } : fs'[op][q] = fs[op][q]
      BY <1>1, <3>2, CleanedUp
    <3> QED
      BY <1>5, <2>1, <2>2, <3>1, <3>3 DEF Stage
  <2>3. CASE cont = "prepared"
    <3>1. stage' = "recheck" /\ fs' = fs
      BY <1>2, <1>19, <2>1, <2>3 DEF Retry, Reentry
    <3> QED
      BY <1>1, <2>1, <2>3, <3>1 DEF Halfway
  <2>4. CASE cont = "published"
    <3>1. stage' = "dress" /\ fs' = fs
      BY <1>2, <1>19, <2>1, <2>4 DEF Retry, Reentry
    <3> QED
      BY <1>1, <2>1, <2>4, <3>1 DEF Halfway
  <2> QED
    BY <1>1, <2>2, <2>3, <2>4
<1> QED
  BY <1>7, <1>8, <1>9, <1>10, <1>11, <1>12, <1>13, <1>14, <1>15, <1>16, <1>17, <1>18, <1>19, <1>20,
     <1>21 DEF Works_on

\* An outcome and its reason, of one operation.
LEMMA SettleIs ==
    ASSUME status \in [Ops -> Outcome], Reasoned, NEW o \in Ops, NEW outcome, NEW r,
           _settle(o, outcome, r)
    PROVE  /\ status'[o] = outcome /\ reason'[o] = r
           /\ \A x \in Ops \ { o } : status'[x] = status[x] /\ reason'[x] = reason[x]
           /\ Reasoned'
<1>1. reason' = [x \in Ops |-> IF x = o THEN r ELSE reason[x]]
  BY DEF Reasoned, _settle
<1>2. \A x \in Ops : reason'[x] = IF x = o THEN r ELSE reason[x]
  BY <1>1
<1>3. Reasoned'
  BY <1>1, <1>2 DEF Reasoned
<1> QED
  BY <1>2, <1>3 DEF _settle

\* A step of the loop that does not work on an operation.
LEMMA BetweenSmooth ==
    ASSUME IInv, Smooth,
           Start \/ LoopEnds \/ _finalize_directories \/ _restore_completed_directory_metadata
           \/ Returns \/ Cancels \/ Pauses
    PROVE  Smooth'
<1>1. /\ ~ Working /\ UNCHANGED << fs, cleared, request, pauses, meddled >>
      /\ pending \subseteq Ops /\ status \in [Ops -> Outcome]
  BY DEF Start, LoopEnds, _finalize_directories, _restore_completed_directory_metadata, Returns,
     Cancels, Pauses, Working, IInv, Booked, TypeOK, diskVars, envVars, Smooth, Unpaused
<1>2. ASSUME Reasoned', Unpaused', ~ Working', \A o \in Ops \ meddled : Clean(o)'
      PROVE  Smooth'
  BY <1>1, <1>2 DEF Smooth
<1>3. Reasoned /\ \A o \in Ops \ meddled : Clean(o)
  BY DEF Smooth
<1>4. CASE Start
  <2>1. /\ stage = "next" /\ stage' = "next" /\ run = "ready" /\ UNCHANGED << status, reason, ending >>
        /\ run' \in { "executing", "done" } /\ pending = {}
    BY <1>4 DEF Start, Smooth, Unpaused, IInv, Booked
  <2>2. ~ Working' /\ Unpaused' /\ Reasoned'
    BY <1>1, <1>3, <2>1 DEF Working, Smooth, Unpaused, Reasoned
  <2>3. \A o \in Ops : Due(o)' => Due(o)
    BY <1>1, <2>1 DEF Due
  <2> QED
    BY <1>1, <1>2, <1>3, <2>1, <2>2, <2>3, CleanStays
<1>5. CASE LoopEnds \/ _finalize_directories \/ _restore_completed_directory_metadata
           \/ Returns \/ Cancels
  <2>1. stage' = "wrapup" /\ run' # "paused" /\ run' # "ready" /\ ending' # "pause"
    BY <1>5 DEF LoopEnds, _finalize_directories, _restore_completed_directory_metadata, Returns,
       Cancels, Smooth, Unpaused, loopVars
  <2>2. ~ Working' /\ Unpaused' /\ \A o \in Ops : ~ Due(o)'
    BY <1>1, <2>1 DEF Working, Smooth, Unpaused, Due
  <2>3. Reasoned' /\ \A o \in Ops : reason'[o] = reason[o] \/ reason'[o] \notin Collisions
    <3>1. Reasoned' /\ \A o \in Ops : reason'[o] \in { reason[o], "none", "io-error", "canceled" }
      <4>1. CASE reason' = reason
        BY <1>3, <4>1 DEF Reasoned
      <4>2. CASE _finalize_directories
        <5>1. PICK d \in Ops : \/ _settle(d, "succeeded", "none")
                               \/ _settle(d, "failed", "io-error")
          BY <1>1, <4>2 DEF _finalize_directories
        <5> QED
          BY <1>1, <1>3, <5>1, SettleIs
      <4>3. CASE reason' = [o \in Ops |-> IF status[o] = "none" THEN "canceled" ELSE reason[o]]
        <5>1. \A o \in Ops : reason'[o] = IF status[o] = "none" THEN "canceled" ELSE reason[o]
          BY <4>3
        <5>2. reason' = [o \in Ops |-> reason'[o]]
          BY <4>3, <5>1
        <5> QED
          BY <5>1, <5>2 DEF Reasoned
      <4> QED
        BY <1>5, <4>1, <4>2, <4>3 DEF LoopEnds, _restore_completed_directory_metadata, Returns,
           Cancels, bookVars
    <3> QED
      BY <3>1 DEF Collisions
  <2> QED
    BY <1>1, <1>2, <1>3, <2>2, <2>3, CleanStays
<1>6. ~ Pauses
  BY DEF Pauses, Smooth, Unpaused
<1> QED
  BY <1>4, <1>5, <1>6

\* The step to the next operation of the plan.
LEMMA AdvanceSmooth ==
    ASSUME IInv, Smooth, Advance
    PROVE  Smooth'
<1> DEFINE o == Plan[pos + 1]
<1>1. /\ run = "executing" /\ stage = "next" /\ ~ Working
      /\ UNCHANGED << fs, cleared, run, pending, request, pauses, meddled, cont >>
  BY DEF Advance, diskVars, envVars, Working
<1>2. o \in Ops /\ op' = o /\ pos + 1 \in DOMAIN Plan /\ cont = "none"
  BY <1>1, PlanAssumption DEF Advance, IInv, TypeOK, Ops, op, InHand, ContInHand
<1>3. o \notin pending
  BY <1>2, PlanAssumption DEF IInv, Booked, TypeOK
<1>4. /\ Reasoned'
      /\ \A x \in Ops : /\ status'[x] = status[x] \/ status'[x] # "none"
                        /\ reason'[x] = reason[x] \/ reason'[x] \notin Collisions
  <2>1. CASE UNCHANGED << status, reason >>
    BY <2>1 DEF Smooth, Reasoned
  <2>2. CASE \/ _settle(o, "canceled", "policy-stop")
             \/ _settle(o, "deferred", "dependency-failed")
    <3>1. status \in [Ops -> Outcome] /\ Reasoned
      BY DEF IInv, TypeOK, Smooth
    <3> HIDE DEF o
    <3> QED
      BY <1>2, <2>2, <3>1, SettleIs DEF Collisions
  <2> QED
    BY <2>1, <2>2 DEF Advance
<1>5. \A x \in Ops : Due(x)' => Due(x)
  BY <1>1, <1>4 DEF Due
<1>6. \A x \in Ops \ meddled : Clean(x)'
  BY <1>1, <1>4, <1>5, CleanStays DEF Smooth
<1>7. Unpaused'
  BY <1>1 DEF Advance, Smooth, Unpaused
<1>8. ASSUME Working', o \notin meddled
      PROVE  Halfway'
  <2>1. stage' = Entry[Kind[o]] /\ status[o] = "none"
    BY <1>1, <1>8 DEF Advance, Working
  <2>2. stage' \in { "prepare", "check", "mkdir" }
    BY <1>2, <2>1, Entries
  <2>3. Pristine(o)
    BY <1>1, <1>2, <1>3, <1>8, <2>1 DEF Smooth, Clean, Due
  <2>4. Pristine(op)'
    BY <1>1, <1>2, <2>3, PristineStays DEF Pristine
  <2> QED
    BY <1>1, <1>2, <2>2, <2>4 DEF Halfway
<1> QED
  BY <1>1, <1>2, <1>4, <1>6, <1>7, <1>8 DEF Smooth

\* The outcome of the operation in hand, or the start of a directory.
LEMMA SettledSmooth ==
    ASSUME IInv, Recoverable, Smooth, _start_directory \/ Record \/ GiveUp
    PROVE  Smooth'
<1>1. /\ Working /\ pos' = pos
      /\ UNCHANGED << cleared, run, ending, request, pauses, meddled >>
  BY DEF _start_directory, Record, GiveUp, Works, Working, loopVars, envVars, diskVars
<1>2. /\ op \in Ops /\ op' = op /\ run = "executing" /\ status \in [Ops -> Outcome]
      /\ fs \in Disk /\ cont \in { "none", "prepared", "published" }
      /\ status[op] = "none" /\ op \notin pending
  BY <1>1, WorkingOp, IsTyped DEF op, IInv, TypeOK, Typed
<1>3. Unpaused'
  BY <1>1, <1>2 DEF Smooth, Unpaused
<1>4. \A x \in Ops \ { op } : fs'[x] = fs[x]
  <2>1. fs' = fs \/ Writes
    BY ExecuteWrites DEF Execute
  <2> QED
    BY <1>2, <2>1, WriteSpares
<1>5. fs'[op].source = fs[op].source
  <2>1. fs' = fs \/ Writes
    BY ExecuteWrites DEF Execute
  <2> QED
    BY <1>2, <2>1, WriteSpares
<1>6. /\ Reasoned'
      /\ \A x \in Ops \ { op } : /\ status'[x] = status[x] /\ reason'[x] = reason[x]
                                 /\ x \in pending => x \in pending'
  <2>1. Reasoned
    BY DEF Smooth
  <2>2. \/ UNCHANGED << status, reason >>
        \/ \E outcome, r : _settle(op, outcome, r)
    BY DEF _start_directory, Record, GiveUp
  <2>3. Reasoned' /\ \A x \in Ops \ { op } : status'[x] = status[x] /\ reason'[x] = reason[x]
    <3>1. CASE UNCHANGED << status, reason >>
      BY <2>1, <3>1 DEF Reasoned
    <3> QED
      BY <1>2, <2>1, <2>2, <3>1, SettleIs
  <2>4. pending \subseteq pending'
    BY DEF _start_directory, Record, GiveUp
  <2> QED
    BY <2>3, <2>4
<1>7. \A x \in (Ops \ meddled) \ { op } : Clean(x)'
  <2> SUFFICES ASSUME NEW x \in Ops, x \notin meddled, x # op
               PROVE  Clean(x)'
    OBVIOUS
  <2>1. stage # "wrapup"
    BY <1>1 DEF Working
  <2>2. /\ status'[x] = status[x] /\ reason'[x] = reason[x] /\ fs'[x] = fs[x]
        /\ x \in pending => x \in pending'
    BY <1>2, <1>4, <1>6
  <2>3. Due(x)' => Due(x)
    BY <1>2, <2>1, <2>2 DEF Due
  <2>4. Clean(x)
    BY DEF Smooth
  <2> QED
    BY <1>1, <2>2, <2>3, <2>4, CleanStays
\* Once it is put aside, it is not due any more.
<1>8. ASSUME stage' = "next", status'[op] # "none" \/ op \in pending',
             op \notin meddled => reason'[op] = reason[op] \/ reason'[op] \notin Collisions
      PROVE  Smooth'
  <2>1. ~ Working' /\ ~ Due(op)'
    BY <1>2, <1>8 DEF Working, Due
  <2>2. op \notin meddled => Clean(op)'
    BY <1>2, <1>5, <1>8, <2>1 DEF Smooth, Clean, Expected
  <2>3. \A x \in Ops \ meddled : Clean(x)'
    BY <1>2, <1>7, <2>2
  <2> QED
    BY <1>1, <1>3, <1>6, <2>1, <2>3 DEF Smooth
<1>9. CASE _start_directory
  <2>1. stage = "mkdir" /\ Kind[op] = "mkdir" /\ stage' = "next"
    BY <1>9 DEF _start_directory, Works, Goes
  <2>2. ASSUME op \notin meddled
        PROVE  Drift(Guarded.mkdir) = "none"
    <3>1. cont = "none"
      BY <1>2, <2>1 DEF IInv, InHand, ContInHand
    <3>2. Pristine(op)
      BY <1>1, <2>1, <2>2, <3>1 DEF Smooth, Halfway
    <3> QED
      BY <1>2, <2>1, <3>2, PristineGuarded DEF Guarded
  <2>3. status'[op] # "none" \/ op \in pending'
    BY <1>2, <1>9 DEF _start_directory, _settle
  <2>4. op \notin meddled => reason'[op] \in { reason[op], "io-error" }
    <3>1. op \notin meddled => UNCHANGED reason \/ _settle(op, "failed", "io-error")
      BY <1>9, <2>2 DEF _start_directory
    <3> QED
      BY <1>2, <3>1, SettleIs DEF Smooth
  <2> QED
    BY <1>8, <2>1, <2>3, <2>4 DEF Collisions
<1>10. CASE GiveUp
  <2>1. stage = "caught" /\ stage' = "next" /\ status'[op] = "failed"
    BY <1>2, <1>10 DEF GiveUp, Goes, _settle
  <2>2. reason'[op] \in { reason[op], "cleanup-failed", why }
    <3>1. \/ _settle(op, "failed", "cleanup-failed")
          \/ _settle(op, "failed", why)
      BY <1>10 DEF GiveUp
    <3> QED
      BY <1>2, <3>1, SettleIs DEF Smooth
  <2>3. op \notin meddled => why \notin Collisions
    BY <1>1, <2>1 DEF Smooth, Halfway
  <2> QED
    BY <1>8, <2>1, <2>2, <2>3 DEF Collisions
<1>11. CASE Record
  <2>1. UNCHANGED << fs, pending >> /\ stage = "record"
    BY <1>11 DEF Record, Works, diskVars
  <2>2. CASE stage' = "next" /\ status'[op] # "none" /\ reason'[op] \in { reason[op], "noop", "none" }
    BY <1>8, <2>2 DEF Collisions
  <2>3. CASE /\ Kind[op] \notin { "noop", "delete", "rmdir", "move_update" } /\ Fails("stat")
             /\ UNCHANGED << cont, status, reason >>
    <3>1. Kind[op] \in { "update", "recase" }
      BY <1>2, <1>11, <2>3, Recovers, PlanAssumption DEF Record, Works, Fails, OperationKind
    <3>2. stage' = "caught" /\ why' \notin Collisions
      BY <2>3 DEF Fails, Raises, Collisions
    <3>3. ASSUME op \notin meddled
          PROVE  Halfway'
      <4>1. CASE Kind[op] = "update"
        <5>1. cont = "published"
          BY <1>1, <2>1, <3>3, <4>1 DEF Smooth, Halfway
        <5>2. cont' = "published" /\ op' = op /\ Kind[op] # "move_update"
          BY <1>2, <2>3, <4>1, <5>1
        <5> QED
          BY <3>2, <5>2 DEF Halfway
      <4>2. CASE Kind[op] = "recase"
        <5>1. cont = "none"
          BY <1>2, <4>2 DEF IInv, InHand, ContInHand
        <5>2. Pristine(op)
          BY <1>1, <2>1, <3>3, <4>2, <5>1 DEF Smooth, Halfway
        <5>3. Pristine(op)'
          BY <1>1, <1>2, <2>1, <5>2, PristineStays DEF Pristine
        <5> QED
          BY <1>2, <2>3, <3>2, <4>2, <5>1, <5>3 DEF Halfway
      <4> QED
        BY <3>1, <4>1, <4>2
    <3>4. Working' /\ ~ Due(op)'
      BY <1>2, <3>2 DEF Working, Due
    <3>5. op \notin meddled => Clean(op)'
      BY <1>2, <1>5, <2>3, <3>4 DEF Smooth, Clean, Expected
    <3> QED
      BY <1>1, <1>2, <1>3, <1>6, <1>7, <3>3, <3>5 DEF Smooth
  <2>4. ASSUME \/ _settle(op, "skipped", "noop")
               \/ _settle(op, "succeeded", "none")
        PROVE  status'[op] # "none" /\ reason'[op] \in { "noop", "none" }
    BY <1>2, <2>4, SettleIs DEF Smooth
  <2> QED
    BY <1>11, <2>2, <2>3, <2>4 DEF Record, Goes
<1> QED
  BY <1>9, <1>10, <1>11

LEMMA SmoothKept ==
    ASSUME IInv, Recoverable, Smooth, Next
    PROVE  Smooth'
<1>1. CASE Works_on
  <2>1. /\ Working /\ Stays /\ UNCHANGED pauses
        /\ IF stage' = "wrapup" THEN ending' = request /\ request # "none" ELSE ending' = ending
    BY <1>1, WorkStep
  <2>2. op \in Ops /\ op' = op /\ run = "executing"
    BY <2>1, WorkingOp DEF Stays, op
  <2>3. UNCHANGED reason /\ \A x \in Ops \ { op } : x \in cleared' => x \in cleared
    BY <1>1 DEF Works_on, Prepare, Stream, Prepared, Publish, Backup, copy_backup, Backed, Recheck,
       Replace, Dress, Retire, Rename, Check, Remove, Retry, bookVars, diskVars, Unrestored
  <2>4. fs' = fs \/ Writes
    BY <1>1, ExecuteWrites DEF Works_on, Execute
  <2>5. /\ \A x \in Ops \ { op } : fs'[x] = fs[x]
        /\ fs'[op].source = fs[op].source
    BY <2>2, <2>4, WriteSpares
  <2>6. Unpaused' /\ Reasoned'
    BY <2>1, <2>2, <2>3 DEF Stays, Smooth, Unpaused, Reasoned
  <2>7. \A x \in Ops \ { op } : Due(x)' => Due(x)
    <3>1. stage # "wrapup"
      BY <2>1 DEF Working
    <3> QED
      BY <2>1, <2>2, <3>1 DEF Stays, Due
  <2>8. \A x \in (Ops \ meddled) \ { op } : Clean(x)'
    BY <2>3, <2>5, <2>7, CleanStays DEF Smooth
  <2>9. op \notin meddled => Clean(op)'
    <3>1. ~ Due(op)'
      <4>1. stage' # "next"
        BY <1>1, WorkStep
      <4> QED
        BY <2>2, <4>1 DEF Due, Working
    <3> QED
      BY <2>2, <2>3, <2>5, <3>1 DEF Smooth, Clean, Expected
  <2>10. Working' /\ op \notin meddled => Halfway'
    BY <1>1, <2>1, <2>2, HalfwayKept DEF Smooth
  <2> QED
    BY <2>1, <2>2, <2>6, <2>8, <2>9, <2>10 DEF Smooth, Stays
<1>2. CASE Start \/ LoopEnds \/ _finalize_directories \/ _restore_completed_directory_metadata
           \/ Returns \/ Cancels \/ Pauses
  BY <1>2, BetweenSmooth
<1>3. CASE Advance
  BY <1>3, AdvanceSmooth
<1>4. CASE _start_directory \/ Record \/ GiveUp
  BY <1>4, SettledSmooth
<1>5. CASE Control
  <2>1. /\ UNCHANGED << fs, cleared, bare, stage, pos, ending, cont, why, pending, status, reason, meddled, run, pauses >>
        /\ request' = "cancel"
    BY <1>5 DEF Control, Smooth, Unpaused, Recoverable, diskVars, tryVars, bookVars
  <2>2. op' = op /\ (Working' <=> Working) /\ Unpaused' /\ Reasoned'
    BY <2>1 DEF op, Working, Smooth, Unpaused, Reasoned
  <2>3. \A x \in Ops : Clean(x) => Clean(x)'
    <3>1. \A x \in Ops : Due(x)' => Due(x)
      BY <2>1, <2>2 DEF Due
    <3> QED
      BY <2>1, <3>1, CleanStays
  <2>4. Halfway => Halfway'
    BY <2>1, <2>2 DEF Halfway, Pristine, Expected
  <2> QED
    BY <2>1, <2>2, <2>3, <2>4 DEF Smooth
<1>6. CASE Meddle
  <2>1. UNCHANGED << cleared, stage, pos, ending, cont, why, pending, status, reason, run, pauses, request >>
    BY <1>6 DEF Meddle, loopVars, tryVars, bookVars
  <2>2. op' = op /\ (Working' <=> Working) /\ Unpaused' /\ Reasoned'
    BY <2>1 DEF op, Working, Smooth, Unpaused, Reasoned
  <2>3. \A x \in Ops \ meddled' : fs'[x] = fs[x] /\ x \notin meddled
    <3>1. PICK o \in Ops : /\ meddled' = meddled \cup { o }
                           /\ fs' = Put(o, "source", "drift") \/ fs' = Put(o, "target", "foreign")
      BY <1>6 DEF Meddle
    <3>2. fs \in Disk
      BY IsTyped DEF Typed
    <3> QED
      BY <3>1, <3>2, PutIs DEF Place, Content
  <2>4. \A x \in Ops \ meddled' : Clean(x)'
    <3>1. \A x \in Ops : Due(x)' => Due(x)
      BY <2>1, <2>2 DEF Due
    <3> QED
      BY <2>1, <2>3, <3>1, CleanStays DEF Smooth
  <2>5. ASSUME Working, op \notin meddled'
        PROVE  Halfway'
    <3>1. op \in Ops
      BY <2>5, WorkingOp
    <3>2. Halfway /\ fs'[op] = fs[op]
      BY <2>3, <2>5, <3>1 DEF Smooth
    <3> QED
      BY <2>1, <2>2, <3>2 DEF Halfway, Pristine, Expected
  <2> QED
    BY <2>2, <2>4, <2>5 DEF Smooth
<1> QED
  BY <1>1, <1>2, <1>3, <1>4, <1>5, <1>6 DEF Next, Execute, Works_on

\* In a run that is not paused, an operation whose files nobody else touched
\* never fails for what its own earlier attempt did, as long as no call raises
\* that the code has no continuation for: _update and _move_update go on where
\* they had come to, everything else starts again on the files as they were.
THEOREM RetriesDoNotCollide == Recoverable /\ Spec => []NoSelfCollision
<1> SUFFICES ASSUME Recoverable PROVE Spec => []NoSelfCollision
  OBVIOUS
<1>1. Init => Smooth
  <2> SUFFICES ASSUME Init PROVE Smooth
    OBVIOUS
  <2>1. \A o \in Ops : Clean(o)
    <3> SUFFICES ASSUME NEW o \in Ops PROVE Clean(o)
      OBVIOUS
    <3>1. \A p \in Place : fs[o][p] = Expected(o, p)
      BY DEF Init
    <3>2. fs[o].trash = "none"
      BY <3>1 DEF Place, Expected
    <3> QED
      BY <3>1, <3>2 DEF Init, Clean, Pristine, Collisions, Place
  <2> QED
    BY <2>1 DEF Init, Smooth, Reasoned, Unpaused, Working
<1>2. Smooth /\ UNCHANGED vars => Smooth'
  BY DEF Smooth, Reasoned, Unpaused, Clean, Due, Pristine, Expected, Halfway, Working, op, vars, diskVars,
     loopVars, tryVars, bookVars, envVars
<1>3. IInv /\ Smooth /\ [Next]_vars => Smooth'
  BY <1>2, SmoothKept
<1>4. Smooth => NoSelfCollision
  BY DEF Smooth, Clean, Collisions, NoSelfCollision
<1> QED
  BY <1>1, <1>3, <1>4, Invariance, PTL DEF Spec
=============================================================================
