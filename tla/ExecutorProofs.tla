--------------------------- MODULE ExecutorProofs ---------------------------
(***************************************************************************)
(* Proofs about Executor, for every plan, every set of calls that may fail *)
(* and any number of faults, pauses and changes by other programs: the     *)
(* types, what is on the disk in every state and so after every crash, and *)
(* what an outcome that is reported says of the disk.                      *)
(*                                                                         *)
(* The inductive invariant has three parts.  Booked says where the loop is *)
(* and which operations have an outcome.  OpInv says of every operation    *)
(* which files are where.  InHand says how far the one in hand has come.   *)
(***************************************************************************)
EXTENDS Executor, TLAPS

Stage ==
    { "next", "wrapup", "mkdir", "prepare", "stream", "prepared", "publish", "backup", "backing",
      "backed", "recheck", "replace", "dress", "retire", "check", "rename", "remove", "record", "caught" }

\* execute is at work on Plan[pos].
Working == stage \notin { "next", "wrapup" }

\* An operation in hand has no outcome yet, nor has a directory that waits for
\* the end of the run.
Booked ==
    /\ stage \in Stage
    /\ request \in { "none", "pause", "cancel" }
    /\ Working => run = "executing" /\ pos # 0 /\ status[op] = "none"
    /\ \A d \in pending : Kind[d] = "mkdir" /\ status[d] = "none"
    /\ \A i \in DOMAIN Plan : Plan[i] \in pending => i <= pos /\ (Working => i < pos)
    /\ run # "executing" => pending = {}

\* Only whole files are at places that last.
Whole(o) ==
    /\ { fs[o].target, fs[o].trash, fs[o].prior } \cap { "part", "drift" } = {}
    /\ "torn" \notin { fs[o].target, fs[o].prior }
    /\ fs[o].trash = "torn" => o \in meddled
    /\ fs[o].source \in { "none", "new", "drift" }
    /\ Kind[o] \in Sourced => fs[o].source # "none"

\* The displaced version is at one of its places.
Kept(o) ==
    /\ Kind[o] = "recase" => fs[o].prior = "old"
    /\ Kind[o] = "move_update" => "old" \in { fs[o].prior, fs[o].trash }
    /\ Kind[o] = "move" /\ o \notin meddled => "old" \in { fs[o].prior, fs[o].target }
    /\ Kind[o] = "trash" /\ o \notin meddled => "old" \in { fs[o].target, fs[o].trash }
    /\ Kind[o] = "update" /\ o \notin meddled =>
          /\ fs[o].target \in { "old", "new" }
          /\ TrashOnUpdate => "old" \in { fs[o].target, fs[o].trash }

\* A reported success is on the disk, and a directory that waits for the end of
\* the run has been made.
Done(o) ==
    /\ Kind[o] \notin Copying => fs[o].temp = "none"
    /\ o \in bare => Kind[o] \in Copying \cup { "mkdir" }
    /\ o \in cleared => Kind[o] \in { "update", "delete", "rmdir" }
    /\ status[o] = "skipped" => Kind[o] = "noop"
    /\ status[o] \in { "succeeded", "skipped" } /\ o \notin meddled => Applied(o)
    /\ o \in pending /\ o \notin meddled => fs[o].target = "dir"

OpInv(o) == Whole(o) /\ Kept(o) /\ Done(o)

\* The temp of the operation in hand: it is whole before it is published, and
\* gone after that.
TempInHand ==
    /\ stage = "stream" => Kind[op] \in Copying /\ fs[op].temp = "part"
    /\ stage = "prepared" =>
          /\ Kind[op] \in Copying
          /\ fs[op].temp \in { "new", "drift" }
          /\ fs[op].source = "new" => fs[op].temp = "new"
    /\ stage \in { "publish", "backup", "backing", "backed", "replace" } =>
          Kind[op] \in Copying /\ fs[op].temp = "new"
    /\ stage \in { "dress", "retire" } => Kind[op] \in Copying /\ fs[op].temp = "none"

\* The continuation of an update has the displaced version in the trash.
ContInHand ==
    /\ cont # "none" => Working
    /\ stage \in { "recheck", "replace" } => cont = "prepared"
    /\ stage \in { "prepare", "stream", "prepared", "publish", "backup", "backing", "backed" } =>
          cont = "none"
    /\ cont = "prepared" =>
          /\ Kind[op] = "update"
          /\ fs[op].temp \in { "new", "none" }
          /\ TrashOnUpdate /\ op \notin meddled => fs[op].trash = "old"
          /\ op \notin meddled => live = "old"
    /\ cont = "published" => Kind[op] \in { "update", "move_update" } /\ fs[op].temp = "none"

\* How much of its effect the operation in hand has had, if nobody else touched
\* its files.
EffectInHand ==
    /\ stage \in { "backup", "backing", "backed" } /\ op \notin meddled => fs[op].target = "old"
    /\ stage = "backing" /\ op \notin meddled => live = "old"
    /\ stage = "backed" /\ op \notin meddled /\ TrashOnUpdate => fs[op].trash = "old"
    /\ (stage = "dress" \/ cont = "published") /\ op \notin meddled =>
          /\ fs[op].target = "new"
          /\ Kind[op] = "update" /\ TrashOnUpdate => fs[op].trash = "old"
    /\ stage = "retire" => Kind[op] = "move_update" /\ op \notin bare
    /\ stage = "retire" /\ op \notin meddled => fs[op].target = "new"
    /\ stage = "rename" /\ Kind[op] = "move" => fs[op].prior = "old"
    /\ stage = "rename" /\ Kind[op] = "trash" /\ op \notin meddled => fs[op].target = "old"
    /\ stage = "record" /\ op \notin meddled => Applied(op)

InHand == TempInHand /\ ContInHand /\ EffectInHand

IInv == TypeOK /\ Booked /\ (\A o \in Ops : OpInv(o)) /\ InHand

-----------------------------------------------------------------------------
(***************************************************************************)
(* Facts about the plan and the guards.                                    *)
(***************************************************************************)
LEMMA OpOfPlan ==
    ASSUME TypeOK, pos # 0
    PROVE  pos \in DOMAIN Plan /\ op \in Ops
BY PlanAssumption DEF TypeOK, Ops, op

LEMMA PlaceOfPlan ==
    ASSUME NEW o \in Ops
    PROVE  \E i \in DOMAIN Plan : Plan[i] = o
BY DEF Ops

\* When no guard fails, every place it looks at is as the plan expects.
LEMMA GuardsHold ==
    ASSUME NEW places, Drift(places) = "none", NEW i \in DOMAIN places
    PROVE  _matches_expected(op, places[i])
BY DEF Drift

LEMMA PairGuarded ==
    ASSUME Drift(<< "source", "target" >>) = "none", op \in Ops, Kind[op] \in Copying
    PROVE  /\ fs[op].source = "new"
           /\ Kind[op] = "update" => fs[op].target = "old"
<1> DEFINE places == << "source", "target" >>
<1>1. _matches_expected(op, "source")
  <2>1. 1 \in DOMAIN places /\ places[1] = "source"
    OBVIOUS
  <2> QED
    BY <2>1, GuardsHold
<1>2. _matches_expected(op, "target")
  <2>1. 2 \in DOMAIN places /\ places[2] = "target"
    OBVIOUS
  <2> QED
    BY <2>1, GuardsHold
<1> QED
  BY <1>1, <1>2 DEF _matches_expected, Expected, Copying, Sourced, Displacing

\* What the guards say before an operation that relocates or removes.
LEMMA CheckGuarded ==
    ASSUME Drift(Guarded[Kind[op]]) = "none", op \in Ops
    PROVE  /\ Kind[op] = "move" => fs[op].prior = "old"
           /\ Kind[op] \in { "trash", "noop" } => fs[op].target = "old" /\ op \notin cleared
<1>1. ASSUME Kind[op] = "move"
      PROVE  _matches_expected(op, "prior")
  <2>1. 1 \in DOMAIN Guarded[Kind[op]] /\ Guarded[Kind[op]][1] = "prior"
    BY <1>1 DEF Guarded
  <2> QED
    BY <2>1, GuardsHold
<1>2. ASSUME Kind[op] = "trash"
      PROVE  _matches_expected(op, "target")
  <2>1. 1 \in DOMAIN Guarded[Kind[op]] /\ Guarded[Kind[op]][1] = "target"
    BY <1>2 DEF Guarded
  <2> QED
    BY <2>1, GuardsHold
<1>3. ASSUME Kind[op] = "noop"
      PROVE  _matches_expected(op, "target")
  <2>1. 2 \in DOMAIN Guarded[Kind[op]] /\ Guarded[Kind[op]][2] = "target"
    BY <1>3 DEF Guarded
  <2> QED
    BY <2>1, GuardsHold
<1> QED
  BY <1>1, <1>2, <1>3 DEF _matches_expected, Expected, Displacing, Relocating

LEMMA MkdirGuarded ==
    ASSUME Drift(Guarded.mkdir) = "none", op \in Ops, Kind[op] = "mkdir"
    PROVE  fs[op].target = "none"
<1>1. 1 \in DOMAIN Guarded.mkdir /\ Guarded.mkdir[1] = "target"
  BY DEF Guarded
<1>2. _matches_expected(op, "target")
  BY <1>1, GuardsHold
<1> QED
  BY <1>2 DEF _matches_expected, Expected, Displacing

-----------------------------------------------------------------------------
(***************************************************************************)
(* Framing.  A step touches the files of one operation at most.            *)
(***************************************************************************)
\* The step leaves o's files alone, and does not report that o succeeded.
Untouched(o) ==
    /\ fs'[o] = fs[o]
    /\ status'[o] = status[o] \/ status'[o] \in { "failed", "canceled", "deferred" }
    /\ o \in pending' => o \in pending
    /\ o \in cleared' => o \in cleared
    /\ o \in bare' => o \in bare \/ Kind[o] = "mkdir"
    /\ o \in meddled => o \in meddled'

LEMMA Frame ==
    ASSUME NEW o \in Ops, OpInv(o), Untouched(o)
    PROVE  OpInv(o)'
<1>1. Whole(o)'
  BY DEF OpInv, Whole, Untouched
<1>2. Kept(o)'
  BY DEF OpInv, Kept, Untouched
<1>3. Applied(o) => Applied(o)'
  BY DEF Applied, Untouched
<1>4. Done(o)'
  BY <1>3 DEF OpInv, Done, Untouched
<1> QED
  BY <1>1, <1>2, <1>4 DEF OpInv

LEMMA Assembled ==
    ASSUME IInv, TypeOK', Booked', InHand', \A o \in Ops : Untouched(o) \/ OpInv(o)'
    PROVE  IInv'
<1>1. \A o \in Ops : OpInv(o)'
  BY Frame DEF IInv
<1> QED
  BY <1>1 DEF IInv

LEMMA WorkingOp ==
    ASSUME IInv, Working
    PROVE  op \in Ops /\ pos \in DOMAIN Plan /\ run = "executing" /\ status[op] = "none" /\ op \notin pending
<1>1. pos # 0
  BY DEF IInv, Booked
<1>2. pos \in DOMAIN Plan /\ op \in Ops
  BY <1>1, OpOfPlan DEF IInv
<1>3. op \notin pending
  BY <1>2 DEF IInv, Booked, op, TypeOK
<1> QED
  BY <1>2, <1>3 DEF IInv, Booked

\* Nothing of the operation in hand matters any more once it is put aside.
LEMMA PutAside ==
    ASSUME stage' \in { "next", "wrapup" }, cont' = "none"
    PROVE  InHand'
BY DEF InHand, TempInHand, ContInHand, EffectInHand, Working

-----------------------------------------------------------------------------
(***************************************************************************)
(* What the writes leave behind.                                           *)
(***************************************************************************)
Disk == [Ops -> [Place -> Content]]

LEMMA PutIs ==
    ASSUME fs \in Disk, NEW o \in Ops, NEW p \in Place, NEW v \in Content, fs' = Put(o, p, v)
    PROVE  /\ fs' \in Disk
           /\ \A x \in Ops \ { o } : fs'[x] = fs[x]
           /\ fs'[o][p] = v
           /\ \A q \in Place \ { p } : fs'[o][q] = fs[o][q]
BY DEF Disk, Put

LEMMA MovedIs ==
    ASSUME fs \in Disk, NEW o \in Ops, NEW from \in Place, NEW to \in Place, from # to,
           fs' = Moved(o, from, to)
    PROVE  /\ fs' \in Disk
           /\ \A x \in Ops \ { o } : fs'[x] = fs[x]
           /\ fs'[o][to] = fs[o][from]
           /\ fs'[o][from] = "none"
           /\ \A q \in Place \ { from, to } : fs'[o][q] = fs[o][q]
BY DEF Disk, Moved, Content

LEMMA BackedUpIs ==
    ASSUME fs \in Disk, op \in Ops, NEW v \in Content, fs' = BackedUp(v)
    PROVE  /\ fs' \in Disk
           /\ \A x \in Ops \ { op } : fs'[x] = fs[x]
           /\ fs'[op].trash = v
           /\ \A q \in { "source", "target", "prior", "temp" } : fs'[op][q] = fs[op][q]
BY DEF Disk, BackedUp, Content, Place

\* op' = op, since the loop stays where it is.
Stays == UNCHANGED << run, pos, stop, pending, restore, fsFailed, status, recorded, request, meddled,
                     forgotten >>

\* The bookkeeping of a step that only works on the operation in hand.
LEMMA Bookkeeping ==
    ASSUME IInv, Working, Stays, stage' \in Stage,
           ending' = ending \/ (ending' = request /\ request # "none"),
           attempt' \in 0 .. MaxRetries + 1, fs' \in Disk, bare' \subseteq Ops,
           cleared' \subseteq Ops, inflight' \in BOOLEAN,
           cont' \in { "none", "prepared", "published" }, live' \in Content
    PROVE  TypeOK' /\ Booked'
<1>1. op' = op
  BY DEF Stays, op
<1>2. TypeOK'
  BY DEF IInv, TypeOK, Booked, Stays, Disk
<1>3. Booked'
  BY <1>1 DEF IInv, Booked, Working, Stays
<1> QED
  BY <1>2, <1>3

\* A step that works on the operation in hand, given what it does to that one.
LEMMA AtWork ==
    ASSUME IInv, Working, Stays, stage' \in Stage,
           ending' = ending \/ (ending' = request /\ request # "none"),
           attempt' \in 0 .. MaxRetries + 1, fs' \in Disk,
           \A o \in Ops \ { op } : fs'[o] = fs[o],
           bare' \subseteq Ops, \A o \in bare' \ bare : o = op \/ Kind[o] = "mkdir",
           cleared' \subseteq Ops, cleared' \ cleared \subseteq { op },
           inflight' \in BOOLEAN, cont' \in { "none", "prepared", "published" },
           live' \in Content, OpInv(op)', InHand'
    PROVE  IInv'
<1>1. TypeOK' /\ Booked'
  BY Bookkeeping
<1>2. \A o \in Ops \ { op } : Untouched(o)
  BY DEF Stays, Untouched
<1>3. op' = op
  BY DEF Stays, op
<1>4. \A o \in Ops : Untouched(o) \/ OpInv(o)'
  BY <1>2, <1>3
<1> QED
  BY <1>1, <1>4, Assembled

\* A step that ends in an exception and has changed no file.
LEMMA Caught ==
    ASSUME IInv, Working, Stays, stage' = "caught",
           UNCHANGED << fs, bare, ending, attempt, inflight, cont >>,
           live' \in Content, cont = "prepared" => live' = live,
           cleared' \subseteq cleared \cup { op },
           cleared' # cleared => Kind[op] \in { "update", "delete", "rmdir" }
    PROVE  IInv'
<1>1. op \in Ops /\ status[op] = "none" /\ op \notin pending /\ op' = op
  BY WorkingOp DEF Stays, op
<1>2. OpInv(op)'
  BY <1>1 DEF IInv, OpInv, Whole, Kept, Done, Stays
<1>3. InHand'
  BY <1>1 DEF IInv, InHand, TempInHand, ContInHand, EffectInHand, Working, Stays
<1>4. TypeOK /\ fs \in Disk
  BY DEF IInv, TypeOK, Disk
<1>5. /\ fs' \in Disk /\ bare' \subseteq Ops /\ cleared' \subseteq Ops /\ inflight' \in BOOLEAN
      /\ attempt' \in 0 .. MaxRetries + 1 /\ cont' \in { "none", "prepared", "published" }
  BY <1>1, <1>4 DEF TypeOK
<1> QED
  BY <1>1, <1>2, <1>3, <1>5, AtWork DEF Stage

-----------------------------------------------------------------------------
(***************************************************************************)
(* One lemma for each action.                                              *)
(***************************************************************************)
Typed ==
    /\ fs \in Disk
    /\ bare \subseteq Ops
    /\ cleared \subseteq Ops
    /\ attempt \in 0 .. MaxRetries + 1
    /\ inflight \in BOOLEAN
    /\ cont \in { "none", "prepared", "published" }
    /\ live \in Content
    /\ op \in Ops => Parents \subseteq Ops
    /\ \A d \in Parents : Kind[d] = "mkdir"

LEMMA IsTyped == ASSUME IInv PROVE Typed
BY PlanAssumption DEF IInv, TypeOK, Typed, Disk, Parents

\* The temp of the operation in hand is removed, or it stays.
LEMMA CleanedUp ==
    ASSUME IInv, op \in Ops, NEW failed \in BOOLEAN, _cleanup_inflight(failed)
    PROVE  /\ fs' \in Disk
           /\ \A x \in Ops \ { op } : fs'[x] = fs[x]
           /\ \A q \in { "source", "target", "prior", "trash" } : fs'[op][q] = fs[op][q]
           /\ fs'[op].temp \in { "none", fs[op].temp }
<1>1. fs \in Disk
  BY IsTyped DEF Typed
<1>2. CASE fs' = Put(op, "temp", "none")
  BY <1>1, <1>2, PutIs DEF Place, Content
<1>3. CASE fs' = fs
  BY <1>1, <1>3
<1> QED
  BY <1>2, <1>3 DEF _cleanup_inflight

\* A checkpoint that raises.
LEMMA UnwindsKeeps ==
    ASSUME IInv, Working, Stays, Unwinds, UNCHANGED << bare, cleared, attempt >>
    PROVE  IInv'
<1>1. op \in Ops /\ status[op] = "none" /\ op \notin pending /\ op' = op
  BY WorkingOp DEF Stays, op
<1>2. Typed
  BY IsTyped
<1>3. PICK failed \in BOOLEAN : _cleanup_inflight(failed)
  BY DEF Unwinds
<1>4. /\ fs' \in Disk
      /\ \A x \in Ops \ { op } : fs'[x] = fs[x]
      /\ \A q \in { "source", "target", "prior", "trash" } : fs'[op][q] = fs[op][q]
      /\ fs'[op].temp \in { "none", fs[op].temp }
      /\ inflight' = FALSE
  BY <1>1, <1>3, CleanedUp DEF _cleanup_inflight
<1>5. OpInv(op)'
  BY <1>1, <1>4 DEF IInv, OpInv, Whole, Kept, Done, Stays
<1>6. InHand'
  BY PutAside DEF Unwinds
<1> QED
  BY <1>1, <1>2, <1>4, <1>5, <1>6, AtWork DEF Unwinds, Stage, Typed, Content

LEMMA PrepareKeeps ==
    ASSUME IInv, Prepare
    PROVE  IInv'
<1>1. Working /\ Stays
  BY DEF Prepare, Works, Working, Stays, diskVars, loopVars, bookVars, envVars
<1>2. op \in Ops /\ status[op] = "none" /\ op \notin pending /\ op' = op
  BY <1>1, WorkingOp DEF Stays, op
<1>3. Typed /\ live' \in Content
  BY IsTyped DEF Typed, Content, Prepare, Unwinds, tryVars
<1>4. CASE UNCHANGED << fs, bare, inflight >> /\ stage' = "caught"
  BY <1>1, <1>3, <1>4, Caught DEF Prepare, loopVars
<1>5. CASE /\ fs' = Put(op, "temp", "part")
           /\ bare' = bare \cup Parents
           /\ inflight' = TRUE
           /\ stage' = "stream"
  <2>1. Kind[op] \in Copying /\ cont' = cont /\ cont = "none"
    BY DEF Prepare, Works, IInv, InHand, ContInHand
  <2>2. /\ fs' \in Disk
        /\ \A x \in Ops \ { op } : fs'[x] = fs[x]
        /\ \A q \in { "source", "target", "prior", "trash" } : fs'[op][q] = fs[op][q]
        /\ fs'[op].temp = "part"
    BY <1>2, <1>3, <1>5, PutIs DEF Typed, Place, Content
  <2>3. OpInv(op)'
    BY <1>1, <1>2, <1>3, <1>5, <2>1, <2>2 DEF IInv, OpInv, Whole, Kept, Done, Stays, Typed, Prepare
  <2>4. InHand'
    BY <1>2, <1>5, <2>1, <2>2 DEF InHand, TempInHand, ContInHand, EffectInHand, Working
  <2> QED
    BY <1>1, <1>2, <1>3, <1>5, <2>1, <2>2, <2>3, <2>4, AtWork DEF Prepare, Typed, Stage, loopVars
<1> QED
  BY <1>4, <1>5 DEF Prepare, Raises, Goes

LEMMA StreamKeeps ==
    ASSUME IInv, Stream
    PROVE  IInv'
<1>1. Working /\ Stays
  BY DEF Stream, Works, Working, Stays, diskVars, loopVars, bookVars, envVars
<1>2. op \in Ops /\ status[op] = "none" /\ op \notin pending /\ op' = op
  BY <1>1, WorkingOp DEF Stays, op
<1>3. Typed /\ live' \in Content /\ (Unwinds \/ live' = live)
  BY IsTyped DEF Typed, Content, Stream, Unwinds, tryVars
<1>4. CASE Unwinds
  BY <1>1, <1>4, UnwindsKeeps DEF Stream
<1>5. CASE UNCHANGED << fs, ending, inflight, cont, live >> /\ stage' = "caught"
  BY <1>1, <1>3, <1>5, Caught DEF Stream
<1>6. CASE /\ fs' = Put(op, "temp", fs[op].source)
           /\ stage' = "prepared"
           /\ UNCHANGED << ending, inflight, cont >>
  <2>1. Kind[op] \in Copying /\ cont = "none" /\ fs[op].source \in { "new", "drift" }
    BY <1>2 DEF Stream, Works, IInv, InHand, ContInHand, OpInv, Whole, Sourced
  <2>2. /\ fs' \in Disk
        /\ \A x \in Ops \ { op } : fs'[x] = fs[x]
        /\ \A q \in { "source", "target", "prior", "trash" } : fs'[op][q] = fs[op][q]
        /\ fs'[op].temp = fs[op].source
    BY <1>2, <1>3, <1>6, <2>1, PutIs DEF Typed, Place, Content
  <2>3. OpInv(op)'
    BY <1>1, <1>2, <2>1, <2>2 DEF IInv, OpInv, Whole, Kept, Done, Stays, Stream
  <2>4. InHand'
    BY <1>2, <1>6, <2>1, <2>2 DEF InHand, TempInHand, ContInHand, EffectInHand, Working
  <2> QED
    BY <1>1, <1>2, <1>3, <1>6, <2>1, <2>2, <2>3, <2>4, AtWork DEF Stream, Typed, Stage
<1> QED
  BY <1>4, <1>5, <1>6 DEF Stream, Raises, Goes, Fails

LEMMA PreparedKeeps ==
    ASSUME IInv, Prepared
    PROVE  IInv'
<1>1. Working /\ Stays
  BY DEF Prepared, Works, Working, Stays, diskVars, loopVars, bookVars, envVars
<1>2. op \in Ops /\ status[op] = "none" /\ op \notin pending /\ op' = op
  BY <1>1, WorkingOp DEF Stays, op
<1>3. Typed /\ live' \in Content /\ (Unwinds \/ live' = live)
  BY IsTyped DEF Typed, Content, Prepared, Unwinds, tryVars
<1>4. CASE Unwinds
  BY <1>1, <1>4, UnwindsKeeps DEF Prepared
<1>5. CASE UNCHANGED << fs, ending, inflight, cont, live >> /\ stage' = "caught"
  BY <1>1, <1>3, <1>5, Caught DEF Prepared
<1>6. CASE /\ Drift(<< "source", "target" >>) = "none"
           /\ stage' = IF Kind[op] = "update" THEN "backup" ELSE "publish"
           /\ UNCHANGED << fs, ending, inflight, cont >>
  <2>1. /\ Kind[op] \in Copying /\ cont = "none" /\ fs[op].temp = "new"
        /\ Kind[op] = "update" => fs[op].target = "old"
    BY <1>2, <1>6, PairGuarded DEF Prepared, Works, IInv, InHand, TempInHand, ContInHand
  <2>2. OpInv(op)'
    BY <1>1, <1>2, <1>6 DEF IInv, OpInv, Whole, Kept, Done, Stays, Prepared
  <2>3. InHand'
    BY <1>2, <1>6, <2>1 DEF InHand, TempInHand, ContInHand, EffectInHand, Working
  <2> QED
    BY <1>1, <1>2, <1>3, <1>6, <2>1, <2>2, <2>3, AtWork DEF Prepared, Typed, Stage
<1> QED
  BY <1>4, <1>5, <1>6 DEF Prepared, Raises, Goes, Fails

LEMMA PublishKeeps ==
    ASSUME IInv, Publish
    PROVE  IInv'
<1>1. Working /\ Stays
  BY DEF Publish, Works, Working, Stays, diskVars, loopVars, bookVars, envVars
<1>2. op \in Ops /\ status[op] = "none" /\ op \notin pending /\ op' = op
  BY <1>1, WorkingOp DEF Stays, op
<1>3. Typed /\ live' \in Content
  BY IsTyped DEF Typed, Content, Publish, Unwinds, tryVars
<1>4. CASE UNCHANGED << fs, bare, inflight, cont >> /\ stage' = "caught"
  BY <1>1, <1>3, <1>4, Caught DEF Publish, loopVars
<1>5. CASE /\ fs[op].target = "none"
           /\ fs' = Published
           /\ bare' = bare \cup Parents \cup { op }
           /\ \/ stage' = "caught" /\ UNCHANGED << inflight, cont >>
              \/ /\ stage' = "dress"
                 /\ inflight' = FALSE
                 /\ cont' = IF Kind[op] = "move_update" THEN "published" ELSE cont
  <2>1. Kind[op] \in { "copy", "move_update" } /\ cont = "none" /\ fs[op].temp = "new"
    BY <1>2 DEF Publish, Works, IInv, InHand, TempInHand, ContInHand
  <2>2. /\ fs' \in Disk
        /\ \A x \in Ops \ { op } : fs'[x] = fs[x]
        /\ \A q \in { "source", "prior", "trash" } : fs'[op][q] = fs[op][q]
        /\ fs'[op].target = "new"
        /\ fs'[op].temp = "none"
    BY <1>2, <1>3, <1>5, <2>1, MovedIs DEF Typed, Place, Content, Published
  <2>3. OpInv(op)'
    BY <1>1, <1>2, <1>5, <2>1, <2>2 DEF IInv, OpInv, Whole, Kept, Done, Stays, Publish, Copying
  <2>4. InHand'
    BY <1>2, <1>5, <2>1, <2>2 DEF InHand, TempInHand, ContInHand, EffectInHand, Working, Copying
  <2> QED
    BY <1>1, <1>2, <1>3, <1>5, <2>1, <2>2, <2>3, <2>4, AtWork DEF Publish, Typed, Stage, loopVars
<1> QED
  BY <1>4, <1>5 DEF Publish, Raises, Goes, Fails

LEMMA BackupKeeps ==
    ASSUME IInv, Backup
    PROVE  IInv'
<1>1. Working /\ Stays
  BY DEF Backup, Works, Working, Stays, diskVars, loopVars, bookVars, envVars
<1>2. op \in Ops /\ status[op] = "none" /\ op \notin pending /\ op' = op
  BY <1>1, WorkingOp DEF Stays, op
<1>3. Typed /\ live' \in Content
  BY <1>2, IsTyped DEF Typed, Disk, Place, Backup
<1>4. CASE UNCHANGED << fs, live >> /\ stage' = "caught"
  BY <1>1, <1>3, <1>4, Caught DEF Backup, loopVars
<1>0. /\ Kind[op] = "update" /\ cont = "none" /\ fs[op].temp = "new"
      /\ op \notin meddled => fs[op].target = "old"
  BY DEF Backup, Works, IInv, InHand, TempInHand, ContInHand, EffectInHand
<1>5. CASE ~ TrashOnUpdate /\ stage' = "backed" /\ UNCHANGED << fs, live >>
  <2>1. OpInv(op)'
    BY <1>1, <1>2, <1>5 DEF IInv, OpInv, Whole, Kept, Done, Stays, Backup
  <2>2. InHand'
    BY <1>1, <1>2, <1>5, <1>0 DEF InHand, TempInHand, ContInHand, EffectInHand, Working, Stays, Copying, Backup
  <2> QED
    BY <1>1, <1>2, <1>3, <1>5, <2>1, <2>2, AtWork DEF Backup, Typed, Stage, loopVars
<1>6. CASE fs' = Put(op, "trash", fs[op].target) /\ stage' = "backed"
  <2>1. /\ fs' \in Disk
        /\ \A x \in Ops \ { op } : fs'[x] = fs[x]
        /\ \A q \in { "source", "target", "prior", "temp" } : fs'[op][q] = fs[op][q]
        /\ fs'[op].trash = fs[op].target
    <3>1. fs[op].target \in Content
      BY <1>2, <1>3 DEF Typed, Disk, Place
    <3> QED
      BY <1>2, <1>3, <1>6, <3>1, PutIs DEF Typed, Place
  <2>2. OpInv(op)'
    BY <1>1, <1>2, <1>6, <1>0, <2>1 DEF IInv, OpInv, Whole, Kept, Done, Stays, Backup, Copying
  <2>3. InHand'
    BY <1>1, <1>2, <1>6, <1>0, <2>1 DEF InHand, TempInHand, ContInHand, EffectInHand, Working, Stays, Copying, Backup
  <2> QED
    BY <1>1, <1>2, <1>3, <1>6, <2>1, <2>2, <2>3, AtWork DEF Backup, Typed, Stage, loopVars
<1>7. CASE fs' = Put(op, "spare", "part") /\ live' = fs[op].target /\ stage' = "backing"
  <2>1. /\ fs' \in Disk
        /\ \A x \in Ops \ { op } : fs'[x] = fs[x]
        /\ \A q \in { "source", "target", "prior", "temp", "trash" } : fs'[op][q] = fs[op][q]
    BY <1>2, <1>3, <1>7, PutIs DEF Typed, Place, Content
  <2>2. OpInv(op)'
    BY <1>1, <1>2, <1>7, <2>1 DEF IInv, OpInv, Whole, Kept, Done, Stays, Backup
  <2>3. InHand'
    BY <1>1, <1>2, <1>7, <1>0, <2>1 DEF InHand, TempInHand, ContInHand, EffectInHand, Working, Stays, Copying, Backup
  <2> QED
    BY <1>1, <1>2, <1>3, <1>7, <2>1, <2>2, <2>3, AtWork DEF Backup, Typed, Stage, loopVars
<1> QED
  BY <1>4, <1>5, <1>6, <1>7 DEF Backup, Raises, Goes, Fails

LEMMA copy_backupKeeps ==
    ASSUME IInv, copy_backup
    PROVE  IInv'
<1>1. Working /\ Stays
  BY DEF copy_backup, Works, Working, Stays, loopVars, bookVars, envVars
<1>2. op \in Ops /\ status[op] = "none" /\ op \notin pending /\ op' = op
  BY <1>1, WorkingOp DEF Stays, op
<1>3. Typed /\ live' \in Content
  BY IsTyped DEF Typed, Content, copy_backup, Unwinds
<1>4. /\ Kind[op] = "update" /\ cont = "none" /\ fs[op].temp = "new"
      /\ op \notin meddled => fs[op].target = "old" /\ live = "old"
  BY DEF copy_backup, Works, IInv, InHand, TempInHand, ContInHand, EffectInHand
<1>5. CASE Unwinds
  BY <1>1, <1>5, UnwindsKeeps DEF copy_backup
<1>6. CASE stage' = "caught" /\ UNCHANGED << fs, ending, inflight, cont >>
  BY <1>1, <1>3, <1>4, <1>6, Caught DEF copy_backup
<1>7. CASE /\ fs' = BackedUp(IF fs[op].target = live THEN live ELSE "torn")
           /\ stage' = "backed" /\ UNCHANGED << ending, inflight, cont, live >>
  <2>1. /\ fs' \in Disk
        /\ \A x \in Ops \ { op } : fs'[x] = fs[x]
        /\ \A q \in { "source", "target", "prior", "temp" } : fs'[op][q] = fs[op][q]
        /\ fs'[op].trash = IF fs[op].target = live THEN live ELSE "torn"
    BY <1>2, <1>3, <1>7, BackedUpIs DEF Typed, Content
  <2>2. OpInv(op)'
    BY <1>1, <1>2, <1>4, <1>7, <2>1 DEF IInv, OpInv, Whole, Kept, Done, Stays, copy_backup, Copying
  <2>3. InHand'
    BY <1>1, <1>2, <1>4, <1>7, <2>1 DEF InHand, TempInHand, ContInHand, EffectInHand, Working, Stays, Copying
  <2> QED
    BY <1>1, <1>2, <1>3, <1>7, <2>1, <2>2, <2>3, AtWork DEF copy_backup, Typed, Stage
<1> QED
  BY <1>5, <1>6, <1>7 DEF copy_backup, Raises, Goes, Fails

LEMMA BackedKeeps ==
    ASSUME IInv, Backed
    PROVE  IInv'
<1>1. Working /\ Stays
  BY DEF Backed, Works, Working, Stays, loopVars, bookVars, envVars
<1>2. op \in Ops /\ status[op] = "none" /\ op \notin pending /\ op' = op
  BY <1>1, WorkingOp DEF Stays, op
<1>3. Typed /\ live' \in Content
  BY <1>2, IsTyped DEF Typed, Disk, Place, Content, Backed
<1>4. /\ Kind[op] = "update" /\ cont = "none" /\ fs[op].temp = "new"
      /\ op \notin meddled => fs[op].target = "old"
      /\ op \notin meddled /\ TrashOnUpdate => fs[op].trash = "old"
  BY DEF Backed, Works, IInv, InHand, TempInHand, ContInHand, EffectInHand
<1>5. CASE stage' = "caught" /\ UNCHANGED cont
  BY <1>1, <1>3, <1>4, <1>5, Caught DEF Backed, diskVars, loopVars
<1>6. CASE live' = fs[op].target /\ cont' = "prepared" /\ stage' \in { "recheck", "caught" }
  <2>1. OpInv(op)'
    BY <1>1, <1>2, <1>6 DEF IInv, OpInv, Whole, Kept, Done, Stays, Backed, diskVars
  <2>2. InHand'
    BY <1>1, <1>2, <1>4, <1>6 DEF InHand, TempInHand, ContInHand, EffectInHand, Working, Stays, Backed, diskVars
  <2> QED
    BY <1>1, <1>2, <1>3, <1>6, <2>1, <2>2, AtWork DEF Backed, Typed, Stage, diskVars, loopVars
<1> QED
  BY <1>5, <1>6 DEF Backed, Raises, Goes, Fails

LEMMA RecheckKeeps ==
    ASSUME IInv, Recheck
    PROVE  IInv'
<1>1. Working /\ Stays
  BY DEF Recheck, Works, Working, Stays, diskVars, loopVars, bookVars, envVars
<1>2. op \in Ops /\ status[op] = "none" /\ op \notin pending /\ op' = op
  BY <1>1, WorkingOp DEF Stays, op
<1>3. Typed /\ live' \in Content
  BY IsTyped DEF Typed, Content, Recheck, Unwinds, tryVars
<1>4. Kind[op] = "update" /\ cont = "prepared"
  BY DEF Recheck, Works, IInv, InHand, ContInHand
<1>5. CASE stage' = "caught" /\ UNCHANGED << cont, inflight >>
  BY <1>1, <1>3, <1>5, Caught DEF Recheck, diskVars, loopVars
<1>6. CASE /\ fs[op].temp = "none" /\ fs[op].target = "new"
           /\ stage' = "dress" /\ cont' = "published" /\ inflight' = FALSE
  <2>1. OpInv(op)'
    BY <1>1, <1>2, <1>6 DEF IInv, OpInv, Whole, Kept, Done, Stays, Recheck, diskVars
  <2>2. InHand'
    BY <1>1, <1>2, <1>4, <1>6 DEF IInv, InHand, TempInHand, ContInHand, EffectInHand, Working, Copying, Stays, Recheck, diskVars
  <2> QED
    BY <1>1, <1>2, <1>3, <1>6, <2>1, <2>2, AtWork DEF Recheck, Typed, Stage, diskVars, loopVars
<1>7. CASE /\ fs[op].temp # "none"
           /\ stage' = "replace" /\ UNCHANGED << cont, inflight >>
  <2>1. OpInv(op)'
    BY <1>1, <1>2, <1>7 DEF IInv, OpInv, Whole, Kept, Done, Stays, Recheck, diskVars
  <2>2. InHand'
    BY <1>1, <1>2, <1>4, <1>7 DEF IInv, InHand, TempInHand, ContInHand, EffectInHand, Working, Copying, Stays, Recheck, diskVars
  <2> QED
    BY <1>1, <1>2, <1>3, <1>7, <2>1, <2>2, AtWork DEF Recheck, Typed, Stage, diskVars, loopVars
<1> QED
  BY <1>5, <1>6, <1>7 DEF Recheck, Raises, Goes

LEMMA ReplaceKeeps ==
    ASSUME IInv, Replace
    PROVE  IInv'
<1>1. Working /\ Stays
  BY DEF Replace, Works, Working, Stays, diskVars, loopVars, bookVars, envVars
<1>2. op \in Ops /\ status[op] = "none" /\ op \notin pending /\ op' = op
  BY <1>1, WorkingOp DEF Stays, op
<1>3. Typed /\ live' = live /\ live' \in Content
  BY IsTyped DEF Typed, Replace, tryVars
<1>4. Kind[op] = "update" /\ cont = "prepared" /\ fs[op].temp = "new"
  BY DEF Replace, Works, IInv, InHand, ContInHand, TempInHand
<1>5. CASE /\ stage' = "caught" /\ UNCHANGED << fs, bare, inflight, cont >>
           /\ cleared' \in Unrestored
  <2>1. cleared' \subseteq cleared \cup { op }
    BY <1>5 DEF Unrestored
  <2> QED
    BY <1>1, <1>3, <1>4, <1>5, <2>1, Caught DEF Replace, loopVars
<1>6. CASE /\ fs' = Published
           /\ bare' = bare \cup Parents \cup { op }
           /\ cleared' = cleared \cup ({ op } \cap ReadOnly)
           /\ \/ stage' = "caught" /\ UNCHANGED << inflight, cont >>
              \/ stage' = "dress" /\ inflight' = FALSE /\ cont' = "published"
  <2>1. /\ fs' \in Disk
        /\ \A x \in Ops \ { op } : fs'[x] = fs[x]
        /\ \A q \in { "source", "prior", "trash" } : fs'[op][q] = fs[op][q]
        /\ fs'[op].target = "new"
        /\ fs'[op].temp = "none"
    BY <1>2, <1>3, <1>4, <1>6, MovedIs DEF Typed, Place, Content, Published
  <2>2. OpInv(op)'
    BY <1>1, <1>2, <1>4, <1>6, <2>1 DEF IInv, OpInv, Whole, Kept, Done, InHand, ContInHand, Stays, Copying
  <2>3. InHand'
    BY <1>1, <1>2, <1>3, <1>4, <1>6, <2>1 DEF IInv, InHand, TempInHand, ContInHand, EffectInHand, Working, Copying, Stays
  <2> QED
    BY <1>1, <1>2, <1>3, <1>6, <2>1, <2>2, <2>3, AtWork DEF Replace, Typed, Stage, loopVars
<1> QED
  BY <1>5, <1>6 DEF Replace, Raises, Goes, Fails

LEMMA DressKeeps ==
    ASSUME IInv, Dress
    PROVE  IInv'
<1>1. Working /\ Stays
  BY DEF Dress, Works, Working, Stays, diskVars, loopVars, bookVars, envVars, tryVars
<1>2. op \in Ops /\ status[op] = "none" /\ op \notin pending /\ op' = op
  BY <1>1, WorkingOp DEF Stays, op
<1>3. Typed /\ live' = live /\ live' \in Content
  BY IsTyped DEF Typed, Dress, tryVars
<1>4. /\ Kind[op] \in Copying /\ fs[op].temp = "none" /\ UNCHANGED << fs, ending, attempt, inflight, cont >>
      /\ op \notin meddled => /\ fs[op].target = "new"
                              /\ Kind[op] = "update" /\ TrashOnUpdate => fs[op].trash = "old"
  BY DEF Dress, Works, IInv, InHand, TempInHand, EffectInHand, tryVars, loopVars
<1>5. CASE stage' = "caught" /\ UNCHANGED bare /\ cleared' \in { cleared, cleared \ { op } }
  <2>1. OpInv(op)'
    BY <1>1, <1>2, <1>3, <1>4, <1>5 DEF IInv, OpInv, Whole, Kept, Done, Stays
  <2>2. InHand'
    BY <1>1, <1>2, <1>3, <1>4, <1>5 DEF IInv, InHand, TempInHand, ContInHand, EffectInHand, Working, Stays
  <2> QED
    BY <1>1, <1>2, <1>3, <1>4, <1>5, <2>1, <2>2, AtWork DEF Typed, Stage
<1>6. CASE /\ Kind[op] = "move_update" => fs[op].target = "new"
           /\ stage' = IF Kind[op] = "move_update" THEN "retire" ELSE "record"
           /\ bare' = bare \ { op }
           /\ cleared' = cleared \ { op }
  <2>1. OpInv(op)'
    BY <1>1, <1>2, <1>3, <1>4, <1>6 DEF IInv, OpInv, Whole, Kept, Done, Stays
  <2>2. Kind[op] # "move_update" /\ op \notin meddled => Applied(op)'
    BY <1>1, <1>2, <1>3, <1>4, <1>6 DEF Applied, Copying
  <2>3. InHand'
    BY <1>1, <1>2, <1>3, <1>4, <1>6, <2>2 DEF IInv, InHand, TempInHand, ContInHand, EffectInHand, Working, Stays, Copying
  <2> QED
    BY <1>1, <1>2, <1>3, <1>4, <1>6, <2>1, <2>3, AtWork DEF Typed, Stage
<1> QED
  BY <1>5, <1>6 DEF Dress, Raises, Goes, Fails

LEMMA RetireKeeps ==
    ASSUME IInv, Retire
    PROVE  IInv'
<1>1. Working /\ Stays
  BY DEF Retire, Works, Working, Stays, diskVars, loopVars, bookVars, envVars, tryVars
<1>2. op \in Ops /\ status[op] = "none" /\ op \notin pending /\ op' = op
  BY <1>1, WorkingOp DEF Stays, op
<1>3. Typed /\ live' = live /\ live' \in Content
  BY IsTyped DEF Typed, Retire, tryVars
<1>4. /\ Kind[op] = "move_update" /\ op \notin bare /\ op \notin cleared /\ fs[op].temp = "none"
      /\ UNCHANGED << bare, cleared, ending, attempt, inflight, cont >>
      /\ op \notin meddled => fs[op].target = "new"
  BY <1>2 DEF Retire, Works, IInv, InHand, TempInHand, EffectInHand, tryVars, loopVars, OpInv, Done
<1>5. CASE stage' = "caught" /\ UNCHANGED fs
  BY <1>1, <1>3, <1>4, <1>5, Caught
<1>6. CASE fs[op].prior = "none" /\ fs[op].trash = "old" /\ stage' = "record" /\ UNCHANGED fs
  <2>1. OpInv(op)'
    BY <1>1, <1>2, <1>4, <1>6 DEF IInv, OpInv, Whole, Kept, Done, Stays
  <2>2. op \notin meddled => Applied(op)'
    BY <1>2, <1>4, <1>6 DEF Applied
  <2>3. InHand'
    BY <1>1, <1>2, <1>3, <1>4, <1>6, <2>2 DEF IInv, InHand, TempInHand, ContInHand, EffectInHand, Working, Stays
  <2> QED
    BY <1>1, <1>2, <1>3, <1>4, <1>6, <2>1, <2>3, AtWork DEF Typed, Stage
<1>7. CASE fs[op].prior = "old" /\ fs' = Moved(op, "prior", "trash") /\ stage' \in { "record", "caught" }
  <2>1. /\ fs' \in Disk
        /\ \A x \in Ops \ { op } : fs'[x] = fs[x]
        /\ \A q \in { "source", "target", "temp" } : fs'[op][q] = fs[op][q]
        /\ fs'[op].prior = "none"
        /\ fs'[op].trash = "old"
    BY <1>2, <1>3, <1>7, MovedIs DEF Typed, Place
  <2>2. OpInv(op)'
    BY <1>1, <1>2, <1>4, <1>7, <2>1 DEF IInv, OpInv, Whole, Kept, Done, Stays
  <2>3. op \notin meddled => Applied(op)'
    BY <1>2, <1>4, <2>1 DEF Applied
  <2>4. InHand'
    BY <1>1, <1>2, <1>3, <1>4, <1>7, <2>1, <2>3 DEF IInv, InHand, TempInHand, ContInHand, EffectInHand, Working, Stays
  <2> QED
    BY <1>1, <1>2, <1>3, <1>4, <1>7, <2>1, <2>2, <2>4, AtWork DEF Typed, Stage
<1> QED
  BY <1>5, <1>6, <1>7 DEF Retire, Renames, FlushFails, Raises, Goes, Fails

LEMMA CheckKeeps ==
    ASSUME IInv, Check
    PROVE  IInv'
<1>1. Working /\ Stays
  BY DEF Check, Works, Working, Stays, diskVars, loopVars, bookVars, envVars, tryVars
<1>2. op \in Ops /\ status[op] = "none" /\ op \notin pending /\ op' = op
  BY <1>1, WorkingOp DEF Stays, op
<1>3. Typed /\ live' = live /\ live' \in Content
  BY IsTyped DEF Typed, Check, tryVars
<1>4. /\ Kind[op] \in { "move", "recase", "trash", "delete", "rmdir", "noop" }
      /\ UNCHANGED << fs, bare, cleared, ending, attempt, inflight, cont >>
  BY <1>2, PlanAssumption DEF Check, Works, tryVars, loopVars, diskVars, OperationKind, Copying
<1>5. CASE stage' = "caught"
  BY <1>1, <1>3, <1>4, <1>5, Caught
<1>6. CASE /\ Drift(Guarded[Kind[op]]) = "none"
           /\ stage' = CASE Kind[op] \in { "move", "recase", "trash" } -> "rename"
                         [] Kind[op] \in { "delete", "rmdir" }         -> "remove"
                         [] Kind[op] = "noop"                          -> "record"
  <2>1. OpInv(op)'
    BY <1>1, <1>2, <1>4 DEF IInv, OpInv, Whole, Kept, Done, Stays
  <2>2. /\ Kind[op] = "move" => fs[op].prior = "old"
        /\ Kind[op] \in { "trash", "noop" } => fs[op].target = "old" /\ op \notin cleared
    BY <1>2, <1>6, CheckGuarded
  <2>3. Kind[op] = "noop" => Applied(op)'
    BY <1>2, <1>4, <2>2 DEF Applied, IInv, OpInv, Done, Copying
  <2>4. InHand'
    BY <1>1, <1>2, <1>3, <1>4, <1>6, <2>2, <2>3 DEF IInv, InHand, TempInHand, ContInHand, EffectInHand, Working, Stays
  <2> QED
    BY <1>1, <1>2, <1>3, <1>4, <1>6, <2>1, <2>4, AtWork DEF Typed, Stage
<1> QED
  BY <1>5, <1>6 DEF Check, Raises, Goes

LEMMA RenameKeeps ==
    ASSUME IInv, Rename
    PROVE  IInv'
<1>1. Working /\ Stays
  BY DEF Rename, Works, Working, Stays, diskVars, loopVars, bookVars, envVars, tryVars
<1>2. op \in Ops /\ status[op] = "none" /\ op \notin pending /\ op' = op
  BY <1>1, WorkingOp DEF Stays, op
<1>3. Typed /\ live' = live /\ live' \in Content
  BY IsTyped DEF Typed, Rename, tryVars
<1>4. /\ Kind[op] \in { "move", "recase", "trash" }
      /\ op \notin bare /\ op \notin cleared /\ fs[op].temp = "none"
      /\ UNCHANGED << cleared, ending, attempt, inflight, cont >>
      /\ cont # "prepared" /\ cont # "published"
      /\ Kind[op] = "move" => fs[op].prior = "old"
      /\ Kind[op] = "recase" => fs[op].prior = "old"
      /\ Kind[op] = "trash" /\ op \notin meddled => fs[op].target = "old"
  BY <1>2 DEF Rename, Works, tryVars, loopVars, IInv, OpInv, Kept, Done, Copying, InHand, ContInHand, EffectInHand
<1>5. CASE stage' = "caught" /\ UNCHANGED << fs, bare >>
  BY <1>1, <1>3, <1>4, <1>5, Caught
<1>6. CASE /\ bare' \in { bare, bare \cup Parents }
           /\ stage' \in { "record", "caught" }
           /\ \/ Kind[op] = "move" /\ fs[op].target = "none" /\ fs' = Moved(op, "prior", "target")
              \/ Kind[op] = "trash" /\ fs[op].trash = "none" /\ fs' = Moved(op, "target", "trash")
              \/ Kind[op] = "recase" /\ fs' = Put(op, "target", fs[op].prior)
  <2>1. /\ fs' \in Disk
        /\ \A x \in Ops \ { op } : fs'[x] = fs[x]
        /\ fs'[op].temp = "none"
        /\ fs'[op].source = fs[op].source
        /\ Kind[op] = "move" => fs'[op].target = "old" /\ fs'[op].prior = "none" /\ fs'[op].trash = fs[op].trash
        /\ Kind[op] = "recase" => fs'[op].target = "old" /\ fs'[op].prior = "old" /\ fs'[op].trash = fs[op].trash
        /\ Kind[op] = "trash" => /\ fs'[op].target = "none"
                                 /\ fs'[op].trash = fs[op].target
                                 /\ fs'[op].prior = fs[op].prior
    <3>1. CASE Kind[op] = "move" /\ fs' = Moved(op, "prior", "target")
      BY <1>2, <1>3, <1>4, <3>1, MovedIs DEF Typed, Place
    <3>2. CASE Kind[op] = "trash" /\ fs' = Moved(op, "target", "trash")
      BY <1>2, <1>3, <1>4, <3>2, MovedIs DEF Typed, Place
    <3>3. CASE Kind[op] = "recase" /\ fs' = Put(op, "target", fs[op].prior)
      BY <1>2, <1>3, <1>4, <3>3, PutIs DEF Typed, Place, Content
    <3> QED
      BY <1>6, <3>1, <3>2, <3>3
  <2>2. op \notin bare'
    BY <1>3, <1>4, <1>6 DEF Typed
  <2>3. OpInv(op)'
    BY <1>1, <1>2, <1>4, <1>6, <2>1, <2>2 DEF IInv, OpInv, Whole, Kept, Done, Stays
  <2>4. op \notin meddled => Applied(op)'
    BY <1>2, <1>4, <2>1, <2>2 DEF Applied
  <2>5. InHand'
    BY <1>1, <1>2, <1>3, <1>4, <1>6, <2>1, <2>4 DEF IInv, InHand, TempInHand, ContInHand, EffectInHand, Working, Stays
  <2> QED
    BY <1>1, <1>2, <1>3, <1>4, <1>6, <2>1, <2>3, <2>5, AtWork DEF Typed, Stage
<1>7. bare' = bare \/ bare' = bare \cup Parents
  BY DEF Rename
<1>8. UNCHANGED fs => UNCHANGED bare
  BY DEF Rename
<1>9. CASE Kind[op] = "move" /\ Renames("prior", "target")
  BY <1>5, <1>6, <1>7, <1>8, <1>9 DEF Renames, FlushFails, Raises, Goes, Fails
<1>10. CASE Kind[op] = "trash" /\ Renames("target", "trash")
  BY <1>5, <1>6, <1>7, <1>8, <1>10 DEF Renames, FlushFails, Raises, Goes, Fails
<1>11. CASE Kind[op] = "recase"
  BY <1>5, <1>6, <1>7, <1>8, <1>11 DEF Rename, FlushFails, Raises, Goes, Fails
<1> QED
  BY <1>4, <1>9, <1>10, <1>11 DEF Rename

LEMMA RemoveKeeps ==
    ASSUME IInv, Remove
    PROVE  IInv'
<1>1. Working /\ Stays
  BY DEF Remove, Works, Working, Stays, diskVars, loopVars, bookVars, envVars, tryVars
<1>2. op \in Ops /\ status[op] = "none" /\ op \notin pending /\ op' = op
  BY <1>1, WorkingOp DEF Stays, op
<1>3. Typed /\ live' = live /\ live' \in Content
  BY IsTyped DEF Typed, Remove, tryVars
<1>4. /\ Kind[op] \in { "delete", "rmdir" }
      /\ op \notin bare /\ fs[op].temp = "none"
      /\ UNCHANGED << bare, ending, attempt, inflight, cont >>
      /\ cont # "prepared" /\ cont # "published"
  BY <1>2 DEF Remove, Works, tryVars, loopVars, IInv, OpInv, Kept, Done, Copying, InHand, ContInHand, EffectInHand
<1>5. CASE stage' = "caught" /\ UNCHANGED fs /\ cleared' \in Unrestored
  <2>1. cleared' \subseteq cleared \cup { op }
    BY <1>5 DEF Unrestored
  <2> QED
    BY <1>1, <1>3, <1>4, <1>5, <2>1, Caught
<1>6. CASE stage' \in { "record", "caught" } /\ fs' = Put(op, "target", "none") /\ cleared' = cleared \ { op }
  <2>1. /\ fs' \in Disk
        /\ \A x \in Ops \ { op } : fs'[x] = fs[x]
        /\ \A q \in { "source", "prior", "trash", "temp" } : fs'[op][q] = fs[op][q]
        /\ fs'[op].target = "none"
    BY <1>2, <1>3, <1>6, PutIs DEF Typed, Place, Content
  <2>2. OpInv(op)'
    BY <1>1, <1>2, <1>4, <1>6, <2>1 DEF IInv, OpInv, Whole, Kept, Done, Stays
  <2>3. op \notin meddled => Applied(op)'
    BY <1>2, <1>4, <1>6, <2>1 DEF Applied
  <2>4. InHand'
    BY <1>1, <1>2, <1>3, <1>4, <1>6, <2>1, <2>3 DEF IInv, InHand, TempInHand, ContInHand, EffectInHand, Working, Stays
  <2> QED
    BY <1>1, <1>2, <1>3, <1>4, <1>6, <2>1, <2>2, <2>4, AtWork DEF Typed, Stage
<1> QED
  BY <1>5, <1>6 DEF Remove, FlushFails, Raises, Goes, Fails, Unrestored

LEMMA Entries ==
    ASSUME NEW o \in Ops
    PROVE  Entry[Kind[o]] \in { "prepare", "check", "mkdir" }
<1>1. Kind[o] \in OperationKind
  BY PlanAssumption
<1> QED
  BY <1>1 DEF Entry, OperationKind

LEMMA RecordKeeps ==
    ASSUME IInv, Record
    PROVE  IInv'
<1>1. Working
  BY DEF Record, Works, Working
<1>2. UNCHANGED << fs, bare, cleared, run, pos, stop, ending, attempt, inflight, pending, restore, fsFailed, result, request, meddled, forgotten >>
  BY DEF Record, diskVars, loopVars, tryVars, bookVars, envVars
<1>3. op \in Ops /\ pos \in DOMAIN Plan /\ status[op] = "none" /\ op \notin pending /\ op' = op
  BY <1>1, <1>2, WorkingOp DEF op
<1>4. Typed /\ status \in [Ops -> Outcome] /\ live' \in Content
  BY IsTyped DEF IInv, TypeOK, Typed, Content, Record, Unwinds, tryVars
<1>5. CASE stage' = "caught" /\ UNCHANGED << cont, live, recorded, status >>
  BY <1>1, <1>2, <1>4, <1>5, Caught DEF Stays
<1>6. CASE /\ stage' = "next" /\ cont' = "none"
           /\ recorded' \in { recorded, recorded \cup { op } }
           /\ status' = [status EXCEPT ![op] = IF Kind[op] = "noop" THEN "skipped" ELSE "succeeded"]
  <2>1. TypeOK'
    BY <1>2, <1>3, <1>4, <1>6 DEF IInv, TypeOK, Outcome, Disk
  <2>2. Booked'
    BY <1>2, <1>3, <1>4, <1>6 DEF IInv, Booked, Working, Stage, Outcome
  <2>3. op \notin meddled => Applied(op)
    BY DEF IInv, InHand, EffectInHand, Record, Works
  <2>4. Applied(op)' = Applied(op)
    BY <1>2, <1>3 DEF Applied
  <2>5. OpInv(op)'
    BY <1>2, <1>3, <1>4, <1>6, <2>3, <2>4 DEF IInv, OpInv, Whole, Kept, Done
  <2>6. \A o \in Ops \ { op } : Untouched(o)
    BY <1>2, <1>3, <1>4, <1>6 DEF Untouched
  <2> QED
    BY <1>3, <1>6, <2>1, <2>2, <2>5, <2>6, PutAside, Assembled
<1> QED
  BY <1>5, <1>6 DEF Record, Raises, Goes, Fails, _settle

LEMMA RetryKeeps ==
    ASSUME IInv, Retry
    PROVE  IInv'
<1>1. Working
  BY DEF Retry, Works, Working
<1>2. UNCHANGED << bare, cleared, run, pos, stop, pending, restore, fsFailed, status, recorded, result, request, meddled, forgotten >>
  BY DEF Retry, diskVars, loopVars, tryVars, bookVars, envVars
<1>3. op \in Ops /\ pos \in DOMAIN Plan /\ status[op] = "none" /\ op \notin pending /\ op' = op
  BY <1>1, <1>2, WorkingOp DEF op
<1>4. Typed /\ status \in [Ops -> Outcome] /\ live' \in Content
  BY IsTyped DEF IInv, TypeOK, Typed, Content, Retry, Unwinds, tryVars
<1>5. Stays
  BY <1>2 DEF Stays
<1>6. CASE Unwinds /\ UNCHANGED attempt
  BY <1>1, <1>2, <1>5, <1>6, UnwindsKeeps
<1>7. CASE attempt' = NextAttempt /\ stage' = Reentry /\ UNCHANGED << ending, cont, live >>
  <2>1. attempt' \in 0 .. MaxRetries + 1
    BY <1>4, <1>7, PlanAssumption DEF Retry, Retries, NextAttempt, Typed
  <2>2. \/ stage' \in { "prepare", "check", "mkdir" } /\ cont = "none"
        \/ stage' = "recheck" /\ cont = "prepared"
        \/ stage' = "dress" /\ cont = "published"
    <3>1. Entry[Kind[op]] \in { "prepare", "check", "mkdir" }
      BY <1>3, Entries
    <3> QED
      BY <1>4, <1>7, <3>1 DEF Reentry, Typed
  <2>3. /\ fs' \in Disk
        /\ \A x \in Ops \ { op } : fs'[x] = fs[x]
        /\ \A q \in { "source", "target", "prior", "trash" } : fs'[op][q] = fs[op][q]
        /\ fs'[op].temp \in { "none", fs[op].temp }
        /\ inflight' \in BOOLEAN
        /\ cont # "none" => UNCHANGED fs
    <3>1. CASE \E failed \in BOOLEAN : _cleanup_inflight(failed) /\ cont = "none"
      BY <1>3, <3>1, CleanedUp DEF _cleanup_inflight
    <3>2. CASE UNCHANGED << fs, inflight >>
      BY <1>4, <3>2 DEF Typed
    <3>3. \/ \E failed \in BOOLEAN : _cleanup_inflight(failed) /\ cont = "none"
          \/ UNCHANGED << fs, inflight >>
      <4>1. Unwinds => \E failed \in BOOLEAN : _cleanup_inflight(failed)
        BY DEF Unwinds
      <4>2. Unwinds => stage' = "wrapup"
        BY DEF Unwinds
      <4> QED
        BY <2>2, <4>2 DEF Retry
    <3> QED
      BY <3>1, <3>2, <3>3
  <2>4. OpInv(op)'
    BY <1>2, <1>3, <2>3 DEF IInv, OpInv, Whole, Kept, Done
  <2>5. InHand'
    BY <1>2, <1>3, <1>7, <2>2, <2>3 DEF IInv, InHand, TempInHand, ContInHand, EffectInHand, Working, Copying
  <2> QED
    BY <1>1, <1>2, <1>3, <1>4, <1>5, <1>7, <2>1, <2>2, <2>3, <2>4, <2>5, AtWork DEF Typed, Stage
<1> QED
  BY <1>6, <1>7 DEF Retry, Goes

LEMMA GiveUpKeeps ==
    ASSUME IInv, GiveUp
    PROVE  IInv'
<1>1. Working
  BY DEF GiveUp, Works, Working
<1>2. UNCHANGED << bare, cleared, run, pos, ending, attempt, pending, restore, fsFailed, recorded, result, request, meddled, forgotten >>
  BY DEF GiveUp, diskVars, loopVars, tryVars, bookVars, envVars
<1>3. op \in Ops /\ pos \in DOMAIN Plan /\ status[op] = "none" /\ op \notin pending /\ op' = op
  BY <1>1, <1>2, WorkingOp DEF op
<1>4. Typed /\ status \in [Ops -> Outcome] /\ live' \in Content
  BY IsTyped DEF IInv, TypeOK, Typed, Content, GiveUp, Unwinds, tryVars
<1>5. PICK failed \in BOOLEAN : _cleanup_inflight(failed) /\ status' = [status EXCEPT ![op] = "failed"]
  BY DEF GiveUp, _settle
<1>6. /\ fs' \in Disk
      /\ \A x \in Ops \ { op } : fs'[x] = fs[x]
      /\ \A q \in { "source", "target", "prior", "trash" } : fs'[op][q] = fs[op][q]
      /\ fs'[op].temp \in { "none", fs[op].temp }
      /\ inflight' = FALSE
  BY <1>3, <1>5, CleanedUp DEF _cleanup_inflight
<1>7. stage' = "next" /\ cont' = "none" /\ stop' \in BOOLEAN
  BY DEF GiveUp, Goes
<1>8. TypeOK'
  BY <1>2, <1>3, <1>4, <1>5, <1>6, <1>7 DEF IInv, TypeOK, Outcome, Disk
<1>9. Booked'
  BY <1>2, <1>3, <1>4, <1>5, <1>7 DEF IInv, Booked, Working, Stage
<1>10. OpInv(op)'
  BY <1>2, <1>3, <1>4, <1>5, <1>6 DEF IInv, OpInv, Whole, Kept, Done
<1>11. \A o \in Ops \ { op } : Untouched(o)
  BY <1>2, <1>4, <1>5, <1>6 DEF Untouched
<1> QED
  BY <1>3, <1>7, <1>8, <1>9, <1>10, <1>11, PutAside, Assembled

LEMMA _start_directoryKeeps ==
    ASSUME IInv, _start_directory
    PROVE  IInv'
<1>1. Working
  BY DEF _start_directory, Works, Working
<1>2. UNCHANGED << cleared, run, pos, stop, ending, attempt, inflight, cont, live, restore, fsFailed, recorded, result, request, meddled, forgotten >>
  BY DEF _start_directory, diskVars, loopVars, tryVars, bookVars, envVars
<1>3. op \in Ops /\ pos \in DOMAIN Plan /\ status[op] = "none" /\ op \notin pending /\ op' = op
  BY <1>1, <1>2, WorkingOp DEF op
<1>4. Typed /\ status \in [Ops -> Outcome] /\ live' \in Content
  BY IsTyped DEF IInv, TypeOK, Typed, Content, _start_directory, Unwinds, tryVars
<1>5. Kind[op] = "mkdir" /\ cont = "none" /\ stage' = "next"
  BY <1>4 DEF _start_directory, Works, Goes, IInv, InHand, ContInHand, Typed
<1>6. CASE UNCHANGED << fs, bare, pending >> /\ status' = [status EXCEPT ![op] = "failed"]
  <2>1. TypeOK'
    BY <1>2, <1>3, <1>4, <1>6 DEF IInv, TypeOK, Outcome
  <2>2. Booked'
    BY <1>2, <1>3, <1>4, <1>5, <1>6 DEF IInv, Booked, Working, Stage
  <2>3. \A o \in Ops : Untouched(o)
    BY <1>2, <1>4, <1>6 DEF Untouched
  <2> QED
    BY <1>2, <1>5, <2>1, <2>2, <2>3, PutAside, Assembled
<1>7. CASE /\ fs' = Put(op, "target", "dir")
           /\ bare' = bare \cup Parents \cup { op }
           /\ pending' = pending \cup { op }
           /\ UNCHANGED status
  <2>1. /\ fs' \in Disk
        /\ \A x \in Ops \ { op } : fs'[x] = fs[x]
        /\ \A q \in { "source", "prior", "trash", "temp" } : fs'[op][q] = fs[op][q]
        /\ fs'[op].target = "dir"
    BY <1>3, <1>4, <1>7, PutIs DEF Typed, Place, Content
  <2>2. TypeOK'
    BY <1>2, <1>3, <1>4, <1>7, <2>1 DEF IInv, TypeOK, Typed, Disk
  <2>3. Booked'
    <3>1. \A i \in DOMAIN Plan : Plan[i] = op => i = pos
      BY <1>3, PlanAssumption DEF op
    <3> QED
      BY <1>1, <1>2, <1>3, <1>4, <1>5, <1>7, <3>1 DEF IInv, TypeOK, Booked, Working, Stage
  <2>4. OpInv(op)'
    BY <1>2, <1>3, <1>5, <1>7, <2>1 DEF IInv, OpInv, Whole, Kept, Done
  <2>5. \A o \in Ops \ { op } : Untouched(o)
    BY <1>2, <1>4, <1>7, <2>1 DEF Untouched, Typed
  <2> QED
    BY <1>2, <1>3, <1>5, <2>2, <2>3, <2>4, <2>5, PutAside, Assembled
<1> QED
  BY <1>6, <1>7 DEF _start_directory, _settle

\* A step that works on no operation.
LEMMA Between ==
    ASSUME IInv, ~ Working, stage' \in { "next", "wrapup" }, TypeOK', Booked', UNCHANGED cont,
           \A o \in Ops : Untouched(o)
    PROVE  IInv'
<1>1. cont = "none"
  BY DEF IInv, TypeOK, InHand, ContInHand
<1> QED
  BY <1>1, PutAside, Assembled

LEMMA StartKeeps ==
    ASSUME IInv, Start
    PROVE  IInv'
<1>1. ~ Working /\ stage' = "next" /\ pos' = 0
  BY DEF Start, IInv, Booked, Working
<1>2. UNCHANGED << fs, bare, cleared, ending, attempt, inflight, cont, live, status, recorded,
                   request, meddled >>
  BY DEF Start, diskVars, tryVars, envVars
<1>3. /\ run' \in { "executing", "done" } /\ stop' \in BOOLEAN /\ fsFailed' \in BOOLEAN
      /\ pending' = {} /\ restore' \subseteq Ops /\ forgotten' \subseteq Ops
  BY DEF Start, IInv, TypeOK, Booked, Remaining
<1>4. TypeOK'
  BY <1>1, <1>2, <1>3, PlanAssumption DEF IInv, TypeOK
<1>5. Booked'
  BY <1>1, <1>2, <1>3 DEF IInv, Booked, Working, Stage
<1>6. \A o \in Ops : Untouched(o)
  BY <1>2, <1>3 DEF Untouched
<1> QED
  BY <1>1, <1>2, <1>4, <1>5, <1>6, Between

LEMMA AdvanceKeeps ==
    ASSUME IInv, Advance
    PROVE  IInv'
<1> DEFINE o == Plan[pos + 1]
<1>1. ~ Working /\ run = "executing" /\ pos' = pos + 1 /\ pos < Len(Plan)
  BY DEF Advance, Working
<1>2. UNCHANGED << fs, bare, cleared, run, stop, inflight, cont, pending, restore, fsFailed,
                   live, recorded, request, meddled, forgotten >>
  BY DEF Advance, diskVars, envVars
<1>3. cont = "none" /\ Typed
  BY <1>1, IsTyped DEF IInv, TypeOK, InHand, ContInHand
<1>4. pos + 1 \in DOMAIN Plan /\ o \in Ops /\ op' = o
  BY <1>1, PlanAssumption DEF IInv, TypeOK, Ops, op
<1>5. status \in [Ops -> Outcome] /\ request \in { "none", "pause", "cancel" }
  BY DEF IInv, TypeOK, Booked
<1>6. \A i \in DOMAIN Plan : Plan[i] \in pending => i < pos'
  BY <1>1, PlanAssumption DEF IInv, TypeOK, Booked
<1>7. o \notin pending
  BY <1>1, <1>4, PlanAssumption DEF IInv, Booked, TypeOK
<1>8. CASE /\ stage' \in { "next", "wrapup" }
           /\ attempt' = attempt
           /\ ending' = ending \/ (ending' = request /\ request # "none")
           /\ \/ status' = status
              \/ status[o] = "none" /\ status' = [status EXCEPT ![o] = "canceled"]
              \/ status[o] = "none" /\ status' = [status EXCEPT ![o] = "deferred"]
  <2>1. /\ status' \in [Ops -> Outcome]
        /\ \A x \in Ops : status'[x] = status[x] \/ x = o
        /\ status[o] # "none" => status' = status
    BY <1>4, <1>5, <1>8 DEF Outcome
  <2>2. TypeOK'
    <3>1. pos' \in 0 .. Len(Plan)
      BY <1>1, PlanAssumption DEF IInv, TypeOK
    <3>2. \A x \in recorded : status'[x] \in { "succeeded", "skipped" }
      BY <2>1, <1>4 DEF IInv, TypeOK
    <3>3. ending' \in { "finish", "cancel", "pause" }
      BY <1>5, <1>8 DEF IInv, TypeOK
    <3> QED
      BY <1>2, <1>8, <2>1, <3>1, <3>2, <3>3 DEF IInv, TypeOK
  <2>4. Booked'
    <3>1. \A d \in pending' : Kind[d] = "mkdir" /\ status'[d] = "none"
      BY <1>2, <1>7, <2>1 DEF IInv, TypeOK, Booked
    <3>2. \A i \in DOMAIN Plan : Plan[i] \in pending' => i <= pos' /\ (Working' => i < pos')
      BY <1>2, <1>4, <1>6, <1>1, PlanAssumption DEF IInv, TypeOK
    <3> QED
      BY <1>1, <1>2, <1>5, <1>8, <3>1, <3>2 DEF Booked, Working, Stage
  <2>3. \A x \in Ops : Untouched(x)
    BY <1>2, <1>4, <1>5, <1>8 DEF Untouched
  <2> QED
    BY <1>1, <1>2, <1>8, <2>2, <2>3, <2>4, Between
<1>9. CASE /\ stage' = Entry[Kind[o]] /\ attempt' = 1 /\ status[o] = "none"
           /\ UNCHANGED << status, ending >>
  <2>1. stage' \in { "prepare", "check", "mkdir" }
    BY <1>4, <1>9, Entries
  <2>2. TypeOK'
    BY <1>1, <1>2, <1>4, <1>9, PlanAssumption DEF IInv, TypeOK
  <2>3. Booked'
    BY <1>1, <1>2, <1>4, <1>6, <1>9, <2>1 DEF IInv, TypeOK, Booked, Working, Stage
  <2>4. \A x \in Ops : Untouched(x)
    BY <1>2, <1>9 DEF Untouched
  <2>5. InHand'
    BY <1>2, <1>3, <2>1 DEF InHand, TempInHand, ContInHand, EffectInHand, Working
  <2> QED
    BY <2>2, <2>3, <2>4, <2>5, Assembled
<1> QED
  BY <1>8, <1>9 DEF Advance, _settle

LEMMA LoopEndsKeeps ==
    ASSUME IInv, LoopEnds
    PROVE  IInv'
<1>1. ~ Working /\ stage' = "wrapup" /\ ending' = "finish"
  BY DEF LoopEnds, Working
<1>2. UNCHANGED << fs, bare, cleared, run, pos, stop, attempt, inflight, cont, live, pending, restore,
                   fsFailed, status, recorded, request, meddled, forgotten >>
  BY DEF LoopEnds, diskVars, tryVars, bookVars, envVars
<1>3. TypeOK' /\ Booked'
  BY <1>1, <1>2 DEF IInv, TypeOK, Booked, Working, Stage
<1>4. \A o \in Ops : Untouched(o)
  BY <1>2 DEF Untouched
<1> QED
  BY <1>1, <1>2, <1>3, <1>4, Between

LEMMA _finalize_directoriesKeeps ==
    ASSUME IInv, _finalize_directories
    PROVE  IInv'
<1>1. ~ Working /\ stage' = stage /\ stage = "wrapup"
  BY DEF _finalize_directories, Working
<1>2. UNCHANGED << fs, cleared, run, pos, stop, ending, attempt, inflight, cont, live, restore, fsFailed,
                   request, meddled, forgotten >>
  BY DEF _finalize_directories, loopVars, tryVars, envVars
<1>3. PICK d \in pending :
         /\ pending' = pending \ { d }
         /\ \/ /\ bare' = bare \ { d }
               /\ status' = [status EXCEPT ![d] = "succeeded"]
               /\ recorded' \in { recorded, recorded \cup { d } }
            \/ /\ status' = [status EXCEPT ![d] = "failed"]
               /\ UNCHANGED << bare, recorded >>
  BY DEF _finalize_directories, _settle
<1>4. d \in Ops /\ Kind[d] = "mkdir" /\ status[d] = "none" /\ status \in [Ops -> Outcome]
  BY DEF IInv, TypeOK, Booked
<1>5. TypeOK'
  <2>1. \A o \in recorded' : status'[o] \in { "succeeded", "skipped" }
    BY <1>3, <1>4 DEF IInv, TypeOK
  <2>2. status' \in [Ops -> Outcome] /\ bare' \subseteq Ops /\ pending' \subseteq Ops /\ recorded' \subseteq Ops
    BY <1>3, <1>4 DEF IInv, TypeOK, Outcome
  <2> QED
    BY <1>2, <2>1, <2>2 DEF IInv, TypeOK
<1>6. Booked'
  BY <1>1, <1>2, <1>3, <1>4 DEF IInv, TypeOK, Booked, Working
<1>7. OpInv(d)'
  <2>1. Whole(d)' /\ Kept(d)'
    BY <1>2, <1>4 DEF IInv, OpInv, Whole, Kept
  <2>2. d \notin meddled => Applied(d)'
    BY <1>2, <1>4 DEF IInv, OpInv, Done, Applied, Copying
  <2>3. Done(d)'
    BY <1>2, <1>3, <1>4, <2>2 DEF IInv, OpInv, Done
  <2> QED
    BY <2>1, <2>3 DEF OpInv
<1>8. \A o \in Ops \ { d } : Untouched(o)
  BY <1>2, <1>3, <1>4 DEF Untouched
<1>9. InHand'
  BY <1>1, <1>2, PutAside DEF IInv, TypeOK, InHand, ContInHand
<1> QED
  BY <1>4, <1>5, <1>6, <1>7, <1>8, <1>9, Assembled

LEMMA WrapupKeeps ==
    ASSUME IInv, _restore_completed_directory_metadata \/ Returns \/ Pauses
    PROVE  IInv'
<1>1. ~ Working /\ stage' = stage /\ stage = "wrapup" /\ pending = {} /\ pending' = pending
  BY DEF _restore_completed_directory_metadata, Returns, Pauses, Working, bookVars
<1>2. UNCHANGED << fs, cleared, pos, stop, ending, attempt, inflight, cont, live, status, recorded,
                   request, meddled, forgotten >>
  BY DEF _restore_completed_directory_metadata, Returns, Pauses, diskVars, loopVars, tryVars,
         bookVars, envVars
<1>3. /\ bare' \subseteq bare /\ restore' \subseteq restore /\ fsFailed' \in { TRUE, fsFailed }
      /\ run' \in { run, "done", "paused" }
  BY DEF _restore_completed_directory_metadata, Returns, Pauses, diskVars, loopVars, bookVars
<1>4. TypeOK'
  BY <1>1, <1>2, <1>3 DEF IInv, TypeOK
<1>5. Booked'
  BY <1>1, <1>2, <1>3 DEF IInv, Booked, Working
<1>6. \A o \in Ops : Untouched(o)
  BY <1>1, <1>2, <1>3 DEF Untouched
<1> QED
  BY <1>1, <1>2, <1>4, <1>5, <1>6, Between

LEMMA CancelsKeeps ==
    ASSUME IInv, Cancels
    PROVE  IInv'
<1>1. ~ Working /\ stage' = stage /\ stage = "wrapup" /\ pending = {} /\ run' = "done"
  BY DEF Cancels, Working
<1>2. UNCHANGED << fs, bare, cleared, pos, stop, ending, attempt, inflight, cont, live, pending, restore,
                   fsFailed, recorded, request, meddled, forgotten >>
  BY DEF Cancels, diskVars, tryVars, envVars
<1>3. /\ status' \in [Ops -> Outcome]
      /\ \A o \in Ops : status'[o] = status[o] \/ (status[o] = "none" /\ status'[o] = "canceled")
  <2>1. status' = [o \in Ops |-> IF status[o] = "none" THEN "canceled" ELSE status[o]]
    BY DEF Cancels
  <2>2. status \in [Ops -> Outcome]
    BY DEF IInv, TypeOK
  <2> QED
    BY <2>1, <2>2 DEF Outcome
<1>4. TypeOK'
  BY <1>1, <1>2, <1>3 DEF IInv, TypeOK
<1>5. Booked'
  BY <1>1, <1>2 DEF IInv, Booked, Working
<1>6. \A o \in Ops : Untouched(o)
  BY <1>2, <1>3 DEF Untouched
<1> QED
  BY <1>1, <1>2, <1>4, <1>5, <1>6, Between

LEMMA ControlKeeps ==
    ASSUME IInv, Control
    PROVE  IInv'
<1>1. UNCHANGED << fs, bare, cleared, pos, stop, ending, stage, attempt, inflight, cont, live,
                   pending, restore, fsFailed, status, recorded, meddled, forgotten >>
  BY DEF Control, diskVars, tryVars, bookVars
<1>2. /\ request' \in { "none", "pause", "cancel" }
      /\ run' = run \/ (run = "paused" /\ run' = "ready")
  BY DEF Control
<1>3. op' = op
  BY <1>1 DEF op
<1>4. TypeOK'
  BY <1>1, <1>2 DEF IInv, TypeOK
<1>5. Booked'
  BY <1>1, <1>2, <1>3 DEF IInv, Booked, Working
<1>6. InHand'
  <2>1. Applied(op)' = Applied(op)
    BY <1>1, <1>3 DEF Applied
  <2> QED
    BY <1>1, <1>3, <2>1 DEF IInv, InHand, TempInHand, ContInHand, EffectInHand, Working
<1>7. \A o \in Ops : Untouched(o)
  BY <1>1 DEF Untouched
<1> QED
  BY <1>4, <1>5, <1>6, <1>7, Assembled

LEMMA MeddleKeeps ==
    ASSUME IInv, Meddle
    PROVE  IInv'
<1>1. UNCHANGED << bare, cleared, run, pos, stop, ending, stage, attempt, inflight, cont, live,
                   pending, restore, fsFailed, status, recorded, request, forgotten >>
  BY DEF Meddle, loopVars, tryVars, bookVars
<1>2. PICK o \in Ops :
         /\ meddled' = meddled \cup { o }
         /\ \/ fs[o].source = "new" /\ fs' = Put(o, "source", "drift")
            \/ fs[o].target \in { "none", "old" } /\ fs' = Put(o, "target", "foreign")
  BY DEF Meddle
<1>3. op' = op /\ fs \in Disk
  BY <1>1, IsTyped DEF op, Typed
<1>4. /\ fs' \in Disk
      /\ \A x \in Ops \ { o } : fs'[x] = fs[x]
      /\ \A q \in { "prior", "temp", "trash" } : fs'[o][q] = fs[o][q]
      /\ fs'[o].source \in { fs[o].source, "drift" }
      /\ fs'[o].target \in { fs[o].target, "foreign" }
      /\ fs[o].source = "none" => fs'[o].source = "none"
  <2>1. CASE fs[o].source = "new" /\ fs' = Put(o, "source", "drift")
    BY <1>3, <2>1, PutIs DEF Place, Content
  <2>2. CASE fs' = Put(o, "target", "foreign")
    BY <1>3, <2>2, PutIs DEF Place, Content
  <2> QED
    BY <1>2, <2>1, <2>2
<1>5. TypeOK'
  BY <1>1, <1>2, <1>4 DEF IInv, TypeOK, Disk
<1>6. Booked'
  BY <1>1, <1>3 DEF IInv, Booked, Working
<1>7. OpInv(o)'
  BY <1>1, <1>2, <1>4 DEF IInv, OpInv, Whole, Kept, Done
<1>8. \A x \in Ops \ { o } : Untouched(x)
  BY <1>1, <1>2, <1>4 DEF Untouched
<1>9. InHand'
  <2>1. CASE ~ Working
    BY <1>1, <2>1, PutAside DEF IInv, TypeOK, Booked, InHand, ContInHand, Working
  <2>2. CASE Working /\ op = o
    BY <1>1, <1>2, <1>3, <1>4, <2>2 DEF IInv, InHand, TempInHand, ContInHand, EffectInHand, Working
  <2>3. CASE Working /\ op # o
    <3>1. op \in Ops
      BY <2>3, WorkingOp
    <3>2. Applied(op)' = Applied(op)
      BY <1>1, <1>3, <1>4, <2>3, <3>1 DEF Applied
    <3> QED
      BY <1>1, <1>2, <1>3, <1>4, <2>3, <3>1, <3>2
         DEF IInv, InHand, TempInHand, ContInHand, EffectInHand, Working
  <2> QED
    BY <2>1, <2>2, <2>3
<1> QED
  BY <1>5, <1>6, <1>7, <1>8, <1>9, Assembled

-----------------------------------------------------------------------------
LEMMA InitInv == Init => IInv
<1> SUFFICES ASSUME Init PROVE IInv
  OBVIOUS
<1>1. TypeOK
  <2>1. \A o \in Ops, p \in Place : Expected(o, p) \in Content
    BY DEF Expected, Content
  <2>2. fs \in [Ops -> [Place -> Content]]
    BY <2>1 DEF Init
  <2>3. pos \in 0 .. Len(Plan) /\ attempt \in 0 .. MaxRetries + 1
    BY PlanAssumption DEF Init
  <2> QED
    BY <2>2, <2>3 DEF Init, TypeOK, Outcome, Content
<1>2. Booked
  BY DEF Init, Booked, Working, Stage
<1>3. ASSUME NEW o \in Ops PROVE OpInv(o)
  <2>1. \A p \in Place : fs[o][p] = Expected(o, p)
    BY DEF Init
  <2>2. Whole(o)
    BY <2>1 DEF Whole, Expected, Place, Displacing, Relocating
  <2>3. Kept(o)
    BY <2>1 DEF Kept, Expected, Place, Displacing, Relocating
  <2>4. Done(o)
    BY <2>1 DEF Init, Done, Expected, Place
  <2> QED
    BY <2>2, <2>3, <2>4 DEF OpInv
<1>4. InHand
  BY DEF Init, InHand, TempInHand, ContInHand, EffectInHand, Working
<1> QED
  BY <1>1, <1>2, <1>3, <1>4 DEF IInv

LEMMA NextInv == IInv /\ [Next]_vars => IInv'
<1> SUFFICES ASSUME IInv, [Next]_vars PROVE IInv'
  OBVIOUS
<1>1. CASE Execute
  BY <1>1, StartKeeps, AdvanceKeeps, _start_directoryKeeps, PrepareKeeps, StreamKeeps, PreparedKeeps,
     PublishKeeps, BackupKeeps, copy_backupKeeps, BackedKeeps, RecheckKeeps, ReplaceKeeps, DressKeeps,
     RetireKeeps, RenameKeeps,
     CheckKeeps, RemoveKeeps, RecordKeeps, RetryKeeps, GiveUpKeeps, LoopEndsKeeps,
     _finalize_directoriesKeeps, WrapupKeeps, CancelsKeeps DEF Execute
<1>2. CASE Control
  BY <1>2, ControlKeeps
<1>3. CASE Meddle
  BY <1>3, MeddleKeeps
<1>4. CASE UNCHANGED vars
  <2> USE <1>4 DEF vars, diskVars, loopVars, tryVars, bookVars, envVars
  <2>3. op' = op
    BY DEF op
  <2>4. TypeOK'
    BY DEF IInv, TypeOK
  <2>5. Booked'
    BY <2>3 DEF IInv, Booked, Working
  <2>6. Applied(op)' = Applied(op)
    BY <2>3 DEF Applied
  <2>1. TypeOK' /\ Booked' /\ InHand'
    BY <2>3, <2>4, <2>5, <2>6 DEF IInv, InHand, TempInHand, ContInHand, EffectInHand, Working
  <2>2. \A o \in Ops : Untouched(o)
    BY <1>4 DEF Untouched, vars, diskVars, bookVars, envVars
  <2> QED
    BY <2>1, <2>2, Assembled
<1> QED
  BY <1>1, <1>2, <1>3, <1>4 DEF Next

LEMMA Invariance == Spec => []IInv
BY InitInv, NextInv, PTL DEF Spec

-----------------------------------------------------------------------------
(***************************************************************************)
(* The theorems.                                                           *)
(***************************************************************************)

\* Type correctness of the executor's state: its counters stay in their bounds,
\* an operation is attempted at most max_retries + 1 times, and only operations
\* that were settled well are in the ledger.
THEOREM ExecutorTypeCorrect == Spec => []TypeOK
<1>1. IInv => TypeOK
  BY DEF IInv
<1> QED
  BY <1>1, Invariance, PTL

\* No state of an execution, and so no crash, leaves a partial copy or a copy of
\* a changing source at a live path or in the trash: only what _prepare_copy has
\* checked is published.
THEOREM WholeFiles == Spec => []PublishedWhole
<1>1. IInv => PublishedWhole
  BY DEF IInv, OpInv, Whole, PublishedWhole
<1> QED
  BY <1>1, Invariance, PTL

\* No state of an execution, and so no crash, has lost the version that an
\* operation displaces, nor left the live path of an update empty, whatever
\* fails before or after it took effect.
THEOREM DisplacedKept == Spec => []VersionsKept
<1>1. IInv => VersionsKept
  BY DEF IInv, OpInv, Kept, VersionsKept
<1> QED
  BY <1>1, Invariance, PTL

\* Whatever _execute_with_retries reports as a success is on the disk in full,
\* over all retries, continuations, pauses and calls that raised after they
\* took effect.
THEOREM SuccessOnDisk == Spec => []SuccessIsReal
<1>1. IInv => SuccessIsReal
  BY DEF IInv, OpInv, Done, SuccessIsReal
<1> QED
  BY <1>1, Invariance, PTL
=============================================================================
