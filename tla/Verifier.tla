------------------------------ MODULE Verifier ------------------------------
(***************************************************************************)
(* Integrity sessions (modules/verifier.py, core/integrity.py) beside the  *)
(* sync runs and inventory scans that write the same ledger rows.  A       *)
(* session reads the files of the rows it was shown, chunk by chunk, and   *)
(* records what it read against the rows as they were when it started.     *)
(***************************************************************************)
EXTENDS Ledger, Sequences

CONSTANTS
    Sessions,   \* integrity sessions
    Modes       \* the modes they run in

ASSUME ModesAssumption == Modes \subseteq { "verify", "baseline", "rebaseline" }

VARIABLES
    ses,        \* the sessions
    emitted     \* emitted[v][k]: the outcomes session v emitted for item k

vars == <<ledgerVars, ses, emitted>>

NoItem == [key |-> None, before |-> None, read |-> <<>>, command |-> None]

Pending(v) == DOMAIN ses[v].items \ ses[v].completed

Row(v) == ses[v].items[ses[v].work.key]

\* The evidence that decides a verification; other modes have none to match.
Evidence(v, k) == IF ses[v].mode = "verify" THEN ses[v].items[k].base ELSE None

Outcome(result, recording) == [result |-> result, recording |-> recording]

-----------------------------------------------------------------------------
\* The workflow selects every row of the location as the ledger has it now.
Select(v, mode) ==
    /\ ses[v].pc = "idle"
    /\ \E k \in Keys : db.inv[k] # None
    /\ Event
    /\ ses' = [ses EXCEPT ![v] =
          [pc |-> "next", mode |-> mode, completed |-> {}, work |-> NoItem,
           items |-> [k \in { j \in Keys : db.inv[j] # None } |-> db.inv[k]]]]
    /\ UNCHANGED <<disk, clock, db, plan, scan, lost, emitted>>

\* _emit_and_complete: the outcome first, then the continuation.
Emit(v, k, outcome) ==
    /\ emitted' = [emitted EXCEPT ![v][k] = Append(@, outcome)]
    /\ ses' = [ses EXCEPT ![v].completed = @ \cup {k}, ![v].pc = "next", ![v].work = NoItem]

Goto(v, pc, work) == ses' = [ses EXCEPT ![v].pc = pc, ![v].work = work]

\* _matches_expected_stat, of the row and of the evidence it is held against.
AsExpected(v, k) ==
    /\ Live(k) = ses[v].items[k].stat
    /\ Evidence(v, k) # None => Evidence(v, k).stat = Live(k)

\* _process_item up to the first stat of the open file.
Begin(v, k) ==
    LET row == ses[v].items[k]
        readable == row.presence = "present" /\ (ses[v].mode = "baseline" => row.base = None)
    IN
    /\ ses[v].pc = "next" /\ k \in Pending(v)
    /\ \/ row.presence # "present" /\ Emit(v, k, Outcome(row.presence, "ok"))
       \/ row.presence = "present" /\ ~ readable /\ Emit(v, k, Outcome("error", "ok"))
       \/ readable /\ tree[k] = None /\ Emit(v, k, Outcome("missing", "ok"))
       \/ /\ readable /\ tree[k] # None
          /\ ~ AsExpected(v, k)
          /\ Emit(v, k, Outcome("modified", "ok"))
       \/ /\ readable /\ tree[k] # None
          /\ AsExpected(v, k)
          /\ Goto(v, "read", [key |-> k, before |-> Live(k), read |-> <<>>, command |-> None])
          /\ UNCHANGED emitted
    /\ UNCHANGED ledgerVars

\* One chunk of the open file, which a replacement of the path does not touch.
Read(v) ==
    LET work == ses[v].work IN
    /\ ses[v].pc = "read" /\ Len(work.read) < 2
    /\ Goto(v, "read",
            [work EXCEPT !.read = Append(@, objs[work.before.id].data[Len(@) + 1])])
    /\ UNCHANGED <<ledgerVars, emitted>>

ReadFails(v) ==
    /\ ses[v].pc = "read" /\ Len(ses[v].work.read) < 2
    /\ Emit(v, ses[v].work.key, Outcome("error", "ok"))
    /\ UNCHANGED ledgerVars

Agrees(v) ==
    LET work == ses[v].work IN
    Evidence(v, work.key) # None => work.read = Evidence(v, work.key).data

\* The evidence a session wants recorded, against the row it was shown.
Command(v) ==
    LET work == ses[v].work IN
    [type |-> "integrity", token |-> <<Row(v).token, v, work.key>>,
     key |-> work.key, row |-> Row(v).id, scope |-> Row(v).token,
     expected |-> Row(v).stat, baseline |-> Row(v).base,
     att |-> [stat |-> work.before, data |-> work.read, prov |-> "verify", at |-> clock + 1],
     advances |-> Evidence(v, work.key) # None, clears |-> Row(v).reappeared]

\* Mutant: the open file is not looked at again after the last chunk.
HashedUnchecked(v) ==
    LET work == ses[v].work IN
    /\ ses[v].pc = "read" /\ Len(work.read) = 2
    /\ Agrees(v)
    /\ clock < MaxClock /\ clock' = clock + 1
    /\ Goto(v, "record", [work EXCEPT !.command = Command(v)])
    /\ UNCHANGED <<disk, db, plan, scan, lost, events, emitted>>

\* Mutant: the digest is compared before the file is looked at again.
HashedFirst(v) ==
    LET work == ses[v].work IN
    /\ ses[v].pc = "read" /\ Len(work.read) = 2
    /\ ~ Agrees(v)
    /\ Emit(v, work.key, Outcome("mismatched", "ok"))
    /\ UNCHANGED <<ledgerVars>>

\* The second stat, the comparison and the making of the record command.
Hashed(v) ==
    LET work == ses[v].work IN
    /\ ses[v].pc = "read" /\ Len(work.read) = 2
    /\ \/ /\ Stat(work.before.id) # work.before
          /\ Emit(v, work.key, Outcome("modified", "ok"))
          /\ UNCHANGED clock
       \/ /\ Stat(work.before.id) = work.before
          /\ ~ Agrees(v)
          /\ Emit(v, work.key, Outcome("mismatched", "ok"))
          /\ UNCHANGED clock
       \/ /\ Stat(work.before.id) = work.before
          /\ Agrees(v)
          /\ clock < MaxClock /\ clock' = clock + 1
          /\ Goto(v, "record", [work EXCEPT !.command = Command(v)])
          /\ UNCHANGED emitted
    /\ UNCHANGED <<disk, db, plan, scan, lost, events>>

\* _record_outcome: a refused or failed record degrades the outcome.
Record(v) ==
    LET work == ses[v].work
        verdict == IF work.command.advances THEN "verified" ELSE "baselined"
    IN
    /\ ses[v].pc = "record"
    /\ \E result \in { "applied", "noop", "stale", "error" } :
          /\ Transact(work.command, result)
          /\ Emit(v, work.key,
                  Outcome(verdict, IF result \in { "applied", "noop" } THEN "ok" ELSE "degraded"))
    /\ UNCHANGED <<disk, clock, plan, scan>>

\* A session that is over keeps only which items it had.
Over(v, pc) ==
    [pc |-> pc, mode |-> None, completed |-> DOMAIN ses[v].items, work |-> NoItem,
     items |-> [k \in DOMAIN ses[v].items |-> None]]

Done(v) ==
    /\ ses[v].pc = "next" /\ Pending(v) = {}
    /\ ses' = [ses EXCEPT ![v] = Over(v, "done")]
    /\ UNCHANGED <<ledgerVars, emitted>>

-----------------------------------------------------------------------------
(***************************************************************************)
(* Checkpoints: before every item and before every chunk.                  *)
(***************************************************************************)
AtCheckpoint(v) ==
    \/ ses[v].pc = "next" /\ Pending(v) # {}
    \/ ses[v].pc = "read" /\ Len(ses[v].work.read) < 2

\* The item in hand stays pending.
Pause(v) ==
    /\ AtCheckpoint(v)
    /\ Event
    /\ Goto(v, "paused", NoItem)
    /\ UNCHANGED <<disk, clock, db, plan, scan, lost, emitted>>

Resume(v) ==
    /\ ses[v].pc = "paused"
    /\ Goto(v, "next", NoItem)
    /\ UNCHANGED <<ledgerVars, emitted>>

\* Mutant: a cancel settles every selected item, settled or not.
CancelAll(v) ==
    /\ AtCheckpoint(v)
    /\ emitted' = [emitted EXCEPT ![v] = [k \in Keys |->
          IF k \in DOMAIN ses[v].items THEN Append(@[k], Outcome("canceled", "ok")) ELSE @[k]]]
    /\ ses' = [ses EXCEPT ![v] = Over(v, "canceled")]
    /\ UNCHANGED ledgerVars

\* Every item that is still pending gets its outcome before the unwind.
Cancel(v) ==
    /\ AtCheckpoint(v)
    /\ emitted' = [emitted EXCEPT ![v] = [k \in Keys |->
          IF k \in Pending(v) THEN Append(@[k], Outcome("canceled", "ok")) ELSE @[k]]]
    /\ ses' = [ses EXCEPT ![v] = Over(v, "canceled")]
    /\ UNCHANGED ledgerVars

-----------------------------------------------------------------------------
Init ==
    /\ LedgerInit
    /\ ses = [v \in Sessions |->
          [pc |-> "idle", mode |-> None, completed |-> {}, work |-> NoItem,
           items |-> [k \in {} |-> None]]]
    /\ emitted = [v \in Sessions |-> [k \in Keys |-> <<>>]]

Step(v) ==
    \/ \E mode \in Modes : Select(v, mode)
    \/ \E k \in Keys : Begin(v, k)
    \/ Read(v) \/ ReadFails(v) \/ Hashed(v) \/ Record(v) \/ Done(v)
    \/ Pause(v) \/ Resume(v) \/ Cancel(v)

Next ==
    \/ LedgerNext /\ UNCHANGED <<ses, emitted>>
    \/ \E v \in Sessions : Step(v)

Spec == Init /\ [][Next]_vars

-----------------------------------------------------------------------------
(***************************************************************************)
(* Properties                                                              *)
(***************************************************************************)
Present(k) == db.inv[k] # None

\* The row lives on in this step, under the same key or another.
Survives(j, k) == Present(j) /\ db'.inv[k] # None /\ db.inv[j].id = db'.inv[k].id

Stored(j, k) ==
    Survives(j, k) /\ db'.inv[k].base \notin { None, db.inv[j].base }

(***************************************************************************)
(* The ledger may lag behind the disk but never leads it: the evidence of  *)
(* a row is content that a file really had, as a whole and under the stat  *)
(* it is filed with, even when the file was rewritten while it was read.   *)
(***************************************************************************)
EvidenceReal ==
    \A k \in Keys : Present(k) /\ db.inv[k].base # None =>
        <<db.inv[k].base.stat, db.inv[k].base.data>> \in had

\* An established digest is replaced only by a copy of new content or by an
\* explicit rebaseline that was shown the very evidence it replaces.
RebaseShown(j, k) ==
    /\ Stored(j, k) /\ db.inv[j].base # None
    /\ db'.inv[k].base.prov = "verify" /\ db'.inv[k].base.data # db.inv[j].base.data
    => \E v \in Sessions :
          /\ ses[v].mode = "rebaseline" /\ ses[v].work.key = k
          /\ Row(v).base = db.inv[j].base

\* The verification time advances only with evidence that repeats the digest
\* and the stat of the evidence before it.
VerifiedRepeats(j, k) ==
    Survives(j, k) /\ db'.inv[k].verified \notin { 0, db.inv[j].verified } =>
        /\ db.inv[j].base # None
        /\ db'.inv[k].base.data = db.inv[j].base.data
        /\ db'.inv[k].base.stat = db.inv[j].base.stat
        /\ db'.inv[k].base.at = db'.inv[k].verified

\* Evidence from a read resolves a reappearance in the same transaction, also
\* one that the session was not shown.
ReadResolves(j, k) ==
    Stored(j, k) /\ db'.inv[k].base.prov = "verify" => ~ db'.inv[k].reappeared

(***************************************************************************)
(* The evidence of a row changes only for a reason, however late a session *)
(* records and whatever sync runs and scans did to the row meanwhile.      *)
(* Code: the guards of _apply_integrity, and the modes of _process_item.   *)
(***************************************************************************)
NoSilentRebase ==
    [][\A j, k \in Keys : RebaseShown(j, k) /\ VerifiedRepeats(j, k) /\ ReadResolves(j, k)]_vars

(***************************************************************************)
(* Rows have ids of their own, and the correspondence of a mapping pairs a *)
(* source row with at most one target row and the reverse, and only rows   *)
(* that exist: also when a move takes over the row and the id of another.  *)
(* The keys of the table would turn a second pair into an error; what is   *)
(* stated is that the recorder itself never makes one.                     *)
(* Code: _record_correspondence, _move_target_row.                         *)
(***************************************************************************)
PairsOneToOne ==
    /\ \A j, k \in Keys :
          Present(j) /\ Present(k) /\ db.inv[j].id = db.inv[k].id => j = k
    /\ \A p, q \in db.pairs : p[1] = q[1] \/ p[2] = q[2] => p = q
    /\ \A p \in db.pairs : p[2] \in Ids(db)

(***************************************************************************)
(* A command that is sent again after a lost answer changes nothing, no    *)
(* matter what was recorded in between.  Code: the tokens of _record,      *)
(* record_inventory and record_integrity.                                  *)
(***************************************************************************)
RepeatsAreNoops == [][lost # None /\ lost' = None => db' = db]_vars

(***************************************************************************)
(* A mismatch is decay and nothing else: it is reported only where content *)
(* changed under one and the same stat.  A file that was rewritten, also   *)
(* in the middle of the read, is reported as modified.                     *)
(***************************************************************************)
MismatchIsDecay ==
    \A v \in Sessions, k \in Keys :
        (\E n \in DOMAIN emitted[v][k] : emitted[v][k][n].result = "mismatched") =>
            \E x, y \in had : x[1] = y[1] /\ x[2] # y[2]

(***************************************************************************)
(* However a session is paused, resumed and canceled, every item it        *)
(* selected gets one outcome and no item gets two.                         *)
(***************************************************************************)
SettledOnce ==
    \A v \in Sessions : \A k \in DOMAIN ses[v].items :
        /\ Len(emitted[v][k]) <= 1
        /\ ses[v].pc \in { "done", "canceled" } => Len(emitted[v][k]) = 1
=============================================================================
