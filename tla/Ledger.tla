------------------------------- MODULE Ledger -------------------------------
(***************************************************************************)
(* The ledger of one target location: what db/recorder.py writes, through  *)
(* db/writer.py, when a sync run, an inventory scan or an integrity        *)
(* session reports what it saw on disk.  Every command is one transaction  *)
(* on the value db; the disk goes its own way meanwhile.                   *)
(*                                                                         *)
(* A key is a canonical relative path of the target and, for the pairs, of *)
(* the source.  A stat is the identity of a file and its modification      *)
(* stamp, which stand for all the fields the code compares.  Content is a  *)
(* pair of chunks.                                                         *)
(***************************************************************************)
EXTENDS Integers, FiniteSets, FiniteSetsExt

CONSTANTS
    Keys,         \* canonical relative paths
    First,        \* the key of the file that is there at the start
    FsTypes,      \* file systems the volume may be found with
    Identified,   \* the source's file system gives its files an identity that lasts
    None,         \* no row, no evidence, no file
    MaxClock,     \* bound: attestations and edits
    MaxEvents     \* bound: runs, operations, scans, sessions, faults and drifts

Stats == [id : Nat, mtime : Nat]

\* What was read of a file: the stat, the chunks, how and when they were read.
Attestations == [stat : Stats, data : Int \X Int, prov : { "copy", "verify" }, at : Nat]

Rows ==
    [id : Nat, presence : { "present", "missing", "unsupported" }, stat : Stats \cup {None},
     token : Nat, base : Attestations \cup {None}, verified : Nat, reappeared : BOOLEAN]

ASSUME LedgerAssumption ==
    IsFiniteSet(Keys) /\ First \in Keys /\ None \notin Rows /\ Identified \in BOOLEAN

VARIABLES
    tree,     \* tree[k]: the file under the key, or None
    objs,     \* objs[i]: stamp and content of the file with identity i
    had,      \* every <<stat, content>> a file of the location ever had
    clock,    \* the UTC clock
    db,       \* the ledger
    sync,     \* the evidence of an operation the executor has yet to record
    todo,     \* the keys the run's plan has not come to; a plan uses a key once
    scan,     \* the scan that has yet to be recorded
    lost,     \* a command that was committed while its caller got an error
    events    \* the events so far; the number of an event is its token

disk == <<tree, objs, had>>

plan == <<sync, todo>>

ledgerVars == <<tree, objs, had, clock, db, sync, todo, scan, lost, events>>

Event == events < MaxEvents /\ events' = events + 1

-----------------------------------------------------------------------------
(***************************************************************************)
(* The disk                                                                *)
(***************************************************************************)
Stat(i) == [id |-> i, mtime |-> objs[i].mtime]

Live(k) == IF tree[k] = None THEN None ELSE Stat(tree[k])

Whole(c) == <<c, c>>

Fresh == Cardinality(DOMAIN objs) + 1

\* A new file with this stamp and content; the old ones keep theirs.
Created(mtime, data) ==
    [i \in DOMAIN objs \cup {Fresh} |->
        IF i = Fresh THEN [mtime |-> mtime, data |-> data] ELSE objs[i]]

Drifted == Event /\ UNCHANGED <<db, plan, scan, lost>>

\* A program rewrites a file in place.
Edit(k) ==
    /\ tree[k] # None /\ clock < MaxClock
    /\ Drifted
    /\ clock' = clock + 1
    /\ objs' = [objs EXCEPT ![tree[k]] = [mtime |-> clock', data |-> Whole(clock')]]
    /\ had' = had \cup {<<[id |-> tree[k], mtime |-> clock'], Whole(clock')>>}
    /\ UNCHANGED tree

Decayed(data, chunk) == IF chunk = 1 THEN <<-1, data[2]>> ELSE <<data[1], -1>>

\* A chunk decays on the medium; no stat shows it.  It happens once at most:
\* two decays within one read would give a digest of no content at all.
Rot(k, chunk) ==
    /\ tree[k] # None
    /\ \A i \in DOMAIN objs : -1 \notin { objs[i].data[1], objs[i].data[2] }
    /\ Drifted
    /\ objs' = [objs EXCEPT ![tree[k]].data = Decayed(@, chunk)]
    /\ had' = had \cup {<<Live(k), objs'[tree[k]].data>>}
    /\ UNCHANGED <<tree, clock>>

Vanish(k) ==
    /\ tree[k] # None
    /\ Drifted
    /\ tree' = [tree EXCEPT ![k] = None]
    /\ UNCHANGED <<objs, had, clock>>

\* A file that was taken away comes back, under this or another name.
Return(k, i) ==
    /\ tree[k] = None /\ \A j \in Keys : tree[j] # i
    /\ Drifted
    /\ tree' = [tree EXCEPT ![k] = i]
    /\ UNCHANGED <<objs, had, clock>>

-----------------------------------------------------------------------------
(***************************************************************************)
(* Rows                                                                    *)
(***************************************************************************)
Ids(d) == { d.inv[k].id : k \in { j \in Keys : d.inv[j] # None } }

\* SQLite gives out one more than the largest id in use.
NewId(d) == Max(Ids(d) \cup {0}) + 1

NewRow(id, presence, stat, token) ==
    [id |-> id, presence |-> presence, stat |-> stat, token |-> token,
     base |-> None, verified |-> 0, reappeared |-> FALSE]

\* An observation of a file: the evidence of an existing row stays.
Observed(row, id, stat, token) ==
    IF row = None THEN NewRow(id, "present", stat, token)
    ELSE [row EXCEPT !.presence = "present", !.stat = stat, !.token = token,
                     !.reappeared = @ \/ row.presence = "missing"]

\* _upsert_observation
Upsert(d, k, stat, token) == [d EXCEPT !.inv[k] = Observed(@, NewId(d), stat, token)]

\* Mutant: only the old pair of the source row is taken out.
PairBySource(d, k, id) ==
    IF Identified THEN [d EXCEPT !.pairs = { p \in @ : p[1] # k } \cup {<<k, id>>}] ELSE d

\* _record_correspondence: a source row and a target row have one pair each,
\* and a source file without an identity gets none.  The keys of the table
\* would refuse a second pair (schema.py:184-185); the deletion before the
\* insertion is what keeps them from having to.
Pair(d, k, id) ==
    IF Identified THEN [d EXCEPT !.pairs = { p \in @ : p[1] # k /\ p[2] # id } \cup {<<k, id>>}]
    ELSE d

Attest(d, k, att) == [d EXCEPT !.inv[k].base = att]

\* DELETE of a row takes its pairs with it.
Dropped(d, k) ==
    [d EXCEPT !.inv[k] = None, !.pairs = { p \in @ : p[2] # d.inv[k].id }]

-----------------------------------------------------------------------------
(***************************************************************************)
(* Recording one operation of a sync run (SyncRunRecorder)                 *)
(***************************************************************************)
RecordCopyLike(d, c) ==
    LET seen == Upsert(d, c.key, c.stat, c.run) IN
    Pair(Attest(seen, c.key, c.att), c.key, seen.inv[c.key].id)

\* _move_target_row refuses a present row in the way and a row that is not
\* the one the plan saw.
MoveRefused(d, c) ==
    \/ /\ c.prior # c.key /\ d.inv[c.key] # None
       /\ d.inv[c.key].presence # "missing"
    \/ /\ d.inv[c.prior] # None
       /\ d.inv[c.prior].stat # c.expected

MoveTargetRow(d, c) ==
    LET clear == IF c.prior # c.key /\ d.inv[c.key] # None THEN Dropped(d, c.key) ELSE d
        old == d.inv[c.prior]
        moved == [old EXCEPT !.presence = "present", !.stat = c.stat, !.token = c.run,
                             !.reappeared = FALSE]
    IN  IF old = None THEN Upsert(clear, c.key, c.stat, c.run)
        ELSE [clear EXCEPT !.inv = [k \in Keys |-> IF k = c.key THEN moved
                                                   ELSE IF k = c.prior THEN None ELSE @[k]]]

RecordMove(d, c) ==
    LET moved == MoveTargetRow(d, c)
        attested == IF c.att = None THEN moved ELSE Attest(moved, c.key, c.att)
    IN  Pair(attested, c.key, moved.inv[c.key].id)

RecordAbsent(d, c) ==
    LET seen == Upsert(d, c.key, c.stat, c.run) IN
    [seen EXCEPT !.inv[c.key].presence = "missing"]

RecordNoop(d, c) ==
    LET seen == Upsert(d, c.key, c.stat, c.run) IN Pair(seen, c.key, seen.inv[c.key].id)

\* record_copied ... record_noop, or None where a stale-recording error is raised.
RecordedOp(d, c) ==
    CASE c.kind \in { "copy", "update" } -> RecordCopyLike(d, c)
      [] c.kind \in { "move", "recase", "move_update" } ->
             IF MoveRefused(d, c) THEN None ELSE RecordMove(d, c)
      [] c.kind \in { "trash", "delete" } -> RecordAbsent(d, c)
      [] c.kind = "noop" -> RecordNoop(d, c)

-----------------------------------------------------------------------------
(***************************************************************************)
(* Reconciling an inventory scan (_reconcile_inventory)                    *)
(***************************************************************************)
Unsupported(row, id, token) ==
    IF row = None THEN NewRow(id, "unsupported", None, token)
    ELSE [row EXCEPT !.presence = "unsupported", !.stat = None, !.token = token]

MarkedMissing(row, token) ==
    IF row = None \/ row.presence = "missing" THEN row
    ELSE [row EXCEPT !.presence = "missing", !.token = token]

\* The ids of rows that are inserted one after the other.
Numbered(d, new) ==
    CHOOSE f \in [new -> NewId(d) .. NewId(d) + Cardinality(new) - 1] :
        \A j, k \in new : f[j] = f[k] => j = k

ReconcileInventory(d, c) ==
    LET ids == Numbered(d, { k \in DOMAIN c.found : d.inv[k] = None }) IN
    [d EXCEPT !.inv = [k \in Keys |->
        IF k \notin DOMAIN c.found
        THEN IF c.complete THEN MarkedMissing(@[k], c.scope) ELSE @[k]
        ELSE IF c.found[k] = None THEN Unsupported(@[k], ids[k], c.scope)
        ELSE Observed(@[k], ids[k], c.found[k], c.scope)]]

-----------------------------------------------------------------------------
(***************************************************************************)
(* Recording integrity evidence (_apply_integrity)                         *)
(***************************************************************************)
\* Mutant: a row that is there is good enough.
GuardHoldsPresent(d, c) ==
    d.inv[c.key] # None /\ d.inv[c.key].id = c.row /\ d.inv[c.key].presence = "present"

\* The row is still the one the session selected, with the same evidence.
GuardHolds(d, c) ==
    /\ d.inv[c.key] # None
    /\ d.inv[c.key].id = c.row
    /\ d.inv[c.key].presence = "present"
    /\ d.inv[c.key].token = c.scope
    /\ d.inv[c.key].stat = c.expected
    /\ d.inv[c.key].base = c.baseline

\* The row with the evidence of a command.
Reattested(row, c) ==
    [row EXCEPT !.base = c.att,
                !.verified = IF c.advances THEN c.att.at ELSE @,
                !.reappeared = @ /\ ~ c.clears]

ApplyIntegrity(d, c) == [d EXCEPT !.inv[c.key] = Reattested(@, c)]

-----------------------------------------------------------------------------
(***************************************************************************)
(* The transaction of a command: its result and the ledger it leaves.  A   *)
(* token that is known has been applied; an error rolls everything back.   *)
(***************************************************************************)
Known(d, c) == { r \in d.done : r.token = c.token }

Keep(d, c, result) == [d EXCEPT !.done = @ \cup {[token |-> c.token, result |-> result]}]

\* Mutant: the operation token is not looked up.
AnswerUntracked(d, c) ==
    CASE c.type = "op" ->
             IF RecordedOp(d, c) = None THEN [db |-> d, result |-> "error"]
             ELSE [db |-> Keep(RecordedOp(d, c), c, "applied"), result |-> "applied"]
      [] c.type = "inventory" ->
             [db |-> Keep(ReconcileInventory(d, c), c, "applied"), result |-> "applied"]
      [] c.type = "integrity" ->
             IF GuardHolds(d, c)
             THEN [db |-> Keep(ApplyIntegrity(d, c), c, "applied"), result |-> "applied"]
             ELSE [db |-> Keep(d, c, "stale"), result |-> "stale"]

Answer(d, c) ==
    IF Known(d, c) # {}
    THEN [db |-> d,
          result |-> IF \E r \in Known(d, c) : r.result = "stale" THEN "stale" ELSE "noop"]
    ELSE CASE c.type = "op" ->
                  IF RecordedOp(d, c) = None THEN [db |-> d, result |-> "error"]
                  ELSE [db |-> Keep(RecordedOp(d, c), c, "applied"), result |-> "applied"]
           [] c.type = "inventory" ->
                  [db |-> Keep(ReconcileInventory(d, c), c, "applied"), result |-> "applied"]
           [] c.type = "integrity" ->
                  IF GuardHolds(d, c)
                  THEN [db |-> Keep(ApplyIntegrity(d, c), c, "applied"), result |-> "applied"]
                  ELSE [db |-> Keep(d, c, "stale"), result |-> "stale"]

\* transact commits the command and answers; or the database stays busy past
\* the deadline and the rollback leaves the ledger as it was; or the commit
\* succeeds and the caller is told that it failed.
Transact(c, result) ==
    \/ /\ result = Answer(db, c).result
       /\ db' = Answer(db, c).db
       /\ UNCHANGED <<lost, events>>
    \/ /\ result = "error"
       /\ Event
       /\ UNCHANGED <<db, lost>>
    \/ /\ result = "error" /\ Answer(db, c).result = "applied" /\ lost = None
       /\ Event
       /\ db' = Answer(db, c).db
       /\ lost' = c

\* A caller that did not get its answer sends the command again.
Repeat ==
    /\ lost # None
    /\ db' = Answer(db, lost).db
    /\ lost' = None
    /\ UNCHANGED <<disk, clock, plan, scan, events>>

-----------------------------------------------------------------------------
(***************************************************************************)
(* The sync run                                                            *)
(***************************************************************************)
\* observe_volume: a volume known with another file system needs a rebind.
VolumeAccepted(d, fs) == d.bound \in { None, fs }

\* begin_sync_run, of a run that has its token.
RunBegun(d, fs, token) == [d EXCEPT !.run = token, !.bound = fs]

\* _begin: host, volumes, locations, mapping and run.
BeginRun(fs) ==
    /\ db.run = None
    /\ VolumeAccepted(db, fs)
    /\ Event
    /\ db' = RunBegun(db, fs, events')
    /\ todo' = Keys
    /\ UNCHANGED <<disk, clock, sync, scan, lost>>

\* finish_run, with any status and recording.
FinishRun ==
    /\ db.run # None /\ sync = None
    /\ db' = [db EXCEPT !.run = None]
    /\ todo' = {}
    /\ UNCHANGED <<disk, clock, sync, scan, lost, events>>

\* The executor completes an operation on disk and has yet to record it.
Op(kind, k, prior, expected, stat, att) ==
    [type |-> "op", token |-> <<db.run, events'>>, run |-> db.run, kind |-> kind, key |-> k,
     prior |-> prior, expected |-> expected, stat |-> stat, att |-> att]

\* A plan has one operation at most that takes a key as its target or moves it
\* away (claimed_target_keys, moved_from_keys).
Executing(keys) ==
    /\ db.run # None /\ sync = None
    /\ keys \subseteq todo /\ todo' = todo \ keys
    /\ Event
    /\ UNCHANGED <<db, scan, lost>>

CopyAttested(stat) ==
    [stat |-> stat, data |-> Whole(0), prov |-> "copy", at |-> clock + 1]

\* Content from the source under a new identity, with the source's stamp.
Publish(kind, k, prior) ==
    LET stat == [id |-> Fresh, mtime |-> 0] IN
    /\ Executing({k, prior})
    /\ clock < MaxClock /\ clock' = clock + 1
    /\ tree' = [j \in Keys |-> IF j = k THEN Fresh ELSE IF j = prior THEN None ELSE tree[j]]
    /\ objs' = Created(0, Whole(0))
    /\ had' = had \cup {<<stat, Whole(0)>>}
    /\ sync' = Op(kind, k, prior, Live(prior), stat, CopyAttested(stat))

Copy(k) == tree[k] = None /\ Publish("copy", k, k)

Update(k) == tree[k] # None /\ Publish("update", k, k)

MoveUpdate(k, prior) ==
    /\ tree[prior] # None /\ tree[k] = None
    /\ Publish("move_update", k, prior)

Move(k, prior) ==
    /\ Executing({k, prior})
    /\ tree[prior] # None /\ tree[k] = None
    /\ tree' = [tree EXCEPT ![k] = tree[prior], ![prior] = None]
    /\ sync' = Op("move", k, prior, Live(prior), Live(prior), None)
    /\ UNCHANGED <<objs, had, clock>>

Remove(k, kind) ==
    /\ Executing({k})
    /\ tree[k] # None
    /\ tree' = [tree EXCEPT ![k] = None]
    /\ sync' = Op(kind, k, k, Live(k), Live(k), None)
    /\ UNCHANGED <<objs, had, clock>>

\* Operations that leave the file where it is: a change of case, a no-op.
Stay(k, kind) ==
    /\ Executing({k})
    /\ tree[k] # None
    /\ sync' = Op(kind, k, k, Live(k), Live(k), None)
    /\ UNCHANGED <<disk, clock>>

RecordOp ==
    /\ sync # None
    /\ \E result \in { "applied", "error" } : Transact(sync, result)
    /\ sync' = None
    /\ UNCHANGED <<disk, clock, todo, scan>>

Execute ==
    \/ \E k \in Keys : Copy(k) \/ Update(k)
    \/ \E k \in Keys : Remove(k, "trash") \/ Stay(k, "recase") \/ Stay(k, "noop")
    \/ \E k, prior \in Keys : k # prior /\ (Move(k, prior) \/ MoveUpdate(k, prior))

-----------------------------------------------------------------------------
(***************************************************************************)
(* The inventory scan                                                      *)
(***************************************************************************)
\* What a scan may report: every file, one of them perhaps as unsupported, or
\* nothing and not as complete.
Files == { k \in Keys : tree[k] # None }

Reports ==
    { [found |-> [k \in Files |-> IF k \in odd THEN None ELSE Live(k)], complete |-> TRUE]
        : odd \in { {} } \cup { {k} : k \in Files } }
    \cup { [found |-> [k \in {} |-> None], complete |-> FALSE] }

Scan ==
    /\ scan = None
    /\ Event
    /\ \E report \in Reports :
          scan' = [type |-> "inventory", token |-> <<events'>>, scope |-> events',
                   found |-> report.found, complete |-> report.complete]
    /\ UNCHANGED <<disk, clock, db, plan, lost>>

RecordInventory ==
    /\ scan # None
    /\ \E result \in { "applied", "error" } : Transact(scan, result)
    /\ scan' = None
    /\ UNCHANGED <<disk, clock, plan>>

-----------------------------------------------------------------------------
\* One file, which is new, or was copied by an earlier run, or was missing at
\* the last scan.
LedgerInit ==
    \E presence \in { None, "present", "missing" } :
        LET stat == [id |-> 1, mtime |-> 0]
            base == [stat |-> stat, data |-> Whole(0), prov |-> "copy", at |-> 0]
        IN
        /\ tree = [j \in Keys |-> IF j = First THEN 1 ELSE None]
        /\ objs = [i \in {1} |-> [mtime |-> 0, data |-> Whole(0)]]
        /\ had = {<<stat, Whole(0)>>}
        /\ clock = 0 /\ events = 0
        /\ db = [inv |-> [j \in Keys |-> IF presence = None \/ j # First THEN None ELSE
                            [id |-> 1, presence |-> presence, stat |-> stat, token |-> 0,
                             base |-> base,
                             verified |-> 0, reappeared |-> FALSE]],
                 pairs |-> {}, bound |-> None, run |-> None, done |-> {}]
        /\ sync = None /\ todo = {} /\ scan = None /\ lost = None

LedgerNext ==
    \/ \E k \in Keys : Edit(k) \/ Vanish(k)
    \/ \E k \in Keys, chunk \in {1, 2} : Rot(k, chunk)
    \/ \E k \in Keys, i \in DOMAIN objs : Return(k, i)
    \/ \E fs \in FsTypes : BeginRun(fs)
    \/ Execute \/ RecordOp \/ FinishRun
    \/ Scan \/ RecordInventory
    \/ Repeat
=============================================================================
