------------------------------ MODULE Planner -------------------------------
(***************************************************************************)
(* The pure planner (modules/planner.py, core/planning.py): from two scan  *)
(* reports, the recorded correspondence and the options of the mapping to  *)
(* operations in an order, with their dependencies.                        *)
(*                                                                         *)
(* The destination policy is the identity.  The reason of an operation is  *)
(* left out but for the cleanup of a directory, which is a kind of its own *)
(* here; kind, source, target and prior target tell operations apart.      *)
(***************************************************************************)
EXTENDS Trees

\* None is no reason to block an operation, and no path.
ASSUME NoneAssumption ==
    None \notin { "collision", "type", "dependency", "unsupported" } /\ None \notin Path

-----------------------------------------------------------------------------
(***************************************************************************)
(* Inputs: in.source and in.target are reports, in.pairs the recorded      *)
(* pairs, in.linked the identities the ledger has seen twice, in.ambiguous *)
(* the source keys it is not sure of, in.opts the options.                 *)
(***************************************************************************)
\* FilterSet.excludes: the path or a directory above it matches.
Excludes(opts, p) == \E q \in opts.filters : Inside(p, q)

FilesOf(in, side) == { f \in in[side].files : ~ Excludes(in.opts, f.path) }

SourceDirs(in) == { d \in in.source.dirs : ~ Excludes(in.opts, d.path) }

At(records, p) == { r \in records : Key(r.path) = Key(p) }

The(records) == CHOOSE r \in records : TRUE

One(records) == Cardinality(records) = 1

Op(kind, source, target) ==
    [kind |-> kind, source |-> source, target |-> target, prior |-> None,
     want |-> None, found |-> None, old |-> None, deps |-> {}, blocked |-> None]

Id(op) == <<op.kind, op.source, op.target, op.prior>>

Reading(op, record) == [op EXCEPT !.want = record.stat]

-----------------------------------------------------------------------------
(***************************************************************************)
(* Directories                                                             *)
(***************************************************************************)
Required(in) ==
    { d.path : d \in SourceDirs(in) }
    \cup UNION { Ancestors(f.path) : f \in FilesOf(in, "source") }

ToCreate(in) == { p \in Required(in) : At(in.target.dirs, p) = {} }

\* _nearest_created_parent
Above(in, p) ==
    LET up == { q \in ToCreate(in) : Below(p, q) } IN
    { q \in up : \A r \in up : Len(r) < Len(q) \/ (Len(r) = Len(q) /\ ~ Before(q, r)) }

MkdirBlocked(in, p) ==
    \/ ~ One(At(SourceDirs(in), p))
    \/ At(FilesOf(in, "target"), p) # {}

MkdirId(in, p) ==
    <<"mkdir", IF One(At(SourceDirs(in), p)) THEN The(At(SourceDirs(in), p)).path ELSE p, p, None>>

Needs(in, p) == { MkdirId(in, q) : q \in Above(in, p) }

Mkdir(in, p) ==
    LET from == At(SourceDirs(in), p)
        inway == At(FilesOf(in, "target"), p)
    IN
    [Op("mkdir", MkdirId(in, p)[2], p) EXCEPT
        !.want = IF One(from) THEN The(from).stat ELSE None,
        !.found = IF One(inway) THEN The(inway).stat ELSE None,
        !.deps = Needs(in, p),
        !.blocked = IF inway # {} THEN "type" ELSE IF One(from) THEN None ELSE "collision"]

-----------------------------------------------------------------------------
(***************************************************************************)
(* Files: every source file gets one operation.                            *)
(***************************************************************************)
Form(p) == <<Parent(p), NameForm[p[Len(p)]]>>

\* _normalization_pairs: the only target file whose name is the same text.
Twins(in, f) ==
    LET source == FilesOf(in, "source")
        target == FilesOf(in, "target")
        lone == { g \in source : At(target, g.path) = {} /\ Form(g.path) = Form(f.path) }
        twins == { t \in target : At(source, t.path) = {} /\ Form(t.path) = Form(f.path) }
    IN  IF lone = {f} /\ One(twins) THEN twins ELSE {}

\* The target files a source file is compared with.
Matches(in, f) ==
    LET same == At(FilesOf(in, "target"), f.path) IN
    IF same # {} THEN same ELSE Twins(in, f)

Unlinked(in, side, r) ==
    /\ r.stat.nlink = 1
    /\ { q \in FilesOf(in, side) : q.stat.id = r.stat.id } = {r}
    /\ r.stat.id \notin in.linked[side]

Known(in, f) == { q \in in.pairs : q.source = f.stat.id }

\* _move_pair: the target file that a recorded pair says to be this file's.
Movable(in, f) ==
    LET known == Known(in, f)
        pair == The(known)
        old == At(FilesOf(in, "target"), pair.target)
    IN
    IF /\ in.source.volume /\ in.target.volume
       /\ Unlinked(in, "source", f)
       /\ Key(f.path) \notin in.ambiguous
       /\ One(known)
       /\ Key(pair.target) # Key(f.path)
       /\ At(FilesOf(in, "source"), pair.target) = {}
       /\ One(old)
       /\ Unlinked(in, "target", The(old))
       /\ pair.id \in { None, The(old).stat.id }
    THEN old ELSE {}

\* The first file of a key stands for the whole group.
Foremost(records) == CHOOSE r \in records : \A q \in records : ~ Before(q.path, r.path)

Conflict(in, f) ==
    IF ~ One(At(FilesOf(in, "source"), f.path)) \/ Cardinality(Matches(in, f)) > 1 THEN "collision"
    ELSE IF At(in.target.dirs, f.path) # {} THEN "type"
    ELSE IF \E p \in Above(in, f.path) : MkdirBlocked(in, p) THEN "dependency"
    ELSE None

BlockedCopy(in, f) ==
    LET first == Foremost(At(FilesOf(in, "source"), f.path)) IN
    [Reading(Op("copy", first.path, f.path), first) EXCEPT !.blocked = Conflict(in, f)]

\* Mutant: a change of case hides a change of content.
MatchedRecasing(in, f) ==
    LET t == The(Matches(in, f))
        recased == Append(Parent(t.path), f.path[Len(f.path)])
        respelled == in.opts.casing /\ Key(t.path) = Key(f.path) /\ recased # t.path
        kind == IF respelled THEN "recase" ELSE IF t.stat.ver # f.stat.ver THEN "update" ELSE "noop"
    IN
    [Reading(Op(kind, f.path, IF respelled THEN recased ELSE t.path), f) EXCEPT
        !.found = t.stat,
        !.prior = IF kind = "recase" THEN t.path ELSE None,
        !.old = IF kind = "recase" THEN t.stat ELSE None]

\* The same file, with the target's spelling or, if it is to follow, the source's.
Matched(in, f) ==
    LET t == The(Matches(in, f))
        same == t.stat.ver = f.stat.ver
        recased == Append(Parent(t.path), f.path[Len(f.path)])
        respelled == in.opts.casing /\ Key(t.path) = Key(f.path) /\ recased # t.path
        kind == IF ~ same THEN "update" ELSE IF respelled THEN "recase" ELSE "noop"
    IN
    [Reading(Op(kind, f.path, IF respelled THEN recased ELSE t.path), f) EXCEPT
        !.found = t.stat,
        !.prior = IF kind = "recase" THEN t.path ELSE None,
        !.old = IF kind = "recase" THEN t.stat ELSE None]

Moved(in, f) ==
    LET t == The(Movable(in, f)) IN
    [Reading(Op(IF t.stat.ver = f.stat.ver THEN "move" ELSE "move_update", f.path, f.path), f)
        EXCEPT !.prior = The(Known(in, f)).target, !.old = t.stat]

Content(in, f) ==
    LET op == IF Conflict(in, f) # None THEN BlockedCopy(in, f)
              ELSE IF Matches(in, f) # {} THEN Matched(in, f)
              ELSE IF Movable(in, f) # {} THEN Moved(in, f)
              ELSE Reading(Op("copy", f.path, f.path), f)
    IN  [op EXCEPT !.deps = Needs(in, f.path)]

-----------------------------------------------------------------------------
(***************************************************************************)
(* What the source no longer has                                           *)
(***************************************************************************)
Moves == { "move", "move_update" }

\* Keys that an operation has taken, or that it leaves behind.
Claimed(content) ==
    { Key(op.target) : op \in { o \in content : o.blocked # "dependency" } }

Left(content) == { Key(op.prior) : op \in { o \in content : o.kind \in Moves } }

Removals(in, content) ==
    IF in.opts.policy = "additive" THEN {}
    ELSE { [Op(IF in.opts.policy = "trash" THEN "trash" ELSE "delete", None, t.path)
              EXCEPT !.found = t.stat]
             : t \in { r \in FilesOf(in, "target") :
                         Key(r.path) \notin Claimed(content) \cup Left(content) } }

\* Entries that cannot be synced stay in the plan, blocked.
Unsupported(in) ==
    { [Op("noop", p, p) EXCEPT !.blocked = "unsupported"]
        : p \in { q \in in.source.odd \cup in.target.odd : ~ Excludes(in.opts, q) } }

\* A directory that is not wanted and will be empty.
Emptied(in, gone, cleaned, d) ==
    LET inside == { r \in in.target.files \cup in.target.dirs : Below(r.path, d.path) } IN
    /\ in.opts.policy # "additive"
    /\ ~ Excludes(in.opts, d.path)
    /\ \A p \in Required(in) : Key(p) # Key(d.path)
    /\ \A r \in inside : ~ Excludes(in.opts, r.path)
    /\ \A p \in in.target.odd : ~ Below(p, d.path)
    /\ \A f \in in.target.files : Below(f.path, d.path) => Key(f.path) \in gone
    /\ \A c \in in.target.dirs : Parent(c.path) = d.path =>
          \E p \in { r.path : r \in cleaned } \cup Required(in) : Key(p) = Key(c.path)

\* The code goes from the deepest directories up: what it arrives at is the
\* largest set in which the subdirectories of a member are members or wanted.
Cleaned(in, gone) ==
    UNION { cleaned \in SUBSET in.target.dirs :
              \A d \in cleaned : Emptied(in, gone, cleaned, d) }

Cleanups(in, content, removals) ==
    LET gone == { Key(op.target) : op \in removals } \cup Left(content)
        empties == removals \cup { op \in content : op.kind \in Moves }
        Frees(op, d) == Inside(IF op.kind \in Moves THEN op.prior ELSE op.target, d.path)
        within(d) == { c \in Cleaned(in, gone) : Parent(c.path) = d.path }
    IN
    { [Op("cleanup", None, d.path) EXCEPT
          !.found = d.stat,
          !.deps = { Id(op) : op \in { o \in empties : Frees(o, d) } }
                   \cup { Id(Op("cleanup", None, c.path)) : c \in within(d) }]
        : d \in Cleaned(in, gone) }

-----------------------------------------------------------------------------
\* The order of the plan: directories, files, removals, what is unsupported,
\* cleanups.
Section(op) ==
    IF op.kind = "mkdir" THEN 1
    ELSE IF op.blocked = "unsupported" THEN 4
    ELSE IF op.kind \in { "trash", "delete" } THEN 3
    ELSE IF op.kind = "cleanup" THEN 5
    ELSE 2

ByPath(o, q) == Before(o.target, q.target)

Shallow(o, q) ==
    Len(o.target) < Len(q.target) \/ (Len(o.target) = Len(q.target) /\ ByPath(o, q))

Deep(o, q) ==
    Len(o.target) > Len(q.target) \/ (Len(o.target) = Len(q.target) /\ ByPath(o, q))

Earlier(o, q) ==
    \/ Section(o) < Section(q)
    \/ /\ Section(o) = Section(q)
       /\ CASE Section(o) = 1 -> Shallow(o, q)
            [] Section(o) = 5 -> Deep(o, q)
            [] OTHER -> ByPath(o, q)

PlanOf(in) ==
    LET mkdirs == { Mkdir(in, p) : p \in ToCreate(in) }
        content == { Content(in, f) : f \in FilesOf(in, "source") }
        removals == Removals(in, content)
    IN
    mkdirs \cup content \cup removals \cup Unsupported(in) \cup Cleanups(in, content, removals)

\* Mutant: the kept old versions are not counted.
RequiredBytesNew(ops, trash, hardlinks) ==
    Cardinality({ o \in ops : o.blocked = None /\ o.kind \in { "copy", "update", "move_update" } })

\* calculate_required_bytes, with files of one unit each.
RequiredBytes(ops, trash, hardlinks) ==
    LET writes == { o \in ops : o.blocked = None /\ o.kind \in { "copy", "update", "move_update" } }
        keeps == { o \in writes : trash /\ ~ hardlinks /\ o.kind # "copy" }
    IN  Cardinality(writes) + Cardinality(keeps)
=============================================================================
