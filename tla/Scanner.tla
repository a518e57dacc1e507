------------------------------ MODULE Scanner -------------------------------
(***************************************************************************)
(* The walk over one root after the other (modules/scanner.py) while other *)
(* programs change both trees.  A directory is listed in one step; what    *)
(* each entry is taken for is looked up later, entry by entry.             *)
(***************************************************************************)
EXTENDS Trees

CONSTANTS
    Paths,     \* the paths another program may touch
    Ignored    \* keys that both scans leave out (IgnoreSet)

ASSUME PathsAssumption == Paths \subseteq Path

VARIABLES
    disk,      \* disk[side]: the tree under the root
    budget,    \* bound: changes by other programs and faults still to come
    walk,      \* the scan that is under way
    reports,   \* reports[side]: the result of the scan
    steady,    \* steady[side]: entries left alone during the whole scan
    calm       \* no other program has changed anything

scanVars == <<disk, budget, walk, reports, steady, calm>>

Sides == { "source", "target" }

Spend == budget > 0 /\ budget' = budget - 1

-----------------------------------------------------------------------------
(***************************************************************************)
(* Other programs                                                          *)
(***************************************************************************)
\* What was touched is no longer steady for the scan of its root.
Alter(side, tree, p) ==
    /\ Spend
    /\ disk' = [disk EXCEPT ![side] = tree]
    /\ calm' = FALSE
    /\ steady' = IF walk # None /\ walk.side = side
                 THEN [steady EXCEPT ![side] = { q \in @ : ~ Inside(q, p) }]
                 ELSE steady
    /\ UNCHANGED <<walk, reports>>

FreshId(side) == Max({ disk[side][p].id : p \in DOMAIN disk[side] } \cup {0}) + 1

Create(side, p, kind) ==
    /\ ~ Exists(disk[side], p) /\ Placed(disk[side], p)
    /\ Alter(side, With(disk[side], p, [kind |-> kind, id |-> FreshId(side), ver |-> 5]), p)

Modify(side, p) ==
    /\ p \in DOMAIN disk[side] /\ disk[side][p].kind = "file"
    /\ Alter(side, [disk[side] EXCEPT ![p].ver = @ + 1], p)

Erase(side, p) ==
    /\ p \in DOMAIN disk[side] /\ Children(disk[side], p) = {}
    /\ Alter(side, Without(disk[side], p), p)

\* A file or an empty directory becomes known under another name.
Rename(side, p, q) ==
    /\ p \in DOMAIN disk[side] /\ Children(disk[side], p) = {} /\ ~ Below(q, p)
    /\ ~ Exists(disk[side], q) /\ Placed(disk[side], q)
    /\ Alter(side, With(Without(disk[side], p), q, disk[side][p]), p)

Drift ==
    \E side \in Sides, p \in Paths :
        \/ \E kind \in { "file", "dir" } : Create(side, p, kind)
        \/ Modify(side, p)
        \/ Erase(side, p)
        \/ \E q \in Paths \ {p} : Rename(side, p, q)

-----------------------------------------------------------------------------
(***************************************************************************)
(* The walk                                                                *)
(***************************************************************************)
Report(found) ==
    [files |-> found.files, dirs |-> found.dirs, odd |-> found.odd,
     complete |-> found.complete, volume |-> found.volume]

Nothing(volume) ==
    [files |-> {}, dirs |-> {}, odd |-> {}, complete |-> FALSE, volume |-> volume]

Due(side) ==
    /\ walk = None /\ reports[side] = None
    /\ side = "target" => reports["source"] # None

\* The root cannot be resolved or its volume cannot be read (_offline_result),
\* or the root itself cannot be looked up.
Offline(side, volume) ==
    /\ Due(side)
    /\ Spend
    /\ reports' = [reports EXCEPT ![side] = Nothing(volume)]
    /\ UNCHANGED <<disk, walk, steady, calm>>

StartWalk(side) ==
    /\ Due(side)
    /\ walk' = [side |-> side, pending |-> <<<<>>>>, children |-> <<>>, entries |-> {},
                files |-> {}, dirs |-> {}, odd |-> {}, visited |-> {},
                complete |-> TRUE, volume |-> TRUE]
    /\ steady' = [steady EXCEPT ![side] = DOMAIN disk[side]]
    /\ UNCHANGED <<disk, budget, reports, calm>>

\* Directories still to be listed: those just found come first.
Todo == walk.children \o walk.pending

Entry(tree, p) ==
    [path |-> p, isdir |-> tree[p].kind \in { "dir", "junction" },
     isfile |-> tree[p].kind = "file"]

Listing(tree, paths) == { Entry(tree, p) : p \in paths }

\* Mutant: an error in the middle of a listing is a warning only.
ListUnmarked ==
    LET tree == disk[walk.side]
        dir == Head(Todo)
    IN
    /\ walk # None /\ walk.entries = {} /\ Todo # <<>>
    /\ \E read \in SUBSET Children(tree, dir) :
          /\ IF IsDirectory(tree, dir) /\ read = Children(tree, dir)
             THEN UNCHANGED budget
             ELSE (IF IsDirectory(tree, dir) THEN Spend ELSE read = {} /\ UNCHANGED budget)
          /\ walk' = [walk EXCEPT !.pending = Tail(Todo), !.children = <<>>,
                                  !.entries = Listing(tree, read)]
    /\ UNCHANGED <<disk, reports, steady, calm>>

\* One directory is read to its end; or the reading fails, after some of the
\* entries or because the directory is gone.
List ==
    LET tree == disk[walk.side]
        dir == Head(Todo)
        Go(read, complete) ==
            walk' = [walk EXCEPT !.pending = Tail(Todo), !.children = <<>>,
                                 !.entries = Listing(tree, read),
                                 !.complete = @ /\ complete]
    IN
    /\ walk # None /\ walk.entries = {} /\ Todo # <<>>
    /\ \/ IsDirectory(tree, dir) /\ Go(Children(tree, dir), TRUE) /\ UNCHANGED budget
       \/ IsDirectory(tree, dir) /\ Spend /\ \E read \in SUBSET Children(tree, dir) : Go(read, FALSE)
       \/ ~ IsDirectory(tree, dir) /\ Go({}, FALSE) /\ UNCHANGED budget
    /\ UNCHANGED <<disk, reports, steady, calm>>

\* An entry of the listing under the stat it has now, which may be another
\* entry's by now: kind as listed, everything else as looked up.
Noted(w, e, stat) ==
    LET record(kind) == [path |-> e.path, stat |-> [stat EXCEPT !.kind = kind]]
        Odd(complete) == walk' = [w EXCEPT !.odd = @ \cup {e.path}, !.complete = @ /\ complete]
        link == stat.kind \in { "link", "junction" }
    IN
    \/ Key(e.path) \in Ignored /\ walk' = w
    \/ Key(e.path) \notin Ignored /\ stat = None /\ Odd(FALSE)
    \/ Key(e.path) \notin Ignored /\ stat # None /\ link /\ Odd(~ e.isdir)
    \/ /\ Key(e.path) \notin Ignored /\ stat # None /\ ~ link
       /\ \/ /\ e.isdir /\ stat.id \in w.visited
             /\ walk' = [w EXCEPT !.dirs = @ \cup { record("dir") }, !.complete = FALSE]
          \/ /\ e.isdir /\ stat.id \notin w.visited
             /\ walk' = [w EXCEPT !.dirs = @ \cup { record("dir") },
                                  !.visited = @ \cup { stat.id },
                                  !.children = Append(@, e.path)]
          \/ /\ ~ e.isdir /\ e.isfile
             /\ walk' = [w EXCEPT !.files = @ \cup { record("file") }]
          \/ ~ e.isdir /\ ~ e.isfile /\ Odd(FALSE)

\* The next entry in the order of the names: looked up; or its name cannot be
\* represented; or it is not even known whether it is a directory.
Look ==
    /\ walk # None
    /\ \E e \in walk.entries :
          LET rest == [walk EXCEPT !.entries = @ \ {e}] IN
          /\ \A o \in walk.entries : ~ Before(o.path, e.path)
          /\ \/ Noted(rest, e, Stat(disk[walk.side], e.path)) /\ UNCHANGED budget
             \/ Spend /\ walk' = [rest EXCEPT !.complete = FALSE]
             \/ Spend /\ walk' = [rest EXCEPT !.odd = @ \cup {e.path}, !.complete = FALSE]
    /\ UNCHANGED <<disk, reports, steady, calm>>

\* _append_collision_warnings: two spellings of one key make a scan incomplete.
Collides(w) ==
    LET paths == { r.path : r \in w.files \cup w.dirs } \cup w.odd IN
    \E p, q \in paths : p # q /\ Key(p) = Key(q)

EndWalk ==
    /\ walk # None /\ walk.entries = {} /\ Todo = <<>>
    /\ reports' = [reports EXCEPT ![walk.side] =
                      Report([walk EXCEPT !.complete = @ /\ ~ Collides(walk)])]
    /\ walk' = None
    /\ UNCHANGED <<disk, budget, steady, calm>>

Scan ==
    \/ \E side \in Sides : StartWalk(side) \/ \E volume \in BOOLEAN : Offline(side, volume)
    \/ List \/ Look \/ EndWalk
=============================================================================
