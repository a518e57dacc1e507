----------------------------- MODULE MCPlanning -----------------------------
(***************************************************************************)
(* Small trees for TLC: files and directories under d, and a file x that   *)
(* may be spelled X or be written n, in another Unicode form.              *)
(***************************************************************************)
EXTENDS Planning

MCNames == <<"d", "e", "n", "x", "X", "y">>

MCNameKey == [n \in { "d", "e", "n", "x", "X", "y" } |-> IF n = "X" THEN "x" ELSE n]

MCNameForm == [n \in { "d", "e", "n", "x", "X", "y" } |-> IF n = "n" THEN "x" ELSE n]

d == <<"d">>
dx == <<"d", "x">>
de == <<"d", "e">>
dex == <<"d", "e", "x">>
x == <<"x">>
capX == <<"X">>
n == <<"n">>
y == <<"y">>

MCIgnored == { y }

MCPaths == { d, dx, x }

\* What may be under d, and beside it in the source and in the target.
InD ==
    { {}, { <<d, "dir">> }, { <<d, "dir">>, <<dx, "file">> }, { <<d, "file">> },
      { <<d, "link">> }, { <<d, "dir">>, <<dx, "link">> },
      { <<d, "dir">>, <<de, "dir">>, <<dex, "file">> } }

Beside ==
    { {}, { <<x, "file">> }, { <<capX, "file">> }, { <<x, "file">>, <<capX, "file">> },
      { <<n, "file">> } }

BesideTarget ==
    { {}, { <<x, "file">> }, { <<capX, "file">> }, { <<n, "file">> }, { <<x, "link">> } }

Order == <<d, dx, de, dex, x, capX, n, y>>

TreeOf(entries, ver) ==
    [p \in { e[1] : e \in entries } |->
        [kind |-> (CHOOSE e \in entries : e[1] = p)[2],
         id |-> CHOOSE i \in DOMAIN Order : Order[i] = p, ver |-> ver]]

FilesIn(tree) == { p \in DOMAIN tree : tree[p].kind = "file" }

\* A file that was recorded under another path than the source has it now.
PairsOf(source, target) ==
    { {} } \cup { { [source |-> source[p].id, target |-> q, id |-> target[q].id] }
                    : p \in FilesIn(source) \cap { x, dx }, q \in FilesIn(target) \cap { x, dx, dex } }

NoLinks == [side \in Sides |-> {}]

World(source, target, pairs) ==
    [source |-> source, target |-> target, pairs |-> pairs, linked |-> NoLinks,
     room |-> { 9 }, budget |-> 0, pauses |-> 0]

SourceTrees == { a \cup b : a \in InD, b \in Beside }

TargetTrees == { a \cup b : a \in InD, b \in BesideTarget }

\* The version of the target's files matters where there are files to compare.
Versions(s, t) ==
    IF \E e \in s, f \in t : e[2] = "file" /\ f[2] = "file" THEN { 0, 1 } ELSE { 0 }

\* All pairs of trees, and nobody interferes.
Cases(s, t, ver) ==
    LET source == TreeOf(s, 0)
        target == TreeOf(t, ver)
    IN  { World(source, target, q) : q \in PairsOf(source, target) }

StillWorlds ==
    UNION { UNION { Cases(s, t, ver) : ver \in Versions(s, t) } : s \in SourceTrees, t \in TargetTrees }

-----------------------------------------------------------------------------
\* Trees that other programs change, scans that fail, and executions that are
\* paused.
Plain == TreeOf({ <<d, "dir">>, <<dx, "file">>, <<x, "file">> }, 0)

Old == TreeOf({ <<d, "dir">>, <<de, "dir">>, <<dex, "file">>, <<dx, "file">> }, 1)

Mixed == TreeOf({ <<d, "junction">>, <<x, "device">>, <<y, "file">> }, 0)

\* One file under two names.
Twice == [Plain EXCEPT ![x].id = Plain[dx].id]

PairFor(source, p, target, q) ==
    { [source |-> source[p].id, target |-> q, id |-> target[q].id] }

Moving(source, target, pairs, changes) ==
    [World(source, target, pairs) EXCEPT !.room = { 1, 9 }, !.budget = changes, !.pauses = 1]

MovingWorlds ==
    { Moving(Plain, Old, PairFor(Plain, x, Old, dex), 1),
      Moving(Mixed, Plain, {}, 1),
      Moving(Twice, Old, PairFor(Twice, x, Old, dex), 1),
      [Moving(Plain, Old, PairFor(Plain, x, Old, dex), 1)
          EXCEPT !.linked = [source |-> {}, target |-> { Old[dex].id }]],
      Moving(TreeOf({ <<d, "dir">>, <<x, "dir">> }, 0), Plain, {}, 1),
      Moving(TreeOf({ <<x, "file">> }, 0), TreeOf({ <<d, "dir">>, <<dx, "file">> }, 0), {}, 2) }

\* Both names of a file of the target have to be brought up to date, and both
\* are to be removed.
SharedWorlds ==
    { [World(source, [p \in DOMAIN Twice |-> [Twice[p] EXCEPT !.ver = 1]], {}) EXCEPT !.pauses = 1]
        : source \in { Plain, TreeOf({ <<d, "dir">> }, 0) } }

\* Room for some of the operations only.
TightWorlds ==
    { [World(Plain, TreeOf(t, 1), {}) EXCEPT !.room = 0 .. 4, !.pauses = 1] : t \in TargetTrees }

MCWorlds == StillWorlds \cup MovingWorlds \cup SharedWorlds \cup TightWorlds

Option(policy, filters, casing) ==
    [policy |-> policy, filters |-> filters, casing |-> casing, trash |-> policy # "mirror"]

MCOptions ==
    { Option("trash", {}, FALSE), Option("additive", {}, FALSE), Option("mirror", {}, TRUE),
      Option("trash", { dx }, TRUE) }
=============================================================================
