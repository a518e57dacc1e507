------------------------------- MODULE Trees --------------------------------
(***************************************************************************)
(* Relative paths as core/pathing.py compares them, and directory trees.   *)
(*                                                                         *)
(* A path is a sequence of names below a root.  Two names may share a      *)
(* Windows key (case), or be the same text in another Unicode form.  A     *)
(* tree maps paths to entries: kind, identity and the version that stands  *)
(* for size, times and attributes.                                         *)
(***************************************************************************)
EXTENDS Naturals, FiniteSets, Sequences, SequencesExt

CONSTANTS
    Names,      \* the names, in their sort order
    NameKey,    \* NameKey[n]: the key of a name, in upper case
    NameForm,   \* NameForm[n]: the name in normal form C
    None        \* no entry, no path, no identity

Path == Seq({ Names[i] : i \in DOMAIN Names }) \ { <<>> }

\* normalize_relative_path
Key(p) == [i \in DOMAIN p |-> NameKey[p[i]]]

Parent(p) == SubSeq(p, 1, Len(p) - 1)

Ancestors(p) == { SubSeq(p, 1, n) : n \in 1 .. Len(p) - 1 }

\* The same key or one below it (_same_or_descendant).
Inside(p, q) == Len(q) <= Len(p) /\ SubSeq(Key(p), 1, Len(q)) = Key(q)

Below(p, q) == Inside(p, q) /\ Len(q) < Len(p)

Rank(n) == CHOOSE i \in DOMAIN Names : Names[i] = n

Before(p, q) ==
    \/ Len(p) < Len(q) /\ SubSeq(q, 1, Len(p)) = p
    \/ \E i \in DOMAIN p \cap DOMAIN q :
          /\ SubSeq(p, 1, i - 1) = SubSeq(q, 1, i - 1)
          /\ Rank(p[i]) < Rank(q[i])

-----------------------------------------------------------------------------
\* The entry a name leads to: its own, or the one that differs in case only.
Actual(tree, p) ==
    LET like == { q \in DOMAIN tree : Key(q) = Key(p) } IN
    IF p \in like \/ like = {} THEN p ELSE CHOOSE q \in like : TRUE

Exists(tree, p) == Actual(tree, p) \in DOMAIN tree

Stat(tree, p) ==
    LET e == tree[Actual(tree, p)] IN
    IF Exists(tree, p)
    THEN [kind |-> e.kind, id |-> e.id, ver |-> e.ver,
          nlink |-> Cardinality({ q \in DOMAIN tree : tree[q].id = e.id })]
    ELSE None

IsDirectory(tree, p) == p = <<>> \/ (Exists(tree, p) /\ Stat(tree, p).kind = "dir")

\* The directories on the way to it are there, spelled as in the path.
Placed(tree, p) == \A q \in Ancestors(p) : q \in DOMAIN tree /\ tree[q].kind = "dir"

IsTree(tree) ==
    \A p \in DOMAIN tree :
        /\ p \in Path /\ Placed(tree, p)
        /\ DOMAIN tree[p] = { "kind", "id", "ver" }

Children(tree, p) == { q \in DOMAIN tree : Parent(q) = p }

\* The modification time of a directory follows its children.
Touched(tree, p) ==
    [q \in DOMAIN tree |->
        IF q = Actual(tree, Parent(p)) THEN [tree[q] EXCEPT !.ver = @ + 1] ELSE tree[q]]

With(tree, p, entry) ==
    LET t == Touched(tree, p) IN
    [q \in (DOMAIN t \ { Actual(tree, p) }) \cup {p} |-> IF q = p THEN entry ELSE t[q]]

Without(tree, p) ==
    LET t == Touched(tree, p) IN [q \in DOMAIN t \ { Actual(tree, p) } |-> t[q]]
=============================================================================
