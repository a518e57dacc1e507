--------------------------- MODULE PlanningProofs ---------------------------
(***************************************************************************)
(* Two scans, the plan that is made of them, its selection and its         *)
(* execution (modules/scanner.py, modules/planner.py,                      *)
(* workflows/selection.py, modules/preflight.py, modules/executor.py), for *)
(* every pair of trees, whatever happens to them during the scans, every   *)
(* correspondence and every set of options.                                *)
(***************************************************************************)
EXTENDS Planning, TLAPS, FiniteSetTheorems

\* What the loop keeps: all that is ruled out by itself is withheld, and no
\* operation of a closed set without such operations is.
Sparing ==
    /\ Direct \subseteq withheld
    /\ \A ids \in SUBSET (Ids \ Direct) : Closed(ids) => ids \cap withheld = {}

\* Nothing but the selection depends on the plan and on what is withheld.
LEMMA SparingUnchanged == Sparing /\ UNCHANGED selectionVars => Sparing'
<1> SUFFICES ASSUME Sparing, UNCHANGED selectionVars PROVE Sparing'
  OBVIOUS
<1>1. UNCHANGED <<Operations, Ids, Direct, withheld>>
  BY DEF selectionVars, Operations, Ids, Direct, Unjustified
<1>2. \A ids : Closed(ids)' <=> Closed(ids)
  BY <1>1 DEF Closed
<1> QED
  BY <1>1, <1>2 DEF Sparing

\* One turn of the loop: an operation that depends on a withheld one is in no
\* closed set that avoids what is withheld.
LEMMA WithholdSpares == Sparing /\ Withhold => Sparing'
<1> SUFFICES ASSUME Sparing, Withhold PROVE Sparing'
  OBVIOUS
<1>1. UNCHANGED <<Operations, Ids, Direct>>
  BY DEF Withhold, Operations, Ids, Direct, Unjustified
<1>2. PICK op \in Operations : Dependent(op) /\ withheld' = withheld \cup { Id(op) }
  BY DEF Withhold, Operations
<1>3. Direct' \subseteq withheld'
  BY <1>1, <1>2 DEF Sparing
<1>4. ASSUME NEW ids \in SUBSET (Ids \ Direct), Closed(ids)
      PROVE  ids \cap withheld' = {}
  <2>1. ids \cap withheld = {}
    BY <1>4 DEF Sparing
  <2>2. Id(op) \notin ids
    BY <1>2, <1>4, <2>1 DEF Closed, Dependent
  <2> QED
    BY <1>2, <2>1, <2>2
<1>5. \A ids : Closed(ids)' <=> Closed(ids)
  BY <1>1 DEF Closed
<1> QED
  BY <1>1, <1>3, <1>4, <1>5 DEF Sparing

\* Every step is a turn of the loop, the making of a plan, or neither.
LEMMA NextSpares == Sparing /\ [Next]_vars => Sparing'
<1> SUFFICES ASSUME Sparing, [Next]_vars PROVE Sparing'
  OBVIOUS
<1>1. CASE MakePlan
  <2>1. withheld' = Direct'
    BY <1>1 DEF MakePlan
  <2> QED
    BY <2>1 DEF Sparing
<1>2. CASE Exclude
  BY <1>2, WithholdSpares DEF Exclude
<1>3. CASE UNCHANGED selectionVars
  BY <1>3, SparingUnchanged
<1> QED
  BY <1>1, <1>2, <1>3
     DEF Next, SelectionMade, Review, Commit, Begin, Judge, Execute, Pause, Finish, vars

LEMMA InitSpares == Init => Sparing
<1> SUFFICES ASSUME Init PROVE Sparing
  OBVIOUS
<1>1. Operations = {}
  BY DEF Init, NoPlan, Operations
<1>2. Ids = {} /\ Direct = {}
  BY <1>1 DEF Ids, Direct, BlockedOps, Quarantined, Unjustified
<1> QED
  BY <1>2 DEF Sparing

-----------------------------------------------------------------------------
(***************************************************************************)
(* Paths.                                                                  *)
(***************************************************************************)
Name == { Names[i] : i \in DOMAIN Names }

LEMMA PathType ==
  ASSUME NEW p \in Path
  PROVE  /\ p \in Seq(Name) /\ p # <<>>
         /\ Len(p) \in Nat /\ Len(p) >= 1 /\ DOMAIN p = 1 .. Len(p)
<1>1. p \in Seq(Name) /\ p # <<>>
  BY DEF Path, Name
<1> QED
  BY <1>1

\* A beginning of a path.
LEMMA PrefixType ==
  ASSUME NEW p \in Path, NEW n \in 0 .. Len(p)
  PROVE  /\ SubSeq(p, 1, n) \in Seq(Name) /\ Len(SubSeq(p, 1, n)) = n
         /\ \A i \in 1 .. n : SubSeq(p, 1, n)[i] = p[i]
         /\ DOMAIN SubSeq(p, 1, n) = 1 .. n
         /\ n >= 1 => SubSeq(p, 1, n) \in Path
         /\ n = 0 => SubSeq(p, 1, n) = <<>>
<1>1. p \in Seq(Name) /\ Len(p) \in Nat
  BY PathType
<1>2. n \in Nat /\ 1 \in Int /\ n <= Len(p)
  BY <1>1
<1>3. /\ SubSeq(p, 1, n) \in Seq(Name) /\ Len(SubSeq(p, 1, n)) = n
      /\ \A i \in 1 .. n : SubSeq(p, 1, n)[i] = p[i]
  BY <1>1, <1>2
<1>4. DOMAIN SubSeq(p, 1, n) = 1 .. n
  BY <1>3
<1>5. n >= 1 => SubSeq(p, 1, n) \in Path
  BY <1>3, <1>2 DEF Path, Name
<1>6. n = 0 => SubSeq(p, 1, n) = <<>>
  BY <1>3
<1> QED
  BY <1>3, <1>4, <1>5, <1>6

\* Beginnings are equal if they agree name by name.
LEMMA PrefixEqual ==
  ASSUME NEW p \in Path, NEW q \in Path, NEW n \in 0 .. Len(p), n <= Len(q),
         \A i \in 1 .. n : p[i] = q[i]
  PROVE  SubSeq(p, 1, n) = SubSeq(q, 1, n)
<1>1. Len(p) \in Nat /\ Len(q) \in Nat
  BY PathType
<1>2. n \in 0 .. Len(q)
  BY <1>1
<1>3. /\ SubSeq(p, 1, n) \in Seq(Name) /\ Len(SubSeq(p, 1, n)) = n
      /\ \A i \in 1 .. n : SubSeq(p, 1, n)[i] = p[i]
  BY PrefixType
<1>4. /\ SubSeq(q, 1, n) \in Seq(Name) /\ Len(SubSeq(q, 1, n)) = n
      /\ \A i \in 1 .. n : SubSeq(q, 1, n)[i] = q[i]
  BY <1>2, PrefixType
<1> QED
  BY <1>3, <1>4, <1>2

LEMMA AncestorType ==
  ASSUME NEW p \in Path, NEW q \in Ancestors(p)
  PROVE  /\ q \in Path /\ Len(q) \in 1 .. Len(p) - 1 /\ q = SubSeq(p, 1, Len(q))
         /\ \A i \in 1 .. Len(q) : q[i] = p[i]
<1>1. PICK n \in 1 .. Len(p) - 1 : q = SubSeq(p, 1, n)
  BY DEF Ancestors
<1>2. n \in 0 .. Len(p) /\ n >= 1
  BY PathType
<1>3. q \in Path /\ Len(q) = n /\ \A i \in 1 .. n : q[i] = p[i]
  BY <1>1, <1>2, PrefixType
<1> QED
  BY <1>1, <1>3

LEMMA AncestorsUp ==
  ASSUME NEW p \in Path, NEW q \in Ancestors(p)
  PROVE  Ancestors(q) \subseteq Ancestors(p)
<1> SUFFICES ASSUME NEW r \in Ancestors(q) PROVE r \in Ancestors(p)
  OBVIOUS
<1>1. q \in Path /\ Len(q) \in 1 .. Len(p) - 1 /\ \A i \in 1 .. Len(q) : q[i] = p[i]
  BY AncestorType
<1>2. r \in Path /\ Len(r) \in 1 .. Len(q) - 1 /\ r = SubSeq(q, 1, Len(r))
  BY <1>1, AncestorType
<1>3. Len(p) \in Nat /\ Len(q) \in Nat /\ Len(r) \in Nat
  BY <1>1, <1>2, PathType
<1>4. Len(r) \in 0 .. Len(q) /\ Len(r) <= Len(p) /\ Len(r) \in 1 .. Len(p) - 1
  BY <1>1, <1>2, <1>3
<1>5. \A i \in 1 .. Len(r) : q[i] = p[i]
  BY <1>1, <1>4, <1>3
<1>6. SubSeq(q, 1, Len(r)) = SubSeq(p, 1, Len(r))
  BY <1>1, <1>4, <1>5, PrefixEqual
<1> QED
  BY <1>2, <1>4, <1>6 DEF Ancestors

LEMMA ParentType ==
  ASSUME NEW p \in Path
  PROVE  /\ Parent(p) \in Seq(Name) /\ Len(Parent(p)) = Len(p) - 1
         /\ Parent(p) = <<>> <=> Len(p) = 1
         /\ Parent(p) # <<>> => Parent(p) \in Ancestors(p)
<1>1. Len(p) \in Nat /\ Len(p) >= 1
  BY PathType
<1>2. Len(p) - 1 \in 0 .. Len(p)
  BY <1>1
<1>3. Parent(p) \in Seq(Name) /\ Len(Parent(p)) = Len(p) - 1
  BY <1>2, PrefixType DEF Parent
<1>4. Len(p) = 1 => Parent(p) = <<>>
  <2>1. \A s \in Seq(Name) : Len(s) = 0 => s = <<>>
    OBVIOUS
  <2> QED
    BY <1>1, <1>3, <2>1
<1>5. ASSUME Parent(p) = <<>> PROVE Len(p) = 1
  <2>1. Len(<<>>) = 0
    OBVIOUS
  <2>2. Len(Parent(p)) = 0
    BY <1>5, <2>1
  <2> QED
    BY <1>1, <1>3, <2>2
<1>6. Len(p) # 1 => Len(p) - 1 \in 1 .. Len(p) - 1
  <2>1. \A n \in Nat : n >= 1 /\ n # 1 => n - 1 \in 1 .. n - 1
    OBVIOUS
  <2> QED
    BY <1>1, <2>1
<1> QED
  BY <1>1, <1>3, <1>4, <1>5, <1>6 DEF Parent, Ancestors

\* Below each directory on the way to a path there is a next step.
LEMMA StepDown ==
  ASSUME NEW p \in Path, NEW q \in Ancestors(p) \cup { <<>> }
  PROVE  \E r \in Ancestors(p) \cup {p} : r \in Path /\ Parent(r) = q
<1>1. Len(p) \in Nat /\ Len(p) >= 1
  BY PathType
<1>2. Len(<<>>) = 0
  OBVIOUS
<1>3. /\ q = SubSeq(p, 1, Len(q)) /\ Len(q) \in 0 .. Len(p) - 1
      /\ \A i \in 1 .. Len(q) : q[i] = p[i]
  <2>1. CASE q \in Ancestors(p)
    BY <2>1, <1>1, AncestorType
  <2>2. CASE q = <<>>
    <3>1. 0 \in 0 .. Len(p) /\ 0 \in 0 .. Len(p) - 1
      BY <1>1
    <3>2. SubSeq(p, 1, 0) = <<>>
      BY <3>1, PrefixType
    <3> QED
      BY <2>2, <1>2, <3>1, <3>2
  <2> QED
    BY <2>1, <2>2
<1> DEFINE n == Len(q)
           r == SubSeq(p, 1, n + 1)
<1>4. n \in Nat /\ n + 1 \in 0 .. Len(p) /\ n + 1 >= 1 /\ n + 1 \in 1 .. Len(p)
  BY <1>3, <1>1
<1>5. r \in Path /\ Len(r) = n + 1 /\ \A i \in 1 .. n + 1 : r[i] = p[i]
  BY <1>4, PrefixType
<1>6. (n + 1) - 1 = n /\ n \in 0 .. Len(r) /\ n <= Len(p)
  BY <1>4, <1>5
<1>7. \A i \in 1 .. n : r[i] = p[i]
  BY <1>4, <1>5
<1>8. SubSeq(r, 1, n) = SubSeq(p, 1, n)
  BY <1>5, <1>6, <1>7, PrefixEqual
<1>9. Parent(r) = q
  BY <1>5, <1>6, <1>8, <1>3 DEF Parent
<1>10. r \in Ancestors(p) \cup {p}
  <2>1. CASE n + 1 = Len(p)
    <3>1. Len(p) \in 0 .. Len(p) /\ \A i \in 1 .. Len(p) : p[i] = p[i]
      BY <1>1
    <3>2. r \in Seq(Name) /\ p \in Seq(Name)
      BY <1>5, PathType
    <3>3. r = p
      BY <3>2, <1>5, <2>1
    <3> QED
      BY <3>3
  <2>2. CASE n + 1 # Len(p)
    <3>1. n + 1 \in 1 .. Len(p) - 1
      BY <2>2, <1>4, <1>1
    <3> QED
      BY <3>1 DEF Ancestors
  <2> QED
    BY <2>1, <2>2
<1> QED
  BY <1>5, <1>9, <1>10

LEMMA AncestorsOfParent ==
  ASSUME NEW p \in Path, Parent(p) # <<>>
  PROVE  Parent(p) \in Path /\ Ancestors(p) = Ancestors(Parent(p)) \cup { Parent(p) }
<1>1. Parent(p) \in Ancestors(p)
  BY ParentType
<1>2. Parent(p) \in Path /\ Ancestors(Parent(p)) \subseteq Ancestors(p)
  BY <1>1, AncestorType, AncestorsUp
<1>3. ASSUME NEW q \in Ancestors(p), q # Parent(p) PROVE q \in Ancestors(Parent(p))
  <2>1. /\ q \in Path /\ q = SubSeq(p, 1, Len(q)) /\ Len(q) \in 1 .. Len(p) - 1
        /\ \A i \in 1 .. Len(q) : q[i] = p[i]
    BY AncestorType
  <2>2. Len(p) \in Nat /\ Len(Parent(p)) = Len(p) - 1
    BY ParentType, PathType
  <2>3. Len(q) # Len(p) - 1
    BY <1>3, <2>1 DEF Parent
  <2>4. Len(q) \in 1 .. Len(Parent(p)) - 1 /\ Len(q) \in 0 .. Len(q) /\ Len(q) \in 0 .. Len(p)
    BY <2>1, <2>2, <2>3
  <2>5. \A i \in 1 .. Len(Parent(p)) : Parent(p)[i] = p[i]
    BY <1>1, AncestorType
  <2>6. \A i \in 1 .. Len(q) : p[i] = Parent(p)[i]
    BY <2>4, <2>5, <2>2, <2>1
  <2>7. SubSeq(p, 1, Len(q)) = SubSeq(Parent(p), 1, Len(q))
    BY <1>2, <2>2, <2>4, <2>6, PrefixEqual
  <2> QED
    BY <2>1, <2>4, <2>7 DEF Ancestors
<1> QED
  BY <1>1, <1>2, <1>3

-----------------------------------------------------------------------------
(***************************************************************************)
(* Keys.                                                                   *)
(***************************************************************************)
LEMMA IntervalEqual == \A m, n \in Nat : 1 .. m = 1 .. n => m = n
<1> SUFFICES ASSUME NEW m \in Nat, NEW n \in Nat, 1 .. m = 1 .. n PROVE m = n
  OBVIOUS
<1>1. ~ m < n
  <2>1. m < n => n \in 1 .. n /\ n \notin 1 .. m
    OBVIOUS
  <2> QED
    BY <2>1
<1>2. ~ n < m
  <2>1. n < m => m \in 1 .. m /\ m \notin 1 .. n
    OBVIOUS
  <2> QED
    BY <2>1
<1> QED
  BY <1>1, <1>2

LEMMA KeyEqual ==
  ASSUME NEW p \in Path, NEW q \in Path
  PROVE  Key(p) = Key(q) <=>
            Len(p) = Len(q) /\ \A i \in 1 .. Len(p) : NameKey[p[i]] = NameKey[q[i]]
<1>1. /\ Len(p) \in Nat /\ DOMAIN p = 1 .. Len(p)
      /\ Len(q) \in Nat /\ DOMAIN q = 1 .. Len(q)
  BY PathType
<1>2. ASSUME Key(p) = Key(q)
      PROVE  Len(p) = Len(q) /\ \A i \in 1 .. Len(p) : NameKey[p[i]] = NameKey[q[i]]
  <2>1. DOMAIN Key(p) = 1 .. Len(p) /\ DOMAIN Key(q) = 1 .. Len(q)
    BY <1>1 DEF Key
  <2>2. 1 .. Len(p) = 1 .. Len(q)
    BY <1>2, <2>1
  <2>3. Len(p) = Len(q)
    BY <1>1, <2>2, IntervalEqual
  <2>4. \A i \in 1 .. Len(p) : Key(p)[i] = NameKey[p[i]] /\ Key(q)[i] = NameKey[q[i]]
    BY <1>1, <2>3 DEF Key
  <2> QED
    BY <1>2, <2>3, <2>4
<1>3. ASSUME Len(p) = Len(q), \A i \in 1 .. Len(p) : NameKey[p[i]] = NameKey[q[i]]
      PROVE  Key(p) = Key(q)
  BY <1>1, <1>3 DEF Key
<1> QED
  BY <1>2, <1>3

LEMMA KeyOfPrefix ==
  ASSUME NEW p \in Path, NEW n \in 0 .. Len(p)
  PROVE  /\ SubSeq(Key(p), 1, n) = Key(SubSeq(p, 1, n))
         /\ \A i \in 1 .. n : Key(SubSeq(p, 1, n))[i] = NameKey[p[i]]
         /\ DOMAIN Key(SubSeq(p, 1, n)) = 1 .. n
<1>1. p \in Seq(Name) /\ Len(p) \in Nat /\ DOMAIN p = 1 .. Len(p)
  BY PathType
<1> DEFINE r == SubSeq(p, 1, n)
           K == { NameKey[a] : a \in Name }
<1>2. DOMAIN r = 1 .. n /\ \A i \in 1 .. n : r[i] = p[i]
  BY PrefixType
<1>3. Key(p) \in Seq(K) /\ Len(Key(p)) = Len(p) /\ \A i \in 1 .. Len(p) : Key(p)[i] = NameKey[p[i]]
  <2>1. \A i \in 1 .. Len(p) : p[i] \in Name
    BY <1>1
  <2>2. Key(p) = [i \in 1 .. Len(p) |-> NameKey[p[i]]]
    BY <1>1 DEF Key
  <2>3. \A i \in 1 .. Len(p) : NameKey[p[i]] \in K
    BY <2>1
  <2> HIDE DEF K
  <2> QED
    BY <1>1, <2>2, <2>3
<1>4. n \in Nat /\ n <= Len(p)
  BY <1>1
<1>5. /\ SubSeq(Key(p), 1, n) \in Seq(K) /\ Len(SubSeq(Key(p), 1, n)) = n
      /\ \A i \in 1 .. n : SubSeq(Key(p), 1, n)[i] = Key(p)[i]
  <2> HIDE DEF K
  <2> QED
    BY <1>3, <1>4
<1>6. SubSeq(Key(p), 1, n) = [i \in 1 .. n |-> NameKey[p[i]]]
  <2>1. \A i \in 1 .. n : SubSeq(Key(p), 1, n)[i] = NameKey[p[i]]
    BY <1>3, <1>4, <1>5
  <2> HIDE DEF K
  <2> QED
    BY <1>4, <1>5, <2>1
<1>7. Key(r) = [i \in 1 .. n |-> NameKey[p[i]]]
  BY <1>2 DEF Key
<1> QED
  BY <1>6, <1>7

LEMMA InsideMeaning ==
  ASSUME NEW p \in Path, NEW q \in Path
  PROVE  Inside(p, q) <=>
            Len(q) <= Len(p) /\ \A i \in 1 .. Len(q) : NameKey[p[i]] = NameKey[q[i]]
<1>1. Len(p) \in Nat /\ Len(q) \in Nat /\ Len(q) >= 1
  BY PathType
<1> SUFFICES ASSUME Len(q) <= Len(p)
             PROVE  SubSeq(Key(p), 1, Len(q)) = Key(q)
                       <=> \A i \in 1 .. Len(q) : NameKey[p[i]] = NameKey[q[i]]
  BY DEF Inside
<1> DEFINE r == SubSeq(p, 1, Len(q))
<1>2. Len(q) \in 0 .. Len(p)
  BY <1>1
<1>3. SubSeq(Key(p), 1, Len(q)) = Key(r)
  BY <1>2, KeyOfPrefix
<1>4. r \in Path /\ Len(r) = Len(q) /\ \A i \in 1 .. Len(q) : r[i] = p[i]
  BY <1>1, <1>2, PrefixType
<1>5. Key(r) = Key(q) <=> \A i \in 1 .. Len(r) : NameKey[r[i]] = NameKey[q[i]]
  <2> HIDE DEF r
  <2> QED
    BY <1>4, KeyEqual
<1> HIDE DEF r
<1> QED
  BY <1>3, <1>4, <1>5

LEMMA InsideLike ==
  ASSUME NEW p \in Path, NEW q \in Path, Key(p) = Key(q)
  PROVE  /\ Inside(p, q)
         /\ \A r : Inside(p, r) <=> Inside(q, r)
<1>1. Len(p) = Len(q) /\ \A i \in 1 .. Len(p) : NameKey[p[i]] = NameKey[q[i]]
  BY KeyEqual
<1>2. Len(p) \in Nat
  BY PathType
<1>3. Inside(p, q)
  BY <1>1, <1>2, InsideMeaning
<1>4. \A r : Inside(p, r) <=> Inside(q, r)
  BY <1>1 DEF Inside
<1> QED
  BY <1>3, <1>4

LEMMA ExcludesLike ==
  ASSUME NEW p \in Path, NEW q \in Path, Key(p) = Key(q), NEW opts
  PROVE  Excludes(opts, p) <=> Excludes(opts, q)
BY InsideLike DEF Excludes

LEMMA InsideUp ==
  ASSUME NEW p \in Path, NEW q \in Path, NEW r \in Ancestors(q), Inside(r, p)
  PROVE  Inside(q, p)
<1>1. /\ r \in Path /\ Len(r) \in 1 .. Len(q) - 1
      /\ \A i \in 1 .. Len(r) : r[i] = q[i]
  BY AncestorType
<1>2. Len(p) <= Len(r) /\ \A i \in 1 .. Len(p) : NameKey[r[i]] = NameKey[p[i]]
  BY <1>1, InsideMeaning
<1>3. Len(p) \in Nat /\ Len(q) \in Nat /\ Len(r) \in Nat
  BY <1>1, PathType
<1>4. Len(p) <= Len(q) /\ \A i \in 1 .. Len(p) : i \in 1 .. Len(r)
  BY <1>1, <1>2, <1>3
<1> QED
  BY <1>1, <1>2, <1>4, InsideMeaning

LEMMA AncestorBelow ==
  ASSUME NEW q \in Path, NEW r \in Ancestors(q)
  PROVE  Below(q, r)
<1>1. /\ r \in Path /\ Len(r) \in 1 .. Len(q) - 1
      /\ \A i \in 1 .. Len(r) : r[i] = q[i]
  BY AncestorType
<1>2. Len(q) \in Nat /\ Len(r) \in Nat
  BY <1>1, PathType
<1>3. Len(r) < Len(q) /\ Len(r) <= Len(q)
  BY <1>1, <1>2
<1> QED
  BY <1>1, <1>3, InsideMeaning DEF Below

\* Two paths of one key have ancestors of the same keys.
LEMMA AncestorLike ==
  ASSUME NEW p \in Path, NEW q \in Path, Key(p) = Key(q), NEW r \in Ancestors(p)
  PROVE  \E s \in Ancestors(q) : s \in Path /\ Key(s) = Key(r)
<1>1. Len(p) = Len(q) /\ \A i \in 1 .. Len(p) : NameKey[p[i]] = NameKey[q[i]]
  BY KeyEqual
<1>2. /\ r \in Path /\ Len(r) \in 1 .. Len(p) - 1
      /\ \A i \in 1 .. Len(r) : r[i] = p[i]
  BY AncestorType
<1>3. Len(q) \in Nat /\ Len(r) \in Nat
  BY <1>2, PathType
<1> DEFINE n == Len(r)
           s == SubSeq(q, 1, n)
<1>4. n \in 0 .. Len(q) /\ n >= 1 /\ n \in 1 .. Len(q) - 1
  BY <1>1, <1>2, <1>3
<1>5. s \in Path /\ Len(s) = n /\ \A i \in 1 .. n : s[i] = q[i]
  BY <1>4, PrefixType
<1>6. s \in Ancestors(q)
  BY <1>4 DEF Ancestors
<1>7. \A i \in 1 .. n : NameKey[s[i]] = NameKey[r[i]]
  <2> SUFFICES ASSUME NEW i \in 1 .. n PROVE NameKey[s[i]] = NameKey[r[i]]
    OBVIOUS
  <2>1. i \in 1 .. Len(p)
    BY <1>2, <1>3, <1>4, <1>1
  <2>2. s[i] = q[i] /\ r[i] = p[i]
    BY <1>2, <1>5
  <2> QED
    BY <1>1, <2>1, <2>2
<1>8. Key(s) = Key(r)
  <2> HIDE DEF s
  <2> QED
    BY <1>2, <1>5, <1>7, KeyEqual
<1> HIDE DEF s
<1> QED
  BY <1>5, <1>6, <1>8

LEMMA OverlookedLike ==
  ASSUME NEW p \in Path, NEW q \in Path, Key(p) = Key(q), Overlooked(p)
  PROVE  Overlooked(q)
<1>1. PICK r \in {p} \cup Ancestors(p) : Key(r) \in Ignored
  BY DEF Overlooked
<1>2. CASE r = p
  BY <1>1, <1>2 DEF Overlooked
<1>3. CASE r \in Ancestors(p)
  BY <1>1, <1>3, AncestorLike DEF Overlooked
<1> QED
  BY <1>1, <1>2, <1>3

LEMMA OverlookedByParent ==
  ASSUME NEW p \in Path, Key(p) \notin Ignored, Overlooked(p)
  PROVE  Parent(p) \in Path /\ Overlooked(Parent(p))
<1>1. PICK r \in Ancestors(p) : Key(r) \in Ignored
  BY DEF Overlooked
<1>2. Parent(p) # <<>>
  <2> SUFFICES ASSUME Parent(p) = <<>> PROVE FALSE
    OBVIOUS
  <2>1. Len(p) = 1
    BY ParentType
  <2>2. Len(r) \in 1 .. Len(p) - 1
    BY AncestorType
  <2>3. 1 .. 1 - 1 = {}
    OBVIOUS
  <2> QED
    BY <2>1, <2>2, <2>3
<1>3. Parent(p) \in Path /\ r \in Ancestors(Parent(p)) \cup { Parent(p) }
  BY <1>2, AncestorsOfParent
<1> QED
  BY <1>1, <1>3 DEF Overlooked

-----------------------------------------------------------------------------
(***************************************************************************)
(* Trees.                                                                  *)
(***************************************************************************)
LEMMA ActualMeaning ==
  ASSUME NEW tree, NEW p
  PROVE  /\ Exists(tree, p) <=> \E q \in DOMAIN tree : Key(q) = Key(p)
         /\ Exists(tree, p) => Key(Actual(tree, p)) = Key(p)
         /\ ~ Exists(tree, p) => Actual(tree, p) = p
         /\ p \in DOMAIN tree => Actual(tree, p) = p
<1> DEFINE like == { q \in DOMAIN tree : Key(q) = Key(p) }
<1>1. Actual(tree, p) = IF p \in like \/ like = {} THEN p ELSE CHOOSE q \in like : TRUE
  BY DEF Actual
<1>2. like # {} => (CHOOSE q \in like : TRUE) \in like
  OBVIOUS
<1>3. like # {} => Actual(tree, p) \in like
  <2>1. CASE p \in like
    BY <2>1, <1>1
  <2>2. CASE p \notin like /\ like # {}
    BY <2>2, <1>1, <1>2
  <2> QED
    BY <2>1, <2>2
<1>4. like = {} => Actual(tree, p) = p /\ p \notin DOMAIN tree
  BY <1>1
<1>5. p \in DOMAIN tree => p \in like
  OBVIOUS
<1> QED
  BY <1>1, <1>3, <1>4, <1>5 DEF Exists

Shaped(tree) == \A p \in DOMAIN tree : DOMAIN tree[p] = { "kind", "id", "ver" }

\* What a change at p leaves of the other entries: all but the time of the
\* directory above.
Spares(tree, new, p) ==
    \A q \in DOMAIN tree \cap DOMAIN new :
        /\ new[q].kind = tree[q].kind /\ new[q].id = tree[q].id
        /\ q # Actual(tree, Parent(p)) => new[q] = tree[q]

LEMMA TouchedSpares ==
  ASSUME NEW tree, Shaped(tree), NEW p
  PROVE  /\ DOMAIN Touched(tree, p) = DOMAIN tree
         /\ Shaped(Touched(tree, p)) /\ Spares(tree, Touched(tree, p), p)
<1> DEFINE t == Touched(tree, p)
           a == Actual(tree, Parent(p))
<1>1. DOMAIN t = DOMAIN tree
  BY DEF Touched
<1>2. \A q \in DOMAIN tree : t[q] = IF q = a THEN [tree[q] EXCEPT !.ver = @ + 1] ELSE tree[q]
  BY DEF Touched
<1> HIDE DEF t, a
<1>3. ASSUME NEW q \in DOMAIN tree
      PROVE  /\ DOMAIN t[q] = { "kind", "id", "ver" }
             /\ t[q].kind = tree[q].kind /\ t[q].id = tree[q].id
             /\ q # a => t[q] = tree[q]
  <2>1. DOMAIN tree[q] = { "kind", "id", "ver" }
    BY DEF Shaped
  <2>2. CASE q = a
    <3>1. t[q] = [tree[q] EXCEPT !.ver = @ + 1]
      BY <1>2, <2>2
    <3> QED
      BY <2>1, <2>2, <3>1
  <2>3. CASE q # a
    BY <2>1, <2>3, <1>2
  <2> QED
    BY <2>2, <2>3
<1>4. Shaped(t) /\ Spares(tree, t, p)
  BY <1>1, <1>3 DEF Shaped, Spares, a
<1> QED
  BY <1>1, <1>4 DEF t

Puts(tree, new, p, entry) ==
    /\ DOMAIN new = (DOMAIN tree \ { Actual(tree, p) }) \cup {p}
    /\ new[p] = entry
    /\ Shaped(new)
    /\ \A q \in DOMAIN new \ {p} :
          /\ q \in DOMAIN tree
          /\ new[q].kind = tree[q].kind /\ new[q].id = tree[q].id
          /\ q # Actual(tree, Parent(p)) => new[q] = tree[q]

LEMMA WithSpares ==
  ASSUME NEW tree, Shaped(tree), NEW p, NEW entry, DOMAIN entry = { "kind", "id", "ver" }
  PROVE  Puts(tree, With(tree, p, entry), p, entry)
<1> DEFINE t == Touched(tree, p)
           w == With(tree, p, entry)
<1>1. DOMAIN t = DOMAIN tree /\ Shaped(t) /\ Spares(tree, t, p)
  BY TouchedSpares
<1>2. w = [q \in (DOMAIN t \ { Actual(tree, p) }) \cup {p} |-> IF q = p THEN entry ELSE t[q]]
  BY DEF With
<1> HIDE DEF t, w
<1>3. DOMAIN w = (DOMAIN tree \ { Actual(tree, p) }) \cup {p} /\ w[p] = entry
  BY <1>1, <1>2
<1>4. \A q \in DOMAIN w \ {p} : q \in DOMAIN tree /\ w[q] = t[q]
  BY <1>1, <1>2, <1>3
<1>5. Shaped(w)
  BY <1>1, <1>3, <1>4 DEF Shaped
<1>6. \A q \in DOMAIN w \ {p} :
          /\ w[q].kind = tree[q].kind /\ w[q].id = tree[q].id
          /\ q # Actual(tree, Parent(p)) => w[q] = tree[q]
  BY <1>1, <1>4 DEF Spares
<1>7. Puts(tree, w, p, entry)
  BY <1>3, <1>4, <1>5, <1>6 DEF Puts
<1> QED
  BY <1>7 DEF w

LEMMA WithoutSpares ==
  ASSUME NEW tree, Shaped(tree), NEW p
  PROVE  /\ DOMAIN Without(tree, p) = DOMAIN tree \ { Actual(tree, p) }
         /\ Shaped(Without(tree, p)) /\ Spares(tree, Without(tree, p), p)
<1> DEFINE t == Touched(tree, p)
           w == Without(tree, p)
<1>1. DOMAIN t = DOMAIN tree /\ Shaped(t) /\ Spares(tree, t, p)
  BY TouchedSpares
<1>2. w = [q \in DOMAIN t \ { Actual(tree, p) } |-> t[q]]
  BY DEF Without
<1> HIDE DEF t, w
<1>3. DOMAIN w = DOMAIN tree \ { Actual(tree, p) } /\ \A q \in DOMAIN w : w[q] = t[q]
  BY <1>1, <1>2
<1> QED
  BY <1>1, <1>3 DEF w, Shaped, Spares

LEMMA TreeGrows ==
  ASSUME NEW tree, IsTree(tree), NEW p \in Path, p \notin DOMAIN tree, Placed(tree, p),
         NEW t, DOMAIN t = DOMAIN tree \cup {p}, Shaped(t),
         \A q \in DOMAIN t \ {p} : t[q].kind = tree[q].kind
  PROVE  IsTree(t)
<1> SUFFICES ASSUME NEW q \in DOMAIN t PROVE q \in Path /\ Placed(t, q)
  BY DEF IsTree, Shaped
<1>1. q \in Path /\ Placed(tree, q)
  BY DEF IsTree
<1>2. ASSUME NEW r \in Ancestors(q) PROVE r \in DOMAIN t /\ t[r].kind = "dir"
  <2>1. r \in DOMAIN tree /\ tree[r].kind = "dir"
    BY <1>1 DEF Placed
  <2> QED
    BY <2>1
<1> QED
  BY <1>1, <1>2 DEF Placed

LEMMA TreeShrinks ==
  ASSUME NEW tree, IsTree(tree), NEW p \in DOMAIN tree, Children(tree, p) = {},
         NEW t, DOMAIN t = DOMAIN tree \ {p}, Shaped(t),
         \A q \in DOMAIN t : t[q].kind = tree[q].kind
  PROVE  /\ IsTree(t)
         /\ \A q \in Path : Placed(tree, q) /\ ~ Below(q, p) => Placed(t, q)
<1>1. ASSUME NEW q \in DOMAIN t PROVE q \in Path /\ Placed(t, q)
  <2>1. q \in Path /\ Placed(tree, q)
    BY DEF IsTree
  <2>2. p \notin Ancestors(q)
    <3> SUFFICES ASSUME p \in Ancestors(q) PROVE FALSE
      OBVIOUS
    <3>1. PICK r \in Ancestors(q) \cup {q} : Parent(r) = p
      BY <2>1, StepDown
    <3>2. r \in DOMAIN tree
      BY <2>1, <3>1 DEF Placed
    <3> QED
      BY <3>1, <3>2 DEF Children
  <2>3. ASSUME NEW r \in Ancestors(q) PROVE r \in DOMAIN t /\ t[r].kind = "dir"
    BY <2>1, <2>2 DEF Placed
  <2> QED
    BY <2>1, <2>3 DEF Placed
<1>2. ASSUME NEW q \in Path, Placed(tree, q), ~ Below(q, p) PROVE Placed(t, q)
  <2>1. p \notin Ancestors(q)
    BY <1>2, AncestorBelow
  <2> QED
    BY <1>2, <2>1 DEF Placed
<1> QED
  BY <1>1, <1>2 DEF IsTree, Shaped

-----------------------------------------------------------------------------
(***************************************************************************)
(* Other programs.  Whatever one does, it leaves a tree, in which what is  *)
(* not inside the path it touched is of the kind it was.                   *)
(***************************************************************************)
Sound(trees) == DOMAIN trees = Sides /\ \A side \in Sides : IsTree(trees[side])

Change(side, p, tree) ==
    /\ disk' = [disk EXCEPT ![side] = tree] /\ IsTree(tree)
    /\ \A q \in DOMAIN disk[side] :
          ~ Inside(q, p) => q \in DOMAIN tree /\ tree[q].kind = disk[side][q].kind
    /\ calm' = FALSE
    /\ steady' = IF walk # None /\ walk.side = side
                 THEN [steady EXCEPT ![side] = { q \in @ : ~ Inside(q, p) }]
                 ELSE steady
    /\ UNCHANGED <<walk, reports>>

LEMMA CreateChanges ==
  ASSUME Sound(disk), NEW side \in Sides, NEW p \in Path, NEW kind, Create(side, p, kind)
  PROVE  \E tree : Change(side, p, tree)
<1> DEFINE tree == disk[side]
           entry == [kind |-> kind, id |-> FreshId(side), ver |-> 5]
           t == With(tree, p, entry)
<1>1. IsTree(tree) /\ Shaped(tree)
  BY DEF Sound, IsTree, Shaped
<1>2. ~ Exists(tree, p) /\ Placed(tree, p) /\ Alter(side, t, p)
  BY DEF Create
<1>3. Actual(tree, p) = p /\ p \notin DOMAIN tree
  BY <1>2, ActualMeaning
<1>4. DOMAIN entry = { "kind", "id", "ver" }
  OBVIOUS
<1> HIDE DEF tree, entry
<1>5. Puts(tree, t, p, entry)
  BY <1>1, <1>4, WithSpares
<1> HIDE DEF t
<1>6. /\ DOMAIN t = DOMAIN tree \cup {p} /\ Shaped(t)
      /\ \A q \in DOMAIN t \ {p} : q \in DOMAIN tree /\ t[q].kind = tree[q].kind
  BY <1>3, <1>5 DEF Puts
<1>7. IsTree(t)
  BY <1>1, <1>2, <1>3, <1>6, TreeGrows
<1>8. \A q \in DOMAIN tree : q \in DOMAIN t /\ t[q].kind = tree[q].kind
  BY <1>3, <1>6
<1> QED
  BY <1>2, <1>7, <1>8 DEF Change, Alter, tree, entry

LEMMA ModifyChanges ==
  ASSUME Sound(disk), NEW side \in Sides, NEW p \in Path, Modify(side, p)
  PROVE  \E tree : Change(side, p, tree)
<1> DEFINE tree == disk[side]
           t == [tree EXCEPT ![p].ver = @ + 1]
<1>1. IsTree(tree) /\ Shaped(tree)
  BY DEF Sound, IsTree, Shaped
<1>2. p \in DOMAIN tree /\ DOMAIN tree[p] = { "kind", "id", "ver" } /\ Alter(side, t, p)
  BY <1>1 DEF Modify, Shaped
<1>3. DOMAIN t = DOMAIN tree
  OBVIOUS
<1>4. \A q \in DOMAIN tree : t[q].kind = tree[q].kind /\ DOMAIN t[q] = { "kind", "id", "ver" }
  BY <1>1, <1>2 DEF Shaped
<1> HIDE DEF t
<1>5. IsTree(t)
  BY <1>1, <1>3, <1>4 DEF IsTree, Placed
<1> QED
  BY <1>2, <1>3, <1>4, <1>5 DEF Change, Alter

LEMMA EraseChanges ==
  ASSUME Sound(disk), NEW side \in Sides, NEW p \in Path, Erase(side, p)
  PROVE  \E tree : Change(side, p, tree)
<1> DEFINE tree == disk[side]
           t == Without(tree, p)
<1>1. IsTree(tree) /\ Shaped(tree)
  BY DEF Sound, IsTree, Shaped
<1>2. p \in DOMAIN tree /\ Children(tree, p) = {} /\ Alter(side, t, p)
  BY DEF Erase
<1>3. Actual(tree, p) = p
  BY <1>2, ActualMeaning
<1> HIDE DEF tree
<1>4. DOMAIN t = DOMAIN tree \ {p} /\ Shaped(t) /\ Spares(tree, t, p)
  BY <1>1, <1>3, WithoutSpares
<1>5. \A q \in DOMAIN t : q \in DOMAIN tree /\ t[q].kind = tree[q].kind
  BY <1>4 DEF Spares
<1> HIDE DEF t
<1>6. IsTree(t)
  BY <1>1, <1>2, <1>4, <1>5, TreeShrinks
<1>7. \A q \in DOMAIN tree : ~ Inside(q, p) => q \in DOMAIN t /\ t[q].kind = tree[q].kind
  BY <1>4, <1>5, InsideLike
<1> QED
  BY <1>2, <1>6, <1>7 DEF Change, Alter, tree

LEMMA RenameChanges ==
  ASSUME Sound(disk), NEW side \in Sides, NEW p \in Path, NEW q \in Path, Rename(side, p, q)
  PROVE  \E tree : Change(side, p, tree)
<1> DEFINE tree == disk[side]
           less == Without(tree, p)
           t == With(less, q, tree[p])
<1>1. IsTree(tree) /\ Shaped(tree)
  BY DEF Sound, IsTree, Shaped
<1>2. /\ p \in DOMAIN tree /\ Children(tree, p) = {} /\ ~ Below(q, p)
      /\ ~ Exists(tree, q) /\ Placed(tree, q) /\ Alter(side, t, p)
  BY DEF Rename
<1>3. Actual(tree, p) = p
  BY <1>2, ActualMeaning
<1> HIDE DEF tree
<1>4. DOMAIN less = DOMAIN tree \ {p} /\ Shaped(less) /\ Spares(tree, less, p)
  BY <1>1, <1>3, WithoutSpares
<1>5. \A r \in DOMAIN less : r \in DOMAIN tree /\ less[r].kind = tree[r].kind
  BY <1>4 DEF Spares
<1> HIDE DEF less
<1>6. IsTree(less) /\ Placed(less, q)
  BY <1>1, <1>2, <1>4, <1>5, TreeShrinks
<1>7. ~ Exists(less, q) /\ Actual(less, q) = q /\ q \notin DOMAIN less
  BY <1>2, <1>4, ActualMeaning
<1>8. DOMAIN tree[p] = { "kind", "id", "ver" }
  BY <1>1, <1>2 DEF Shaped
<1>9. /\ DOMAIN t = DOMAIN less \cup {q} /\ Shaped(t)
      /\ \A r \in DOMAIN t \ {q} : r \in DOMAIN less /\ t[r].kind = less[r].kind
  <2>1. Puts(less, t, q, tree[p])
    BY <1>4, <1>8, WithSpares
  <2> HIDE DEF t
  <2> QED
    BY <1>7, <2>1 DEF Puts
<1> HIDE DEF t
<1>10. IsTree(t)
  BY <1>6, <1>7, <1>9, TreeGrows
<1>11. \A r \in DOMAIN tree : ~ Inside(r, p) => r \in DOMAIN t /\ t[r].kind = tree[r].kind
  BY <1>2, <1>4, <1>5, <1>7, <1>9, InsideLike
<1> QED
  BY <1>2, <1>10, <1>11 DEF Change, Alter, tree

LEMMA DriftAlters == Drift => \E side \in Sides, p \in Paths : \E tree : Alter(side, tree, p)
<1> SUFFICES ASSUME Drift
             PROVE  \E side \in Sides, p \in Paths : \E tree : Alter(side, tree, p)
  OBVIOUS
<1>1. PICK side \in Sides, p \in Paths :
          \/ \E kind \in { "file", "dir" } : Create(side, p, kind)
          \/ Modify(side, p)
          \/ Erase(side, p)
          \/ \E q \in Paths \ {p} : Rename(side, p, q)
  BY DEF Drift
<1>2. CASE \E kind \in { "file", "dir" } : Create(side, p, kind)
  BY <1>2 DEF Create
<1>3. CASE Modify(side, p)
  BY <1>3 DEF Modify
<1>4. CASE Erase(side, p)
  BY <1>4 DEF Erase
<1>5. CASE \E q \in Paths \ {p} : Rename(side, p, q)
  BY <1>5 DEF Rename
<1> QED
  BY <1>1, <1>2, <1>3, <1>4, <1>5

LEMMA DriftChanges ==
  ASSUME Sound(disk), Drift
  PROVE  \E side \in Sides, p \in Path : \E tree : Change(side, p, tree)
<1>1. PICK side \in Sides, p \in Paths :
          \/ \E kind \in { "file", "dir" } : Create(side, p, kind)
          \/ Modify(side, p)
          \/ Erase(side, p)
          \/ \E q \in Paths \ {p} : Rename(side, p, q)
  BY DEF Drift
<1>2. Paths \subseteq Path
  BY PathsAssumption
<1> QED
  BY <1>1, <1>2, CreateChanges, ModifyChanges, EraseChanges, RenameChanges

-----------------------------------------------------------------------------
(***************************************************************************)
(* The directories still to be listed, as a sequence without repetition.   *)
(***************************************************************************)
Dir == Seq(Name)

Member(s, e) == \E i \in DOMAIN s : s[i] = e

Distinct(s) == \A i, j \in DOMAIN s : s[i] = s[j] => i = j

\* The first directory is taken.
LEMMA TailMembers ==
  ASSUME NEW s \in Seq(Dir), s # <<>>
  PROVE  /\ Head(s) \in Dir /\ Tail(s) \in Seq(Dir) /\ Member(s, Head(s))
         /\ \A e : Member(s, e) <=> e = Head(s) \/ Member(Tail(s), e)
         /\ Distinct(s) => Distinct(Tail(s)) /\ ~ Member(Tail(s), Head(s))
<1> DEFINE t == Tail(s)
           n == Len(s)
<1>1. /\ n \in Nat /\ n >= 1 /\ DOMAIN s = 1 .. n /\ Head(s) = s[1] /\ Head(s) \in Dir
      /\ t \in Seq(Dir) /\ Len(t) = n - 1
  OBVIOUS
<1>2. DOMAIN t = 1 .. n - 1 /\ \A i \in 1 .. n - 1 : t[i] = s[i + 1]
  BY <1>1
<1> HIDE DEF t, n
<1>3. \A i \in 1 .. n - 1 : i + 1 \in 1 .. n /\ i + 1 # 1
  BY <1>1
<1>4. \A i \in 1 .. n : i # 1 => i - 1 \in 1 .. n - 1 /\ (i - 1) + 1 = i
  BY <1>1
<1>5. 1 \in 1 .. n
  BY <1>1
<1>6. Member(s, Head(s))
  BY <1>1, <1>5 DEF Member
<1>7. ASSUME NEW e, Member(s, e) PROVE e = Head(s) \/ Member(t, e)
  BY <1>1, <1>2, <1>4, <1>7 DEF Member
<1>8. ASSUME NEW e, Member(t, e) PROVE Member(s, e)
  BY <1>1, <1>2, <1>3, <1>8 DEF Member
<1>9. ASSUME Distinct(s) PROVE Distinct(t) /\ ~ Member(t, Head(s))
  <2>1. ~ Member(t, Head(s))
    BY <1>1, <1>2, <1>3, <1>5, <1>9 DEF Member, Distinct
  <2>2. ASSUME NEW i \in 1 .. n - 1, NEW j \in 1 .. n - 1, t[i] = t[j] PROVE i = j
    <3>1. i + 1 \in DOMAIN s /\ j + 1 \in DOMAIN s /\ s[i + 1] = s[j + 1]
      BY <1>1, <1>2, <1>3, <2>2
    <3>2. i + 1 = j + 1
      BY <1>9, <3>1 DEF Distinct
    <3> QED
      BY <1>1, <3>2
  <2> QED
    BY <1>2, <2>1, <2>2 DEF Distinct
<1> QED
  BY <1>1, <1>6, <1>7, <1>8, <1>9 DEF t

\* A directory joins the ones just found.
LEMMA AppendMembers ==
  ASSUME NEW s \in Seq(Dir), NEW t \in Seq(Dir), NEW d \in Dir
  PROVE  /\ Append(s, d) \in Seq(Dir)
         /\ \A e : Member(Append(s, d) \o t, e) <=> e = d \/ Member(s \o t, e)
         /\ Distinct(s \o t) /\ ~ Member(s \o t, d) => Distinct(Append(s, d) \o t)
<1> DEFINE m == Len(s)
           n == Len(t)
           u == s \o t
           a == Append(s, d)
           v == a \o t
<1>1. m \in Nat /\ n \in Nat /\ a \in Seq(Dir) /\ Len(a) = m + 1
  OBVIOUS
<1>2. DOMAIN u = 1 .. m + n /\ \A i \in 1 .. m + n : u[i] = IF i <= m THEN s[i] ELSE t[i - m]
  OBVIOUS
<1>3. \A i \in 1 .. m + 1 : a[i] = IF i <= m THEN s[i] ELSE d
  OBVIOUS
<1>4. /\ DOMAIN v = 1 .. (m + 1) + n
      /\ \A i \in 1 .. (m + 1) + n : v[i] = IF i <= m + 1 THEN a[i] ELSE t[i - (m + 1)]
  BY <1>1
<1> HIDE DEF m, n, u, a, v
<1>5. \A i \in 1 .. (m + 1) + n :
          v[i] = IF i <= m THEN u[i] ELSE IF i = m + 1 THEN d ELSE u[i - 1]
  <2> SUFFICES ASSUME NEW i \in 1 .. (m + 1) + n
               PROVE  v[i] = IF i <= m THEN u[i] ELSE IF i = m + 1 THEN d ELSE u[i - 1]
    OBVIOUS
  <2>1. CASE i <= m
    <3>1. i <= m + 1 /\ i \in 1 .. m + 1 /\ i \in 1 .. m + n
      BY <2>1, <1>1
    <3> QED
      BY <2>1, <3>1, <1>2, <1>3, <1>4
  <2>2. CASE i = m + 1
    <3>1. i <= m + 1 /\ i \in 1 .. m + 1 /\ ~ i <= m
      BY <2>2, <1>1
    <3> QED
      BY <2>2, <3>1, <1>3, <1>4
  <2>3. CASE i > m + 1
    <3>1. ~ i <= m + 1 /\ ~ i <= m /\ i # m + 1 /\ ~ i - 1 <= m
          /\ i - 1 \in 1 .. m + n /\ i - (m + 1) = (i - 1) - m
      BY <2>3, <1>1
    <3> QED
      BY <3>1, <1>2, <1>4
  <2> QED
    BY <1>1, <2>1, <2>2, <2>3
<1>6. ASSUME NEW e, Member(v, e) PROVE e = d \/ Member(u, e)
  <2>1. PICK i \in 1 .. (m + 1) + n : v[i] = e
    BY <1>4, <1>6 DEF Member
  <2>2. (i <= m => i \in 1 .. m + n) /\ (~ i <= m /\ i # m + 1 => i - 1 \in 1 .. m + n)
    BY <1>1
  <2> QED
    BY <1>2, <1>5, <2>1, <2>2 DEF Member
<1>7. Member(v, d)
  <2>1. m + 1 \in 1 .. (m + 1) + n /\ ~ m + 1 <= m
    BY <1>1
  <2> QED
    BY <1>4, <1>5, <2>1 DEF Member
<1>8. ASSUME NEW e, Member(u, e) PROVE Member(v, e)
  <2>1. PICK i \in 1 .. m + n : u[i] = e
    BY <1>2, <1>8 DEF Member
  <2>2. CASE i <= m
    <3>1. i \in 1 .. (m + 1) + n
      BY <1>1
    <3> QED
      BY <1>4, <1>5, <2>1, <2>2, <3>1 DEF Member
  <2>3. CASE ~ i <= m
    <3>1. i + 1 \in 1 .. (m + 1) + n /\ ~ i + 1 <= m /\ i + 1 # m + 1 /\ (i + 1) - 1 = i
      BY <1>1, <2>3
    <3> QED
      BY <1>4, <1>5, <2>1, <3>1 DEF Member
  <2> QED
    BY <2>2, <2>3
<1>9. ASSUME Distinct(u), ~ Member(u, d) PROVE Distinct(v)
  <2> DEFINE at(i) == IF i <= m THEN i ELSE i - 1
  <2>1. ASSUME NEW i \in 1 .. (m + 1) + n, i # m + 1
        PROVE  at(i) \in 1 .. m + n /\ v[i] = u[at(i)]
    <3>1. at(i) \in 1 .. m + n
      BY <1>1, <2>1
    <3> QED
      BY <1>5, <2>1, <3>1
  <2>2. ASSUME NEW i \in 1 .. (m + 1) + n, NEW j \in 1 .. (m + 1) + n,
               i # m + 1, j # m + 1, at(i) = at(j)
        PROVE  i = j
    BY <1>1, <2>2
  <2>3. v[m + 1] = d
    <3>1. m + 1 \in 1 .. (m + 1) + n /\ ~ m + 1 <= m
      BY <1>1
    <3> QED
      BY <1>5, <3>1
  <2> HIDE DEF at
  <2>4. ASSUME NEW i \in 1 .. (m + 1) + n, i # m + 1 PROVE v[i] # d
    BY <1>2, <1>9, <2>1, <2>4 DEF Member
  <2>5. ASSUME NEW i \in 1 .. (m + 1) + n, NEW j \in 1 .. (m + 1) + n, v[i] = v[j]
        PROVE  i = j
    <3>1. CASE i = m + 1
      BY <2>3, <2>4, <2>5, <3>1
    <3>2. CASE j = m + 1
      BY <2>3, <2>4, <2>5, <3>2
    <3>3. CASE i # m + 1 /\ j # m + 1
      <4>1. at(i) = at(j)
        BY <1>2, <1>9, <2>1, <2>5, <3>3 DEF Distinct
      <4> QED
        BY <2>2, <3>3, <4>1
    <3> QED
      BY <3>1, <3>2, <3>3
  <2> QED
    BY <1>4, <2>5 DEF Distinct
<1> QED
  BY <1>1, <1>6, <1>7, <1>8, <1>9 DEF u, v, a

-----------------------------------------------------------------------------
(***************************************************************************)
(* The steps of the walk, and what the scan consists of at any time.       *)
(***************************************************************************)
Fields ==
    { "side", "pending", "children", "entries", "files", "dirs", "odd", "visited",
      "complete", "volume" }

WalkTypes(w) ==
    /\ DOMAIN w = Fields
    /\ w.side \in Sides /\ w.pending \in Seq(Dir) /\ w.children \in Seq(Dir)
    /\ \A e \in w.entries : e.path \in Path

ScanTypes ==
    /\ DOMAIN steady = Sides /\ DOMAIN reports = Sides
    /\ phase = "scan" => Sound(disk)
    /\ walk # None => phase = "scan" /\ WalkTypes(walk) /\ reports[walk.side] = None

\* After the scans nothing of them changes any more.
Afterwards ==
    /\ UNCHANGED <<walk, reports, steady>>
    /\ phase' # "scan"
    /\ phase = "scan" => \A side \in Sides : reports[side] # None

LEMMA StepKinds ==
  ASSUME [Next]_vars
  PROVE  \/ Scan /\ phase = "scan" /\ phase' = "scan" /\ UNCHANGED <<selectionVars, world>>
         \/ Drift /\ phase' = phase /\ UNCHANGED <<selectionVars, world>>
         \/ Afterwards /\ UNCHANGED world
         \/ UNCHANGED vars
<1>1. CASE phase = "scan" /\ Scan /\ UNCHANGED <<selectionVars, world, phase, runVars>>
  BY <1>1
<1>2. CASE Drift /\ UNCHANGED <<selectionVars, world, phase, runVars>>
  BY <1>2
<1>3. CASE MakePlan \/ Exclude \/ SelectionMade \/ Review \/ Commit \/ Begin \/ Execute
           \/ Pause \/ Finish
  BY <1>3 DEF MakePlan, Exclude, SelectionMade, Review, Commit, Begin, Judge, Execute, Pause,
              Finish, Afterwards, scanVars
<1>4. CASE UNCHANGED vars
  BY <1>4
<1> QED
  BY <1>1, <1>2, <1>3, <1>4 DEF Next

\* A directory is listed, to its end or not.
ListDir(read, whole) ==
    /\ walk # None /\ walk.entries = {} /\ Todo # <<>>
    /\ read \subseteq Children(disk[walk.side], Head(Todo))
    /\ whole => read = Children(disk[walk.side], Head(Todo))
    /\ walk' = [walk EXCEPT !.pending = Tail(Todo), !.children = <<>>,
                            !.entries = Listing(disk[walk.side], read),
                            !.complete = @ /\ whole]
    /\ UNCHANGED <<disk, reports, steady, calm>>

LEMMA ListSteps == List => \E read, whole : ListDir(read, whole)
<1> SUFFICES ASSUME List PROVE \E read, whole : ListDir(read, whole)
  OBVIOUS
<1> DEFINE tree == disk[walk.side]
           dir == Head(Todo)
<1>1. CASE IsDirectory(tree, dir)
           /\ walk' = [walk EXCEPT !.pending = Tail(Todo), !.children = <<>>,
                                   !.entries = Listing(tree, Children(tree, dir)),
                                   !.complete = @ /\ TRUE]
  <2>1. ListDir(Children(tree, dir), TRUE)
    BY <1>1 DEF List, ListDir
  <2> QED
    BY <2>1
<1>2. ASSUME NEW read \in SUBSET Children(tree, dir),
             walk' = [walk EXCEPT !.pending = Tail(Todo), !.children = <<>>,
                                  !.entries = Listing(tree, read),
                                  !.complete = @ /\ FALSE]
      PROVE  ListDir(read, FALSE)
  BY <1>2 DEF List, ListDir
<1>3. {} \in SUBSET Children(tree, dir)
  OBVIOUS
<1> QED
  BY <1>1, <1>2, <1>3 DEF List

\* What becomes of an entry that is looked up.
Rest(e) == [walk EXCEPT !.entries = @ \ {e}]

Record(e, kind) ==
    [path |-> e.path, stat |-> [Stat(disk[walk.side], e.path) EXCEPT !.kind = kind]]

Skip(e) == Key(e.path) \in Ignored /\ walk' = Rest(e)

Stop(e) == walk' = [Rest(e) EXCEPT !.complete = FALSE]

Odd(e, whole) ==
    /\ walk' = [Rest(e) EXCEPT !.odd = @ \cup {e.path}, !.complete = whole]
    /\ whole => Rest(e).complete /\ ~ e.isdir

Seen(e) ==
    /\ Key(e.path) \notin Ignored /\ e.isdir
    /\ walk' = [Rest(e) EXCEPT !.dirs = @ \cup { Record(e, "dir") }, !.complete = FALSE]

Enter(e) ==
    /\ Key(e.path) \notin Ignored /\ e.isdir
    /\ walk' = [Rest(e) EXCEPT !.dirs = @ \cup { Record(e, "dir") },
                               !.visited = @ \cup { Stat(disk[walk.side], e.path).id },
                               !.children = Append(@, e.path)]

Note(e) ==
    /\ Key(e.path) \notin Ignored /\ ~ e.isdir /\ e.isfile
    /\ Stat(disk[walk.side], e.path) # None
    /\ walk' = [Rest(e) EXCEPT !.files = @ \cup { Record(e, "file") }]

LookAt(e) ==
    /\ walk # None /\ e \in walk.entries
    /\ \/ Skip(e) \/ Stop(e) \/ Seen(e) \/ Enter(e) \/ Note(e)
       \/ \E whole : Odd(e, whole)
    /\ UNCHANGED <<disk, reports, steady, calm>>

LEMMA LookSteps == Look => \E e : LookAt(e)
<1> SUFFICES ASSUME Look PROVE \E e : LookAt(e)
  OBVIOUS
<1>1. PICK e \in walk.entries :
          \/ Noted(Rest(e), e, Stat(disk[walk.side], e.path))
          \/ walk' = [Rest(e) EXCEPT !.complete = FALSE]
          \/ walk' = [Rest(e) EXCEPT !.odd = @ \cup {e.path}, !.complete = FALSE]
  BY DEF Look, Rest
<1>2. walk # None /\ UNCHANGED <<disk, reports, steady, calm>>
  BY DEF Look
<1> DEFINE stat == Stat(disk[walk.side], e.path)
<1>3. CASE Key(e.path) \in Ignored /\ walk' = Rest(e)
  BY <1>2, <1>3 DEF LookAt, Skip
<1>4. ASSUME NEW part, walk' = [Rest(e) EXCEPT !.odd = @ \cup {e.path}, !.complete = @ /\ part],
             part => ~ e.isdir
      PROVE  LookAt(e)
  <2>1. Odd(e, Rest(e).complete /\ part)
    <3>1. walk' = [Rest(e) EXCEPT !.odd = @ \cup {e.path}, !.complete = Rest(e).complete /\ part]
      BY <1>4
    <3> QED
      BY <1>4, <3>1 DEF Odd
  <2> QED
    BY <1>2, <2>1 DEF LookAt
<1>5. CASE walk' = [Rest(e) EXCEPT !.dirs = @ \cup { Record(e, "dir") }, !.complete = FALSE]
           /\ Key(e.path) \notin Ignored /\ e.isdir
  BY <1>2, <1>5 DEF LookAt, Seen
<1>6. CASE /\ Key(e.path) \notin Ignored /\ e.isdir
           /\ walk' = [Rest(e) EXCEPT !.dirs = @ \cup { Record(e, "dir") },
                                      !.visited = @ \cup { stat.id },
                                      !.children = Append(@, e.path)]
  BY <1>2, <1>6 DEF LookAt, Enter
<1>7. CASE /\ Key(e.path) \notin Ignored /\ ~ e.isdir /\ e.isfile /\ stat # None
           /\ walk' = [Rest(e) EXCEPT !.files = @ \cup { Record(e, "file") }]
  BY <1>2, <1>7 DEF LookAt, Note
<1>8. CASE walk' = [Rest(e) EXCEPT !.complete = FALSE]
  BY <1>2, <1>8 DEF LookAt, Stop
<1>9. CASE walk' = [Rest(e) EXCEPT !.odd = @ \cup {e.path}, !.complete = FALSE]
  <2>1. Odd(e, FALSE)
    BY <1>9 DEF Odd
  <2> QED
    BY <1>2, <2>1 DEF LookAt
<1>10. CASE Noted(Rest(e), e, stat)
  BY <1>10, <1>3, <1>4, <1>5, <1>6, <1>7 DEF Noted, Record
<1> QED
  BY <1>1, <1>8, <1>9, <1>10

\* The walk afterwards, field by field.
Same(fields) == \A f \in fields : walk'[f] = walk[f]

LEMMA TodoType ==
  ASSUME WalkTypes(walk)
  PROVE  Todo \in Seq(Dir)
<1>1. walk.children \in Seq(Dir) /\ walk.pending \in Seq(Dir)
  BY DEF WalkTypes
<1> QED
  BY <1>1 DEF Todo

LEMMA ListFields ==
  ASSUME WalkTypes(walk), Sound(disk), NEW read, NEW whole, ListDir(read, whole)
  PROVE  /\ WalkTypes(walk') /\ Same({ "side", "files", "dirs", "odd" })
         /\ walk'.entries = Listing(disk[walk.side], read)
         /\ walk'.complete => walk.complete /\ whole
         /\ Todo' = Tail(Todo)
<1>1. Todo \in Seq(Dir) /\ Todo # <<>>
  BY TodoType DEF ListDir
<1>2. Tail(Todo) \in Seq(Dir)
  BY <1>1, TailMembers
<1>3. DOMAIN walk = Fields
  BY DEF WalkTypes
<1>4. /\ DOMAIN walk' = Fields /\ Same({ "side", "files", "dirs", "odd" })
      /\ walk'.pending = Tail(Todo) /\ walk'.children = <<>>
      /\ walk'.entries = Listing(disk[walk.side], read)
  BY <1>3 DEF ListDir, Same, Fields
<1>5. walk'.complete = (walk.complete /\ whole)
  BY <1>3 DEF ListDir, Fields
<1>6. \A e \in walk'.entries : e.path \in Path
  <2>1. \A p \in read : p \in DOMAIN disk[walk.side]
    BY DEF ListDir, Children
  <2>2. IsTree(disk[walk.side])
    BY DEF Sound, WalkTypes
  <2>3. \A p \in read : p \in Path
    BY <2>1, <2>2 DEF IsTree
  <2>4. \A e \in walk'.entries : \E p \in read : e = Entry(disk[walk.side], p)
    BY <1>4 DEF Listing
  <2> QED
    BY <2>3, <2>4 DEF Entry
<1>7. walk'.side \in Sides
  BY <1>4 DEF Same, WalkTypes
<1>8. Todo' = Tail(Todo)
  <2>1. Todo' = walk'.children \o walk'.pending
    BY DEF Todo
  <2>2. \A s \in Seq(Dir) : <<>> \o s = s
    OBVIOUS
  <2> QED
    BY <1>2, <1>4, <2>1, <2>2
<1>9. <<>> \in Seq(Dir)
  OBVIOUS
<1> QED
  BY <1>2, <1>4, <1>5, <1>6, <1>7, <1>8, <1>9 DEF WalkTypes

LEMMA RestFields ==
  ASSUME WalkTypes(walk), NEW e
  PROVE  /\ DOMAIN Rest(e) = Fields /\ Rest(e).entries = walk.entries \ {e}
         /\ \A f \in Fields \ { "entries" } : Rest(e)[f] = walk[f]
BY DEF WalkTypes, Rest, Fields

LEMMA LookFields ==
  ASSUME WalkTypes(walk), NEW e, LookAt(e)
  PROVE  /\ WalkTypes(walk') /\ Same({ "side", "pending" })
         /\ walk'.entries = walk.entries \ {e}
         /\ walk'.complete => walk.complete
         /\ \/ Key(e.path) \in Ignored /\ Same({ "files", "dirs", "odd", "children" })
            \/ ~ walk'.complete /\ Same({ "files", "dirs", "odd", "children" })
            \/ /\ walk'.odd = walk.odd \cup {e.path} /\ Same({ "files", "dirs", "children" })
               /\ walk'.complete => ~ e.isdir
            \/ /\ Key(e.path) \notin Ignored /\ e.isdir /\ ~ walk'.complete
               /\ walk'.dirs = walk.dirs \cup { Record(e, "dir") }
               /\ Same({ "files", "odd", "children" })
            \/ /\ Key(e.path) \notin Ignored /\ e.isdir
               /\ walk'.dirs = walk.dirs \cup { Record(e, "dir") }
               /\ walk'.children = Append(walk.children, e.path)
               /\ Same({ "files", "odd" })
            \/ /\ Key(e.path) \notin Ignored /\ ~ e.isdir /\ e.isfile
               /\ Stat(disk[walk.side], e.path) # None
               /\ walk'.files = walk.files \cup { Record(e, "file") }
               /\ Same({ "dirs", "odd", "children" })
<1>1. /\ DOMAIN Rest(e) = Fields /\ Rest(e).entries = walk.entries \ {e}
      /\ \A f \in Fields \ { "entries" } : Rest(e)[f] = walk[f]
  BY RestFields
<1>2. e \in walk.entries /\ e.path \in Path
  BY DEF LookAt, WalkTypes
<1>3. e.path \in Dir
  BY <1>2, PathType DEF Dir
<1>4. /\ walk.side \in Sides /\ walk.pending \in Seq(Dir) /\ walk.children \in Seq(Dir)
      /\ \A o \in walk.entries \ {e} : o.path \in Path
  BY DEF WalkTypes
<1>5. Append(walk.children, e.path) \in Seq(Dir)
  BY <1>3, <1>4
<1> DEFINE common ==
             /\ DOMAIN walk' = Fields /\ Same({ "side", "pending" })
             /\ walk'.entries = walk.entries \ {e}
           kept == walk'.children = walk.children
<1>6. common /\ (kept \/ walk'.children = Append(walk.children, e.path)) => WalkTypes(walk')
  BY <1>4, <1>5 DEF Same, WalkTypes
<1>7. CASE Skip(e)
  <2>1. common /\ Same({ "files", "dirs", "odd", "children" }) /\ walk'.complete = walk.complete
    BY <1>1, <1>7 DEF Skip, Same, Fields
  <2> QED
    BY <1>6, <1>7, <2>1 DEF Skip, Same
<1>8. CASE Stop(e)
  <2>1. common /\ Same({ "files", "dirs", "odd", "children" }) /\ walk'.complete = FALSE
    BY <1>1, <1>8 DEF Stop, Same, Fields
  <2> QED
    BY <1>6, <2>1 DEF Same
<1>9. ASSUME NEW whole, Odd(e, whole)
      PROVE  /\ common /\ Same({ "files", "dirs", "children" })
             /\ walk'.odd = walk.odd \cup {e.path}
             /\ walk'.complete => walk.complete /\ ~ e.isdir
  <2>1. walk' = [Rest(e) EXCEPT !.odd = @ \cup {e.path}, !.complete = whole]
    BY <1>9 DEF Odd
  <2>2. common /\ Same({ "files", "dirs", "children" }) /\ walk'.odd = walk.odd \cup {e.path}
    BY <1>1, <2>1 DEF Same, Fields
  <2>3. walk'.complete = whole
    BY <1>1, <2>1 DEF Fields
  <2>4. Rest(e).complete = walk.complete
    BY <1>1 DEF Fields
  <2> QED
    BY <1>9, <2>2, <2>3, <2>4 DEF Odd
<1>10. CASE Seen(e)
  <2>1. /\ common /\ Same({ "files", "odd", "children" }) /\ walk'.complete = FALSE
        /\ walk'.dirs = walk.dirs \cup { Record(e, "dir") }
    BY <1>1, <1>10 DEF Seen, Same, Fields
  <2> QED
    BY <1>6, <1>10, <2>1 DEF Seen, Same
<1>11. CASE Enter(e)
  <2>1. /\ common /\ Same({ "files", "odd" }) /\ walk'.complete = walk.complete
        /\ walk'.dirs = walk.dirs \cup { Record(e, "dir") }
        /\ walk'.children = Append(walk.children, e.path)
    BY <1>1, <1>11 DEF Enter, Same, Fields
  <2> QED
    BY <1>6, <1>11, <2>1 DEF Enter
<1>12. CASE Note(e)
  <2>1. /\ common /\ Same({ "dirs", "odd", "children" }) /\ walk'.complete = walk.complete
        /\ walk'.files = walk.files \cup { Record(e, "file") }
    BY <1>1, <1>12 DEF Note, Same, Fields
  <2> QED
    BY <1>6, <1>12, <2>1 DEF Note, Same
<1>13. CASE \E whole : Odd(e, whole)
  BY <1>6, <1>9, <1>13 DEF Same
<1> QED
  BY <1>7, <1>8, <1>10, <1>11, <1>12, <1>13 DEF LookAt

LEMMA StartFields ==
  ASSUME NEW side \in Sides, StartWalk(side)
  PROVE  /\ WalkTypes(walk') /\ walk'.side = side
         /\ walk'.files = {} /\ walk'.dirs = {} /\ walk'.odd = {} /\ walk'.entries = {}
         /\ Todo' = << <<>> >>
<1>1. /\ DOMAIN walk' = Fields
      /\ walk'.side = side /\ walk'.pending = << <<>> >> /\ walk'.children = <<>>
      /\ walk'.files = {} /\ walk'.dirs = {} /\ walk'.odd = {} /\ walk'.entries = {}
  BY DEF StartWalk, Fields
<1>2. <<>> \in Dir
  BY DEF Dir
<1>3. << <<>> >> \in Seq(Dir) /\ <<>> \in Seq(Dir)
  BY <1>2
<1>4. Todo' = <<>> \o << <<>> >>
  BY <1>1 DEF Todo
<1>5. <<>> \o << <<>> >> = << <<>> >>
  <2>1. \A s \in Seq(Dir) : <<>> \o s = s
    OBVIOUS
  <2> QED
    BY <1>3, <2>1
<1> QED
  BY <1>1, <1>3, <1>4, <1>5 DEF WalkTypes

\* The kinds of steps of a scan.
LEMMA ScanSteps ==
  ASSUME Scan
  PROVE  \/ \E side \in Sides : StartWalk(side)
         \/ \E side \in Sides, volume \in BOOLEAN : Offline(side, volume)
         \/ \E read, whole : ListDir(read, whole)
         \/ \E e : LookAt(e)
         \/ EndWalk
BY ListSteps, LookSteps DEF Scan

LEMMA ScanTypesHold ==
  /\ Init => ScanTypes
  /\ ScanTypes /\ [Next]_vars => ScanTypes'
<1>1. ASSUME Init PROVE ScanTypes
  <2>1. IsTree(world.source) /\ IsTree(world.target)
    BY <1>1, WorldsAssumption DEF Init
  <2>2. DOMAIN disk = Sides /\ disk["source"] = world.source /\ disk["target"] = world.target
    BY <1>1 DEF Init, Sides
  <2>3. Sound(disk)
    BY <2>1, <2>2 DEF Sound, Sides
  <2> QED
    BY <1>1, <2>3 DEF Init, ScanTypes
<1>2. ASSUME ScanTypes, [Next]_vars PROVE ScanTypes'
  <2>1. CASE Scan /\ phase = "scan" /\ phase' = "scan"
    <3>1. ASSUME NEW side \in Sides, StartWalk(side) PROVE ScanTypes'
      <4>1. WalkTypes(walk') /\ walk'.side = side
        BY <3>1, StartFields
      <4>2. reports[side] = None /\ UNCHANGED <<disk, reports>> /\ DOMAIN steady' = DOMAIN steady
        BY <3>1 DEF StartWalk, Due
      <4> QED
        BY <1>2, <2>1, <4>1, <4>2 DEF ScanTypes
    <3>2. ASSUME NEW side \in Sides, NEW volume \in BOOLEAN, Offline(side, volume)
          PROVE  ScanTypes'
      <4>1. /\ walk = None /\ UNCHANGED <<walk, disk, steady>>
            /\ DOMAIN reports' = DOMAIN reports
        BY <3>2 DEF Offline, Due
      <4> QED
        BY <1>2, <2>1, <4>1 DEF ScanTypes
    <3>3. ASSUME NEW read, NEW whole, ListDir(read, whole) PROVE ScanTypes'
      <4>1. walk # None /\ UNCHANGED <<disk, reports, steady>>
        BY <3>3 DEF ListDir
      <4>2. WalkTypes(walk') /\ walk'.side = walk.side
        BY <1>2, <2>1, <3>3, <4>1, ListFields DEF ScanTypes, Same
      <4> QED
        BY <1>2, <2>1, <4>1, <4>2 DEF ScanTypes
    <3>4. ASSUME NEW e, LookAt(e) PROVE ScanTypes'
      <4>1. walk # None /\ UNCHANGED <<disk, reports, steady>>
        BY <3>4 DEF LookAt
      <4>2. WalkTypes(walk') /\ walk'.side = walk.side
        BY <1>2, <3>4, <4>1, LookFields DEF ScanTypes, Same
      <4> QED
        BY <1>2, <2>1, <4>1, <4>2 DEF ScanTypes
    <3>5. CASE EndWalk
      <4>1. walk' = None /\ UNCHANGED <<disk, steady>> /\ DOMAIN reports' = DOMAIN reports
        BY <3>5 DEF EndWalk
      <4> QED
        BY <1>2, <2>1, <4>1 DEF ScanTypes
    <3> QED
      BY <2>1, <3>1, <3>2, <3>3, <3>4, <3>5, ScanSteps
  <2>2. CASE Drift /\ phase' = phase
    <3>1. UNCHANGED <<walk, reports>> /\ DOMAIN steady' = DOMAIN steady
      BY <2>2, DriftAlters DEF Alter
    <3>2. CASE phase = "scan"
      <4>1. Sound(disk)
        BY <1>2, <3>2 DEF ScanTypes
      <4>2. PICK side \in Sides, p \in Path : \E tree : Change(side, p, tree)
        BY <2>2, <4>1, DriftChanges
      <4>3. Sound(disk')
        BY <4>1, <4>2 DEF Change, Sound
      <4> QED
        BY <1>2, <2>2, <3>1, <4>3 DEF ScanTypes
    <3>3. CASE phase # "scan"
      BY <1>2, <2>2, <3>1, <3>3 DEF ScanTypes
    <3> QED
      BY <3>2, <3>3
  <2>3. CASE Afterwards
    <3>1. walk = None
      BY <1>2, <2>3 DEF Afterwards, ScanTypes, WalkTypes
    <3> QED
      BY <1>2, <2>3, <3>1 DEF Afterwards, ScanTypes
  <2>4. CASE UNCHANGED vars
    BY <1>2, <2>4 DEF vars, scanVars, ScanTypes, Sound
  <2> QED
    BY <1>2, <2>1, <2>2, <2>3, <2>4, StepKinds
<1> QED
  BY <1>1, <1>2

-----------------------------------------------------------------------------
(***************************************************************************)
(* A complete scan has reported what was left alone.  While it is under    *)
(* way, whatever has not been reported yet is in the listing, below an     *)
(* entry of it, or below a directory that is still to be listed.           *)
(***************************************************************************)
Awaited(p) ==
    \/ p \in Reported(walk)
    \/ \E q \in {p} \cup Ancestors(p) : \E e \in walk.entries : e.path = q
    \/ \E q \in { <<>> } \cup Ancestors(p) : Member(Todo, q)

Covered == walk.complete => \A p \in steady[walk.side] : Overlooked(p) \/ Awaited(p)

\* An entry of the listing is what the listing says.
Kindred(tree, e) ==
    /\ e.isdir <=> tree[e.path].kind \in { "dir", "junction" }
    /\ e.isfile <=> tree[e.path].kind = "file"

\* What was left alone is there, with the directories above it, as it was listed.
Settled ==
    /\ \A p \in steady[walk.side] :
          p \in DOMAIN disk[walk.side] /\ Ancestors(p) \subseteq steady[walk.side]
    /\ \A e \in walk.entries : e.path \in steady[walk.side] => Kindred(disk[walk.side], e)

Honest ==
    /\ ScanTypes
    /\ walk # None => Settled /\ Covered
    /\ ScanHonest

LEMMA Steadies ==
  ASSUME Sound(disk), walk # None, WalkTypes(walk), Settled, NEW p \in steady[walk.side]
  PROVE  /\ p \in Path
         /\ \A q \in {p} \cup Ancestors(p) :
               q \in DOMAIN disk[walk.side] /\ q \in steady[walk.side]
         /\ \A q \in Ancestors(p) : disk[walk.side][q].kind = "dir"
<1>1. p \in DOMAIN disk[walk.side] /\ Ancestors(p) \subseteq steady[walk.side]
  BY DEF Settled
<1>2. IsTree(disk[walk.side])
  BY DEF Sound, WalkTypes
<1>3. p \in Path /\ Placed(disk[walk.side], p)
  BY <1>1, <1>2 DEF IsTree
<1> QED
  BY <1>1, <1>3 DEF Placed

LEMMA StartCovers ==
  ASSUME Sound(disk), DOMAIN steady = Sides, NEW side \in Sides, StartWalk(side)
  PROVE  walk' # None => Settled' /\ Covered'
<1>1. /\ walk'.side = side /\ walk'.entries = {} /\ Todo' = << <<>> >>
  BY StartFields
<1>2. disk' = disk /\ steady'[side] = DOMAIN disk[side]
  BY DEF StartWalk
<1>3. IsTree(disk[side])
  BY DEF Sound
<1>4. \A p \in DOMAIN disk[side] : Ancestors(p) \subseteq DOMAIN disk[side]
  BY <1>3 DEF IsTree, Placed
<1>5. Settled'
  BY <1>1, <1>2, <1>4 DEF Settled
<1>6. Member(Todo', <<>>)
  BY <1>1 DEF Member
<1>7. \A p : Awaited(p)'
  BY <1>6 DEF Awaited
<1> QED
  BY <1>5, <1>7 DEF Covered

LEMMA ListCovers ==
  ASSUME Sound(disk), walk # None, WalkTypes(walk), Settled, Covered,
         NEW read, NEW whole, ListDir(read, whole)
  PROVE  Settled' /\ Covered'
<1> DEFINE tree == disk[walk.side]
<1>1. /\ Same({ "side", "files", "dirs", "odd" })
      /\ walk'.entries = Listing(tree, read)
      /\ walk'.complete => walk.complete /\ whole
      /\ Todo' = Tail(Todo)
  BY ListFields
<1>2. /\ UNCHANGED <<disk, steady>> /\ walk.entries = {}
      /\ whole => read = Children(tree, Head(Todo))
  BY DEF ListDir
<1>3. walk'.side = walk.side /\ Reported(walk') = Reported(walk)
  BY <1>1 DEF Same, Reported
<1>4. \A e \in walk'.entries : \E p \in read : e = Entry(tree, p)
  BY <1>1 DEF Listing
<1>5. ASSUME NEW e \in walk'.entries PROVE Kindred(tree, e)
  <2>1. PICK p \in read : e = Entry(tree, p)
    BY <1>4
  <2>2. /\ e.path = p /\ e.isdir = (tree[p].kind \in { "dir", "junction" })
        /\ e.isfile = (tree[p].kind = "file")
    BY <2>1 DEF Entry
  <2> QED
    BY <2>2 DEF Kindred
<1>6. Settled'
  BY <1>2, <1>3, <1>5 DEF Settled
<1>7. ASSUME NEW p \in steady[walk.side], walk'.complete, Awaited(p) PROVE Awaited(p)'
  <2>1. p \in Path /\ \A q \in {p} \cup Ancestors(p) : q \in DOMAIN tree
    BY Steadies
  <2>2. CASE p \in Reported(walk)
    BY <1>3, <2>2 DEF Awaited
  <2>3. CASE \E q \in { <<>> } \cup Ancestors(p) : Member(Todo, q)
    <3>1. PICK q \in { <<>> } \cup Ancestors(p) : Member(Todo, q)
      BY <2>3
    <3>2. Todo \in Seq(Dir) /\ Todo # <<>>
      BY TodoType DEF ListDir
    <3>3. q = Head(Todo) \/ Member(Tail(Todo), q)
      BY <3>1, <3>2, TailMembers
    <3>4. CASE Member(Tail(Todo), q)
      BY <1>1, <3>4 DEF Awaited
    <3>5. CASE q = Head(Todo)
      <4>1. PICK r \in Ancestors(p) \cup {p} : Parent(r) = q
        BY <2>1, StepDown
      <4>2. r \in read
        BY <1>1, <1>2, <1>7, <2>1, <3>5, <4>1 DEF Children
      <4>3. Entry(tree, r) \in walk'.entries /\ Entry(tree, r).path = r
        BY <1>1, <4>2 DEF Listing, Entry
      <4> QED
        BY <4>1, <4>3 DEF Awaited
    <3> QED
      BY <3>3, <3>4, <3>5
  <2> QED
    BY <1>2, <1>7, <2>2, <2>3 DEF Awaited
<1> QED
  BY <1>1, <1>2, <1>3, <1>6, <1>7 DEF Covered

\* An entry that is looked up has been reported, or will be entered, or nothing
\* of it counts.
LEMMA LookCovers ==
  ASSUME Sound(disk), walk # None, WalkTypes(walk), Settled, Covered, NEW e, LookAt(e)
  PROVE  Settled' /\ Covered'
<1> DEFINE tree == disk[walk.side]
<1>1. /\ UNCHANGED <<disk, steady>> /\ e \in walk.entries /\ e.path \in Path
  BY DEF LookAt, WalkTypes
<1>2. /\ walk'.side = walk.side /\ walk'.pending = walk.pending
      /\ walk'.entries = walk.entries \ {e}
      /\ walk'.complete => walk.complete
  BY LookFields DEF Same
<1>3. Settled'
  BY <1>1, <1>2 DEF Settled
<1> SUFFICES ASSUME walk'.complete PROVE Covered'
  BY <1>3 DEF Covered
\* What the look leaves.
<1> DEFINE kept == Reported(walk) \subseteq Reported(walk') /\ \A q : Member(Todo, q) => Member(Todo', q)
<1>4. \/ Key(e.path) \in Ignored /\ kept
      \/ kept /\ e.path \in Reported(walk') /\ (e.isdir => Member(Todo', e.path))
  <2>1. walk'.children = walk.children => Todo' = Todo
    BY <1>2 DEF Todo
  <2>2. ASSUME walk'.children = Append(walk.children, e.path)
        PROVE  \A q : Member(Todo, q) \/ q = e.path => Member(Todo', q)
    <3>1. e.path \in Dir
      BY <1>1, PathType DEF Dir
    <3>2. walk.children \in Seq(Dir) /\ walk.pending \in Seq(Dir)
      BY DEF WalkTypes
    <3>3. Todo' = Append(walk.children, e.path) \o walk.pending
      BY <1>2, <2>2 DEF Todo
    <3> QED
      BY <3>1, <3>2, <3>3, AppendMembers DEF Todo
  <2>3. Record(e, "dir").path = e.path /\ Record(e, "file").path = e.path
    BY DEF Record
  <2>4. CASE Key(e.path) \in Ignored /\ Same({ "files", "dirs", "odd", "children" })
    BY <2>1, <2>4 DEF Same, Reported
  <2>5. CASE /\ walk'.odd = walk.odd \cup {e.path} /\ Same({ "files", "dirs", "children" })
             /\ ~ e.isdir
    BY <2>1, <2>5 DEF Same, Reported
  <2>6. CASE /\ walk'.dirs = walk.dirs \cup { Record(e, "dir") }
             /\ walk'.children = Append(walk.children, e.path)
             /\ Same({ "files", "odd" })
    BY <2>2, <2>3, <2>6 DEF Same, Reported
  <2>7. CASE /\ walk'.files = walk.files \cup { Record(e, "file") } /\ ~ e.isdir
             /\ Same({ "dirs", "odd", "children" })
    BY <2>1, <2>3, <2>7 DEF Same, Reported
  <2> QED
    BY <2>4, <2>5, <2>6, <2>7, LookFields
<1>5. kept
  BY <1>4
<1> HIDE DEF kept
<1>6. ASSUME NEW p \in steady[walk.side], Awaited(p) PROVE Overlooked(p) \/ Awaited(p)'
  <2>1. /\ p \in Path
        /\ \A q \in Ancestors(p) : q \in steady[walk.side] /\ tree[q].kind = "dir"
    BY Steadies
  <2>2. CASE p \in Reported(walk)
    BY <1>5, <2>2 DEF Awaited, kept
  <2>3. CASE \E q \in { <<>> } \cup Ancestors(p) : Member(Todo, q)
    BY <1>5, <2>3 DEF Awaited, kept
  <2>4. ASSUME NEW q \in {p} \cup Ancestors(p), NEW o \in walk.entries, o.path = q, o # e
        PROVE  Awaited(p)'
    BY <1>2, <2>4 DEF Awaited
  <2>5. ASSUME e.path \in {p} \cup Ancestors(p) PROVE Overlooked(p) \/ Awaited(p)'
    <3>1. CASE Key(e.path) \in Ignored
      BY <2>5, <3>1 DEF Overlooked
    <3>2. CASE e.path \in Reported(walk') /\ e.path = p
      BY <3>2 DEF Awaited
    <3>3. CASE e.path \in Ancestors(p) /\ (e.isdir => Member(Todo', e.path))
      <4>1. Kindred(tree, e) /\ tree[e.path].kind = "dir"
        BY <1>1, <2>1, <3>3 DEF Settled
      <4>2. e.isdir
        BY <4>1 DEF Kindred
      <4> QED
        BY <3>3, <4>2 DEF Awaited
    <3> QED
      BY <1>4, <2>5, <3>1, <3>2, <3>3
  <2> QED
    BY <1>6, <2>2, <2>3, <2>4, <2>5 DEF Awaited
<1> QED
  BY <1>1, <1>2, <1>6 DEF Covered

\* At the end nothing is awaited any more.
LEMMA EndIsHonest ==
  ASSUME ScanTypes, walk # None, Covered, ScanHonest, EndWalk
  PROVE  ScanHonest'
<1> DEFINE side == walk.side
<1>1. /\ walk.entries = {} /\ Todo = <<>> /\ steady' = steady
      /\ reports' = [reports EXCEPT ![side] =
                      Report([walk EXCEPT !.complete = @ /\ ~ Collides(walk)])]
  BY DEF EndWalk
<1>2. DOMAIN reports = Sides /\ side \in Sides /\ DOMAIN walk = Fields
  BY DEF ScanTypes, WalkTypes
<1>3. /\ reports'[side].complete => walk.complete
      /\ Reported(reports'[side]) = Reported(walk)
  BY <1>1, <1>2 DEF Report, Reported, Fields
<1>4. \A q : ~ Member(<<>>, q)
  BY DEF Member
<1>5. \A p : Awaited(p) => p \in Reported(walk)
  BY <1>1, <1>4 DEF Awaited
<1>6. \A s \in Sides \ {side} : reports'[s] = reports[s]
  BY <1>1, <1>2
<1>7. walk.complete => \A p \in steady[side] : Overlooked(p) \/ p \in Reported(walk)
  BY <1>5 DEF Covered
<1> QED
  BY <1>1, <1>3, <1>6, <1>7 DEF ScanHonest

\* Another program makes something less steady, and changes nothing that is.
LEMMA ChangeCovers ==
  ASSUME Sound(disk), DOMAIN steady = Sides, walk # None, WalkTypes(walk), Settled, Covered,
         NEW side \in Sides, NEW p \in Path, NEW tree, Change(side, p, tree)
  PROVE  Settled' /\ Covered'
<1>1. UNCHANGED <<walk, reports>> /\ disk' = [disk EXCEPT ![side] = tree] /\ DOMAIN disk = Sides
  BY DEF Change, Sound
<1>2. walk.side \in Sides /\ \A e \in walk.entries : e.path \in Path
  BY DEF WalkTypes
<1>3. CASE walk.side # side
  <2>1. disk'[walk.side] = disk[walk.side] /\ steady' = steady
    BY <1>1, <1>2, <1>3 DEF Change
  <2>2. Settled'
    BY <1>1, <2>1 DEF Settled
  <2>3. \A q : Awaited(q)' <=> Awaited(q)
    BY <1>1 DEF Awaited, Todo
  <2> QED
    BY <1>1, <2>1, <2>2, <2>3 DEF Covered
<1>4. CASE walk.side = side
  <2>1. disk'[side] = tree /\ steady'[side] = { q \in steady[side] : ~ Inside(q, p) }
    BY <1>1, <1>2, <1>4 DEF Change
  <2>2. \A q \in DOMAIN disk[side] :
          ~ Inside(q, p) => q \in DOMAIN tree /\ tree[q].kind = disk[side][q].kind
    BY DEF Change
  <2>3. ASSUME NEW q \in steady'[side]
        PROVE  q \in DOMAIN tree /\ Ancestors(q) \subseteq steady'[side]
    <3>1. q \in steady[side] /\ ~ Inside(q, p) /\ q \in Path
      BY <1>4, <2>1, Steadies
    <3>2. q \in DOMAIN disk[side] /\ Ancestors(q) \subseteq steady[side]
      BY <1>4, <3>1 DEF Settled
    <3>3. \A r \in Ancestors(q) : ~ Inside(r, p)
      BY <3>1, InsideUp
    <3> QED
      BY <2>1, <2>2, <3>1, <3>2, <3>3
  <2>4. ASSUME NEW e \in walk.entries, e.path \in steady'[side] PROVE Kindred(tree, e)
    <3>1. e.path \in steady[side] /\ ~ Inside(e.path, p)
      BY <2>1, <2>4
    <3>2. Kindred(disk[side], e) /\ tree[e.path].kind = disk[side][e.path].kind
      BY <1>4, <2>2, <2>4, <3>1 DEF Settled
    <3> QED
      BY <3>2 DEF Kindred
  <2>5. Settled'
    BY <1>1, <1>4, <2>1, <2>3, <2>4 DEF Settled
  <2>6. \A q : Awaited(q)' <=> Awaited(q)
    BY <1>1 DEF Awaited, Todo
  <2> QED
    BY <1>1, <1>4, <2>1, <2>5, <2>6 DEF Covered
<1> QED
  BY <1>3, <1>4

LEMMA ScanHonestInductive == Honest /\ [Next]_vars => Honest'
<1> SUFFICES ASSUME Honest, [Next]_vars PROVE Honest'
  OBVIOUS
<1>1. ScanTypes' /\ ScanTypes
  BY ScanTypesHold DEF Honest
<1> DEFINE goal == (walk' # None => Settled' /\ Covered') /\ ScanHonest'
<1> SUFFICES goal
  BY <1>1 DEF Honest
<1>2. CASE Scan /\ phase = "scan"
  <2>1. Sound(disk) /\ DOMAIN steady = Sides /\ DOMAIN reports = Sides
    BY <1>1, <1>2 DEF ScanTypes
  <2>2. ASSUME NEW side \in Sides, StartWalk(side) PROVE goal
    <3>1. /\ reports[side] = None /\ reports' = reports
          /\ steady' = [steady EXCEPT ![side] = DOMAIN disk[side]]
      BY <2>2 DEF StartWalk, Due
    <3>2. ScanHonest'
      BY <2>1, <3>1 DEF Honest, ScanHonest
    <3> QED
      BY <2>1, <2>2, <3>2, StartCovers
  <2>3. ASSUME NEW side \in Sides, NEW volume \in BOOLEAN, Offline(side, volume) PROVE goal
    <3>1. /\ walk = None /\ UNCHANGED <<walk, steady>>
          /\ reports' = [reports EXCEPT ![side] = Nothing(volume)]
      BY <2>3 DEF Offline, Due
    <3>2. ~ Nothing(volume).complete
      BY DEF Nothing
    <3>3. \A s \in Sides : reports'[s].complete /\ reports'[s] # None => reports'[s] = reports[s]
      BY <2>1, <3>1, <3>2
    <3> QED
      BY <3>1, <3>3 DEF Honest, ScanHonest
  <2>4. ASSUME NEW read, NEW whole, ListDir(read, whole) PROVE goal
    <3>1. walk # None /\ UNCHANGED <<reports, steady>>
      BY <2>4 DEF ListDir
    <3>2. Settled' /\ Covered'
      BY <1>1, <2>1, <2>4, <3>1, ListCovers DEF Honest, ScanTypes
    <3> QED
      BY <3>1, <3>2 DEF Honest, ScanHonest
  <2>5. ASSUME NEW e, LookAt(e) PROVE goal
    <3>1. walk # None /\ UNCHANGED <<reports, steady>>
      BY <2>5 DEF LookAt
    <3>2. Settled' /\ Covered'
      BY <1>1, <2>1, <2>5, <3>1, LookCovers DEF Honest, ScanTypes
    <3> QED
      BY <3>1, <3>2 DEF Honest, ScanHonest
  <2>6. CASE EndWalk
    <3>1. walk # None /\ walk' = None
      BY <2>6 DEF EndWalk
    <3>2. ScanHonest'
      BY <1>1, <2>6, <3>1, EndIsHonest DEF Honest
    <3> QED
      BY <3>1, <3>2
  <2> QED
    BY <1>2, <2>2, <2>3, <2>4, <2>5, <2>6, ScanSteps
<1>3. CASE Drift /\ phase = "scan"
  <2>1. Sound(disk) /\ DOMAIN steady = Sides
    BY <1>1, <1>3 DEF ScanTypes
  <2>2. PICK side \in Sides, p \in Path : \E tree : Change(side, p, tree)
    BY <1>3, <2>1, DriftChanges
  <2>3. PICK tree : Change(side, p, tree)
    BY <2>2
  <2>4. UNCHANGED <<walk, reports>>
    BY <2>3 DEF Change
  <2>5. CASE walk = None
    BY <2>3, <2>4, <2>5 DEF Change, Honest, ScanHonest
  <2>6. CASE walk # None
    <3>1. Settled' /\ Covered'
      BY <1>1, <2>1, <2>3, <2>6, ChangeCovers DEF Honest, ScanTypes
    <3>2. walk.side \in Sides /\ reports[walk.side] = None
      BY <1>1, <2>6 DEF ScanTypes, WalkTypes
    <3>3. \A s \in Sides : reports[s] # None => steady'[s] = steady[s]
      BY <2>1, <2>3, <3>2 DEF Change
    <3>4. ScanHonest'
      BY <2>4, <3>3 DEF Honest, ScanHonest
    <3> QED
      BY <3>1, <3>4
  <2> QED
    BY <2>5, <2>6
<1>4. CASE Drift /\ phase # "scan"
  <2>1. walk = None
    BY <1>1, <1>4 DEF ScanTypes
  <2>2. UNCHANGED <<walk, reports, steady>>
    BY <1>4, <2>1, DriftAlters DEF Alter
  <2> QED
    BY <2>1, <2>2 DEF Honest, ScanHonest
<1>5. CASE Afterwards
  <2>1. walk' = None
    BY <1>1, <1>5 DEF Afterwards, ScanTypes
  <2> QED
    BY <1>5, <2>1 DEF Afterwards, Honest, ScanHonest
<1>6. CASE UNCHANGED vars
  <2>1. UNCHANGED <<disk, walk, reports, steady>>
    BY <1>6 DEF vars, scanVars
  <2>2. \A p : Awaited(p)' <=> Awaited(p)
    BY <2>1 DEF Awaited, Todo
  <2> QED
    BY <2>1, <2>2 DEF Honest, ScanHonest, Settled, Covered
<1> QED
  BY <1>2, <1>3, <1>4, <1>5, <1>6, StepKinds

(***************************************************************************)
(* A scan that calls itself complete reported every entry that was there   *)
(* from its beginning to its end, under any ignores, any faults and any    *)
(* number of changes by other programs (modules/scanner.py, _scan_root).   *)
(***************************************************************************)
THEOREM ScansAreHonest == Spec => []ScanHonest
<1>1. Init => Honest
  <2>1. Init => ScanTypes
    BY ScanTypesHold
  <2>2. Init => walk = None /\ ScanHonest
    BY DEF Init, ScanHonest
  <2> QED
    BY <2>1, <2>2 DEF Honest
<1>2. Honest /\ [Next]_vars => Honest'
  BY ScanHonestInductive
<1>3. Honest => ScanHonest
  BY DEF Honest
<1> QED
  BY <1>1, <1>2, <1>3, PTL DEF Spec

-----------------------------------------------------------------------------
(***************************************************************************)
(* No path is reported twice: each directory is entered once and listed    *)
(* once, whatever becomes of the tree in the meantime.                     *)
(***************************************************************************)
PathsOf(records) == { r.path : r \in records }

Entered == PathsOf(walk.dirs) \cup { <<>> }

\* A path that is listed or reported lies in a directory that is done with.
Filed(p) == p \in Path /\ Parent(p) \in Entered /\ ~ Member(Todo, Parent(p))

\* Every path has one record, of one sort.
Single(r) ==
    /\ PathsOf(r.files) \cap PathsOf(r.dirs) = {}
    /\ r.odd \cap (PathsOf(r.files) \cup PathsOf(r.dirs)) = {}
    /\ \A a, b \in r.files \cup r.dirs : a.path = b.path => a = b

Once ==
    /\ Distinct(Todo) /\ \A q : Member(Todo, q) => q \in Entered
    /\ \A p \in Reported(walk) : Filed(p)
    /\ \A e \in walk.entries : Filed(e.path) /\ e.path \notin Reported(walk)
    /\ \A e, o \in walk.entries : e.path = o.path => e = o
    /\ Single(walk)
    /\ \A p \in PathsOf(walk.files) \cup PathsOf(walk.dirs) : ~ Overlooked(p)

LEMMA ReportedPaths ==
  \A r : Reported(r) = PathsOf(r.files) \cup PathsOf(r.dirs) \cup r.odd
BY DEF Reported, PathsOf

LEMMA SingleGrows ==
  ASSUME NEW r, Single(r), NEW p, p \notin Reported(r), NEW s, NEW a, a.path = p,
         \/ s.odd = r.odd \cup {p} /\ s.files = r.files /\ s.dirs = r.dirs
         \/ s.odd = r.odd /\ s.files = r.files \cup {a} /\ s.dirs = r.dirs
         \/ s.odd = r.odd /\ s.files = r.files /\ s.dirs = r.dirs \cup {a}
  PROVE  Single(s)
<1>1. p \notin PathsOf(r.files) /\ p \notin PathsOf(r.dirs) /\ p \notin r.odd
  BY ReportedPaths
<1>2. \A b \in r.files \cup r.dirs : b.path # p
  BY <1>1 DEF PathsOf
<1>3. PathsOf(r.files \cup {a}) = PathsOf(r.files) \cup {p}
      /\ PathsOf(r.dirs \cup {a}) = PathsOf(r.dirs) \cup {p}
  BY DEF PathsOf
<1>4. \A b, c \in s.files \cup s.dirs : b.path = c.path => b = c
  BY <1>2 DEF Single
<1>5. PathsOf(r.files) \cap PathsOf(r.dirs) = {} /\ r.odd \cap (PathsOf(r.files) \cup PathsOf(r.dirs)) = {}
  BY DEF Single
<1> DEFINE files == PathsOf(s.files)
           dirs == PathsOf(s.dirs)
<1>6. files \cap dirs = {} /\ s.odd \cap (files \cup dirs) = {}
  <2>1. CASE s.odd = r.odd \cup {p} /\ s.files = r.files /\ s.dirs = r.dirs
    BY <1>1, <1>5, <2>1
  <2>2. CASE s.odd = r.odd /\ s.files = r.files \cup {a} /\ s.dirs = r.dirs
    <3>1. files = PathsOf(r.files) \cup {p} /\ dirs = PathsOf(r.dirs)
      BY <1>3, <2>2
    <3> HIDE DEF files, dirs
    <3> QED
      BY <1>1, <1>5, <2>2, <3>1
  <2>3. CASE s.odd = r.odd /\ s.files = r.files /\ s.dirs = r.dirs \cup {a}
    <3>1. files = PathsOf(r.files) /\ dirs = PathsOf(r.dirs) \cup {p}
      BY <1>3, <2>3
    <3> HIDE DEF files, dirs
    <3> QED
      BY <1>1, <1>5, <2>3, <3>1
  <2> QED
    BY <2>1, <2>2, <2>3
<1> QED
  BY <1>4, <1>6 DEF Single

LEMMA StartOnce ==
  ASSUME NEW side \in Sides, StartWalk(side)
  PROVE  Once'
<1>1. /\ walk'.files = {} /\ walk'.dirs = {} /\ walk'.odd = {} /\ walk'.entries = {}
      /\ Todo' = << <<>> >>
  BY StartFields
<1>2. Distinct(Todo') /\ \A q : Member(Todo', q) => q = <<>>
  BY <1>1 DEF Distinct, Member
<1>3. Reported(walk') = {} /\ PathsOf(walk'.files) = {} /\ PathsOf(walk'.dirs) = {}
  BY <1>1 DEF Reported, PathsOf
<1> QED
  BY <1>1, <1>2, <1>3 DEF Once, Entered, Single

LEMMA ListOnce ==
  ASSUME Sound(disk), WalkTypes(walk), Once, NEW read, NEW whole, ListDir(read, whole)
  PROVE  Once'
<1> DEFINE tree == disk[walk.side]
           dir == Head(Todo)
<1>1. /\ Same({ "side", "files", "dirs", "odd" })
      /\ walk'.entries = Listing(tree, read) /\ Todo' = Tail(Todo)
  BY ListFields
<1>2. /\ Reported(walk') = Reported(walk) /\ Entered' = Entered
      /\ walk'.files = walk.files /\ walk'.dirs = walk.dirs
  BY <1>1 DEF Same, Reported, Entered
<1>3. /\ Member(Todo, dir) /\ \A q : Member(Todo, q) <=> q = dir \/ Member(Tail(Todo), q)
      /\ Distinct(Tail(Todo)) /\ ~ Member(Tail(Todo), dir)
  <2>1. Todo \in Seq(Dir) /\ Todo # <<>>
    BY TodoType DEF ListDir
  <2> QED
    BY <2>1, TailMembers DEF Once
<1>4. ASSUME NEW p \in read PROVE Filed(p)' /\ p \notin Reported(walk)
  <2>1. p \in DOMAIN tree /\ Parent(p) = dir
    BY <1>4 DEF ListDir, Children
  <2>2. p \in Path
    BY <2>1 DEF Sound, WalkTypes, IsTree
  <2>3. dir \in Entered
    BY <1>3 DEF Once
  <2>4. p \notin Reported(walk)
    BY <1>3, <2>1 DEF Once, Filed
  <2> QED
    BY <1>1, <1>2, <1>3, <2>1, <2>2, <2>3, <2>4 DEF Filed
<1>5. \A e \in walk'.entries : \E p \in read : e = Entry(tree, p) /\ e.path = p
  BY <1>1 DEF Listing, Entry
<1>6. (\A p \in Reported(walk) : Filed(p)') /\ Single(walk')
  BY <1>1, <1>2, <1>3 DEF Once, Filed, Single, Same
<1>7. /\ \A e \in walk'.entries : Filed(e.path)' /\ e.path \notin Reported(walk)
      /\ \A e, o \in walk'.entries : e.path = o.path => e = o
  BY <1>4, <1>5
<1>8. Distinct(Todo') /\ \A q : Member(Todo', q) => q \in Entered
  BY <1>1, <1>3 DEF Once
<1> QED
  BY <1>2, <1>6, <1>7, <1>8 DEF Once

\* What a look at an entry does to the reports.
LEMMA LookOnce ==
  ASSUME WalkTypes(walk), Once, NEW e, LookAt(e)
  PROVE  Once'
<1>1. /\ e \in walk.entries /\ e.path \in Path
      /\ Filed(e.path) /\ e.path \notin Reported(walk)
  BY DEF LookAt, WalkTypes, Once
<1>2. walk'.pending = walk.pending /\ walk'.entries = walk.entries \ {e}
  BY LookFields DEF Same
<1>3. \A o \in walk'.entries : o \in walk.entries /\ o.path # e.path
  BY <1>1, <1>2 DEF Once
<1>4. e.path # <<>> /\ e.path \notin Entered
  <2>1. e.path # <<>>
    BY <1>1, PathType
  <2>2. e.path \notin PathsOf(walk.dirs)
    BY <1>1 DEF Reported, PathsOf
  <2> QED
    BY <2>1, <2>2 DEF Entered
<1>5. Key(e.path) \notin Ignored => ~ Overlooked(e.path)
  <2> SUFFICES ASSUME Key(e.path) \notin Ignored, Overlooked(e.path) PROVE FALSE
    OBVIOUS
  <2>1. Parent(e.path) \in Path /\ Overlooked(Parent(e.path))
    BY <1>1, OverlookedByParent
  <2>2. Parent(e.path) # <<>> /\ Parent(e.path) \in Entered
    BY <1>1, <2>1, PathType DEF Filed
  <2>3. Parent(e.path) \in PathsOf(walk.dirs)
    BY <2>2 DEF Entered
  <2> QED
    BY <2>1, <2>3 DEF Once
<1>6. \A kind : PathsOf({ Record(e, kind) }) = { e.path }
  BY DEF Record, PathsOf
<1>7. walk'.children = walk.children => Todo' = Todo
  BY <1>2 DEF Todo
<1>8. Single(walk')
  <2>1. Record(e, "dir").path = e.path /\ Record(e, "file").path = e.path /\ Single(walk)
    BY DEF Record, Once
  <2>2. CASE Same({ "files", "dirs", "odd" })
    BY <2>1, <2>2 DEF Same, Single
  <2>3. CASE walk'.odd = walk.odd \cup {e.path} /\ Same({ "files", "dirs" })
    BY <1>1, <2>1, <2>3, SingleGrows DEF Same
  <2>4. CASE walk'.dirs = walk.dirs \cup { Record(e, "dir") } /\ Same({ "files", "odd" })
    BY <1>1, <2>1, <2>4, SingleGrows DEF Same
  <2>5. CASE walk'.files = walk.files \cup { Record(e, "file") } /\ Same({ "dirs", "odd" })
    BY <1>1, <2>1, <2>5, SingleGrows DEF Same
  <2>6. /\ Same({ "files", "dirs", "odd", "children" }) => Same({ "files", "dirs", "odd" })
        /\ Same({ "files", "dirs", "children" }) => Same({ "files", "dirs" })
        /\ Same({ "files", "odd", "children" }) => Same({ "files", "odd" })
        /\ Same({ "dirs", "odd", "children" }) => Same({ "dirs", "odd" })
    BY DEF Same
  <2> QED
    BY <2>2, <2>3, <2>4, <2>5, <2>6, LookFields
<1>9. CASE Same({ "files", "dirs", "odd", "children" })
  <2>1. /\ walk'.files = walk.files /\ walk'.dirs = walk.dirs /\ Todo' = Todo
        /\ Reported(walk') = Reported(walk) /\ Entered' = Entered /\ walk'.odd = walk.odd
    BY <1>7, <1>9 DEF Same, Reported, Entered
  <2>2. \A p : Filed(p)' <=> Filed(p)
    BY <2>1 DEF Filed
  <2> QED
    BY <1>3, <2>1, <2>2 DEF Once, Single
<1>10. CASE walk'.odd = walk.odd \cup {e.path} /\ Same({ "files", "dirs", "children" })
  <2>1. /\ walk'.files = walk.files /\ walk'.dirs = walk.dirs /\ Todo' = Todo
        /\ Reported(walk') = Reported(walk) \cup {e.path} /\ Entered' = Entered
    BY <1>7, <1>10 DEF Same, Reported, Entered
  <2>2. \A p : Filed(p)' <=> Filed(p)
    BY <2>1 DEF Filed
  <2>3. /\ \A p \in Reported(walk') : Filed(p)'
        /\ \A o \in walk'.entries : Filed(o.path)' /\ o.path \notin Reported(walk')
        /\ \A a, o \in walk'.entries : a.path = o.path => a = o
    BY <1>1, <1>3, <2>1, <2>2 DEF Once
  <2>4. Distinct(Todo') /\ \A q : Member(Todo', q) => q \in Entered'
    BY <2>1 DEF Once
  <2>5. \A p \in PathsOf(walk'.files) \cup PathsOf(walk'.dirs) : ~ Overlooked(p)
    BY <2>1 DEF Once
  <2> QED
    BY <1>8, <2>3, <2>4, <2>5 DEF Once
<1>11. CASE /\ Key(e.path) \notin Ignored
            /\ walk'.dirs = walk.dirs \cup { Record(e, "dir") }
            /\ Same({ "files", "odd" })
            /\ walk'.children = walk.children \/ walk'.children = Append(walk.children, e.path)
  <2>1. PathsOf(walk'.dirs) = PathsOf(walk.dirs) \cup {e.path} /\ walk'.files = walk.files
    BY <1>11, <1>6 DEF PathsOf, Same
  <2>2. Reported(walk') = Reported(walk) \cup {e.path} /\ Entered' = Entered \cup {e.path}
    BY <1>11, <2>1, ReportedPaths DEF Same, Entered
  <2>3. /\ Distinct(Todo')
        /\ \A q : Member(Todo', q) => q = e.path \/ Member(Todo, q)
    <3>1. CASE walk'.children = walk.children
      BY <1>7, <3>1 DEF Once
    <3>2. CASE walk'.children = Append(walk.children, e.path)
      <4>1. e.path \in Dir
        BY <1>1, PathType DEF Dir
      <4>2. walk.children \in Seq(Dir) /\ walk.pending \in Seq(Dir)
        BY DEF WalkTypes
      <4>3. Todo' = Append(walk.children, e.path) \o walk.pending
        BY <1>2, <3>2 DEF Todo
      <4>4. Distinct(Todo) /\ ~ Member(Todo, e.path)
        BY <1>4 DEF Once
      <4> QED
        BY <4>1, <4>2, <4>3, <4>4, AppendMembers DEF Todo
    <3> QED
      BY <1>11, <3>1, <3>2
  <2>4. ASSUME NEW p, Filed(p) PROVE Filed(p)'
    BY <1>4, <2>2, <2>3, <2>4 DEF Filed
  <2>5. Filed(e.path)' /\ (\A p \in Reported(walk) : Filed(p)') /\ \A o \in walk.entries : Filed(o.path)'
    BY <1>1, <2>4 DEF Once
  <2>6. \A o \in walk'.entries : Filed(o.path)' /\ o.path \notin Reported(walk')
    BY <1>3, <2>2, <2>5 DEF Once
  <2>7. \A q : Member(Todo', q) => q \in Entered'
    BY <2>2, <2>3 DEF Once
  <2>8. \A p \in PathsOf(walk'.files) \cup PathsOf(walk'.dirs) : ~ Overlooked(p)
    BY <1>5, <1>11, <2>1 DEF Once
  <2>9. \A a, o \in walk'.entries : a.path = o.path => a = o
    BY <1>3 DEF Once
  <2> QED
    BY <1>8, <2>2, <2>3, <2>5, <2>6, <2>7, <2>8, <2>9 DEF Once
<1>12. CASE /\ Key(e.path) \notin Ignored
            /\ walk'.files = walk.files \cup { Record(e, "file") }
            /\ Same({ "dirs", "odd", "children" })
  <2>1. PathsOf(walk'.files) = PathsOf(walk.files) \cup {e.path} /\ walk'.dirs = walk.dirs
    BY <1>12, <1>6 DEF PathsOf, Same
  <2>2. Reported(walk') = Reported(walk) \cup {e.path} /\ Entered' = Entered /\ Todo' = Todo
    BY <1>7, <1>12, <2>1 DEF Reported, PathsOf, Same, Entered
  <2>3. \A p : Filed(p)' <=> Filed(p)
    BY <2>2 DEF Filed
  <2>4. \A p \in PathsOf(walk'.files) \cup PathsOf(walk'.dirs) : ~ Overlooked(p)
    BY <1>5, <1>12, <2>1 DEF Once
  <2>5. /\ \A p \in Reported(walk') : Filed(p)'
        /\ \A o \in walk'.entries : Filed(o.path)' /\ o.path \notin Reported(walk')
        /\ \A a, o \in walk'.entries : a.path = o.path => a = o
    BY <1>1, <1>3, <2>2, <2>3 DEF Once
  <2>6. Distinct(Todo') /\ \A q : Member(Todo', q) => q \in Entered'
    BY <2>2 DEF Once
  <2> QED
    BY <1>8, <2>4, <2>5, <2>6 DEF Once
<1> QED
  <2>1. \/ Same({ "files", "dirs", "odd", "children" })
        \/ walk'.odd = walk.odd \cup {e.path} /\ Same({ "files", "dirs", "children" })
        \/ /\ Key(e.path) \notin Ignored
           /\ walk'.dirs = walk.dirs \cup { Record(e, "dir") }
           /\ Same({ "files", "odd" })
           /\ walk'.children = walk.children \/ walk'.children = Append(walk.children, e.path)
        \/ /\ Key(e.path) \notin Ignored
           /\ walk'.files = walk.files \cup { Record(e, "file") }
           /\ Same({ "dirs", "odd", "children" })
    <3>1. /\ Same({ "files", "odd", "children" }) => walk'.children = walk.children
                                                    /\ Same({ "files", "odd" })
      BY DEF Same
    <3> QED
      BY <3>1, LookFields
  <2> QED
    BY <1>9, <1>10, <1>11, <1>12, <2>1

\* What a finished scan has found.
Sorted(r) ==
    /\ Single(r) /\ \A p \in Reported(r) : p \in Path
    /\ \A p \in PathsOf(r.files) \cup PathsOf(r.dirs) : ~ Overlooked(p)
    /\ r.complete => \A p \in PathsOf(r.files), q \in PathsOf(r.dirs) : Key(p) # Key(q)

Reliable ==
    /\ walk # None => Once
    /\ \A side \in Sides : reports[side] # None => Sorted(reports[side])
    /\ phase # "scan" => \A side \in Sides : reports[side] # None
    /\ \A side \in Sides : steady[side] \subseteq Path

\* Complete, it has found no key twice.
LEMMA EndSorts ==
  ASSUME ScanTypes, walk # None, Once, EndWalk
  PROVE  Sorted(reports'[walk.side])
<1> DEFINE r == Report([walk EXCEPT !.complete = @ /\ ~ Collides(walk)])
<1>1. reports'[walk.side] = r
  BY DEF EndWalk, ScanTypes, WalkTypes
<1>2. DOMAIN walk = Fields
  BY DEF ScanTypes, WalkTypes
<1>3. /\ r.files = walk.files /\ r.dirs = walk.dirs /\ r.odd = walk.odd
      /\ r.complete => ~ Collides(walk)
  BY <1>2 DEF Report, Fields
<1> HIDE DEF r
<1>4. Reported(r) = Reported(walk) /\ (Single(walk) => Single(r))
  BY <1>3 DEF Reported, Single
<1>5. ASSUME r.complete, NEW p \in PathsOf(walk.files), NEW q \in PathsOf(walk.dirs)
      PROVE  Key(p) # Key(q)
  <2>1. p # q
    BY <1>5 DEF Once, Single
  <2>2. \A a, b \in { f.path : f \in walk.files \cup walk.dirs } \cup walk.odd :
            a # b => Key(a) # Key(b)
    BY <1>3, <1>5 DEF Collides
  <2> QED
    BY <2>1, <2>2 DEF PathsOf
<1> QED
  BY <1>1, <1>3, <1>4, <1>5 DEF Sorted, Once, Filed

LEMMA ReliableInductive == ScanTypes /\ Reliable /\ [Next]_vars => Reliable'
<1> SUFFICES ASSUME ScanTypes, Reliable, [Next]_vars PROVE Reliable'
  OBVIOUS
<1>1. CASE Scan /\ phase = "scan" /\ phase' = "scan"
  <2>1. Sound(disk) /\ DOMAIN reports = Sides /\ DOMAIN steady = Sides
    BY <1>1 DEF ScanTypes
  <2>2. ASSUME NEW side \in Sides, StartWalk(side) PROVE Reliable'
    <3>1. Once' /\ UNCHANGED reports /\ steady' = [steady EXCEPT ![side] = DOMAIN disk[side]]
      BY <2>2, StartOnce DEF StartWalk
    <3>2. DOMAIN disk[side] \subseteq Path
      BY <2>1 DEF Sound, IsTree
    <3>3. \A s \in Sides : steady'[s] \subseteq Path
      BY <2>1, <3>1, <3>2 DEF Reliable
    <3> QED
      BY <1>1, <3>1, <3>3 DEF Reliable
  <2>3. ASSUME NEW side \in Sides, NEW volume \in BOOLEAN, Offline(side, volume) PROVE Reliable'
    <3>1. walk' = None /\ UNCHANGED steady /\ reports' = [reports EXCEPT ![side] = Nothing(volume)]
      BY <2>3 DEF Offline, Due
    <3>2. Sorted(Nothing(volume))
      BY ReportedPaths DEF Sorted, Single, Nothing, PathsOf
    <3> QED
      BY <1>1, <2>1, <3>1, <3>2 DEF Reliable
  <2>4. ASSUME NEW read, NEW whole, ListDir(read, whole) PROVE Reliable'
    <3>1. walk # None /\ UNCHANGED <<reports, steady>>
      BY <2>4 DEF ListDir
    <3>2. Once'
      BY <2>1, <2>4, <3>1, ListOnce DEF ScanTypes, Reliable
    <3> QED
      BY <1>1, <3>1, <3>2 DEF Reliable
  <2>5. ASSUME NEW e, LookAt(e) PROVE Reliable'
    <3>1. walk # None /\ UNCHANGED <<reports, steady>>
      BY <2>5 DEF LookAt
    <3>2. Once'
      BY <2>5, <3>1, LookOnce DEF ScanTypes, Reliable
    <3> QED
      BY <1>1, <3>1, <3>2 DEF Reliable
  <2>6. CASE EndWalk
    <3>1. /\ walk # None /\ walk' = None /\ UNCHANGED steady
          /\ \A s \in Sides \ { walk.side } : reports'[s] = reports[s]
      BY <2>1, <2>6 DEF EndWalk
    <3>2. Sorted(reports'[walk.side])
      BY <2>6, <3>1, EndSorts DEF Reliable
    <3> QED
      BY <1>1, <3>1, <3>2 DEF Reliable
  <2> QED
    BY <1>1, <2>2, <2>3, <2>4, <2>5, <2>6, ScanSteps
<1>2. CASE Drift /\ phase' = phase
  <2>1. UNCHANGED <<walk, reports>>
    BY <1>2, DriftAlters DEF Alter
  <2>2. Once' <=> Once
    BY <2>1 DEF Once, Filed, Entered, Single, Todo
  <2>3. \A s \in Sides : steady'[s] \subseteq steady[s]
    BY <1>2, DriftAlters DEF Alter, ScanTypes
  <2> QED
    BY <1>2, <2>1, <2>2, <2>3 DEF Reliable
<1>3. CASE Afterwards
  <2>1. walk' = None
    BY <1>3 DEF Afterwards, ScanTypes, WalkTypes
  <2> QED
    BY <1>3, <2>1 DEF Afterwards, Reliable
<1>4. CASE UNCHANGED vars
  <2>1. UNCHANGED <<walk, reports, phase, steady>>
    BY <1>4 DEF vars, scanVars
  <2>2. Once' <=> Once
    BY <2>1 DEF Once, Filed, Entered, Single, Todo
  <2> QED
    BY <2>1, <2>2 DEF Reliable
<1> QED
  BY <1>1, <1>2, <1>3, <1>4, StepKinds

-----------------------------------------------------------------------------
(***************************************************************************)
(* What a plan consists of.                                                *)
(***************************************************************************)
ContentOf(in) == { Content(in, f) : f \in FilesOf(in, "source") }

LEMMA PlanHas ==
  ASSUME NEW in
  PROVE  /\ \A p \in ToCreate(in) : Mkdir(in, p) \in PlanOf(in)
         /\ \A f \in FilesOf(in, "source") : Content(in, f) \in PlanOf(in)
         /\ Unsupported(in) \subseteq PlanOf(in)
BY DEF PlanOf

LEMMA FirstOf == \A records : records # {} => The(records) \in records
BY DEF The

\* A name put beside another path of its key.
LEMMA RecasedKey ==
  ASSUME NEW p \in Path, NEW q \in Path, Key(p) = Key(q)
  PROVE  /\ Append(Parent(p), q[Len(q)]) \in Path
         /\ Key(Append(Parent(p), q[Len(q)])) = Key(q)
<1> DEFINE up == Parent(p)
           n == Len(p)
           r == Append(up, q[Len(q)])
<1>1. /\ n = Len(q) /\ \A i \in 1 .. n : NameKey[p[i]] = NameKey[q[i]]
      /\ n \in Nat /\ n >= 1
  BY KeyEqual, PathType
<1>2. q \in Seq(Name) /\ q[Len(q)] \in Name
  BY <1>1, PathType
<1>3. up \in Seq(Name) /\ Len(up) = n - 1
  BY ParentType
<1>4. \A i \in 1 .. n - 1 : up[i] = p[i]
  <2>1. n - 1 \in 0 .. Len(p)
    BY <1>1
  <2> QED
    BY <2>1, PrefixType DEF Parent
<1> HIDE DEF up, n
<1>5. /\ r \in Seq(Name) /\ Len(r) = n /\ r[n] = q[Len(q)]
      /\ \A i \in 1 .. n - 1 : r[i] = up[i]
  BY <1>1, <1>2, <1>3
<1> HIDE DEF r
<1>6. r \in Path
  BY <1>1, <1>5 DEF Path, Name
<1>7. ASSUME NEW i \in 1 .. n PROVE NameKey[r[i]] = NameKey[q[i]]
  <2>1. CASE i = n
    BY <1>1, <1>5, <2>1
  <2>2. CASE i # n
    <3>1. i \in 1 .. n - 1
      BY <1>1, <2>2
    <3> QED
      BY <1>1, <1>4, <1>5, <3>1
  <2> QED
    BY <2>1, <2>2
<1>8. Key(r) = Key(q)
  BY <1>1, <1>5, <1>6, <1>7, KeyEqual
<1> QED
  BY <1>6, <1>8 DEF r, up

\* What a source file comes to.
LEMMA ContentKinds ==
  ASSUME NEW in, NEW f
  PROVE  LET op == Content(in, f) IN
         /\ Conflict(in, f) # None =>
               op.kind = "copy" /\ op.target = f.path /\ op.blocked = Conflict(in, f)
         /\ Conflict(in, f) = None /\ Matches(in, f) # {} =>
               LET t == The(Matches(in, f)).path
                   recased == Append(Parent(t), f.path[Len(f.path)])
               IN
               /\ op.kind \in { "recase", "update", "noop" } /\ op.blocked = None
               /\ op.target = IF in.opts.casing /\ Key(t) = Key(f.path) /\ recased # t
                              THEN recased ELSE t
         /\ op.kind \in Moves =>
               /\ Movable(in, f) # {} /\ op.target = f.path
               /\ op.prior = The(Known(in, f)).target
<1> DEFINE op == Content(in, f)
<1>1. CASE Conflict(in, f) # None
  <2> DEFINE first == Foremost(At(FilesOf(in, "source"), f.path))
             b == BlockedCopy(in, f)
  <2>1. op = [b EXCEPT !.deps = Needs(in, f.path)]
    BY <1>1 DEF Content
  <2>2. b.kind = "copy" /\ b.target = f.path /\ b.blocked = Conflict(in, f)
    BY DEF BlockedCopy, Reading, Op
  <2>3. op.kind = "copy" /\ op.target = f.path /\ op.blocked = Conflict(in, f)
    BY <2>1, <2>2 DEF BlockedCopy, Reading, Op
  <2> HIDE DEF op
  <2>4. op.kind \notin Moves
    BY <2>3 DEF Moves
  <2> QED
    BY <1>1, <2>3, <2>4 DEF op
<1>2. CASE Conflict(in, f) = None /\ Matches(in, f) # {}
  <2> DEFINE m == The(Matches(in, f))
             t == m.path
             recased == Append(Parent(t), f.path[Len(f.path)])
             respelled == in.opts.casing /\ Key(t) = Key(f.path) /\ recased # t
             kind == IF ~ (m.stat.ver = f.stat.ver) THEN "update"
                     ELSE IF respelled THEN "recase" ELSE "noop"
             b == Matched(in, f)
  <2>1. op = [b EXCEPT !.deps = Needs(in, f.path)]
    BY <1>2 DEF Content
  <2>2. /\ op.kind = kind /\ op.target = (IF respelled THEN recased ELSE t)
        /\ op.blocked = None
    BY <2>1 DEF Matched, Reading, Op
  <2> HIDE DEF op, respelled
  <2>3. kind \in { "recase", "update", "noop" }
    OBVIOUS
  <2>4. op.kind \notin Moves
    BY <2>2, <2>3 DEF Moves
  <2> QED
    BY <1>2, <2>2, <2>3, <2>4 DEF op, respelled
<1>3. CASE Conflict(in, f) = None /\ Matches(in, f) = {} /\ Movable(in, f) # {}
  <2>1. op = [Moved(in, f) EXCEPT !.deps = Needs(in, f.path)]
    BY <1>3 DEF Content
  <2>2. op.target = f.path /\ op.prior = The(Known(in, f)).target
    BY <2>1 DEF Moved, Reading, Op
  <2> QED
    BY <1>3, <2>2
<1>4. CASE Conflict(in, f) = None /\ Matches(in, f) = {} /\ Movable(in, f) = {}
  <2>1. op = [Reading(Op("copy", f.path, f.path), f) EXCEPT !.deps = Needs(in, f.path)]
    BY <1>4 DEF Content
  <2>2. op.kind = "copy"
    BY <2>1 DEF Reading, Op
  <2> HIDE DEF op
  <2>3. op.kind \notin Moves
    BY <2>2 DEF Moves
  <2> QED
    BY <1>4, <2>3 DEF op
<1> QED
  BY <1>1, <1>2, <1>3, <1>4

\* The operations that take something away.
LEMMA Takers ==
  ASSUME NEW in, NEW op \in PlanOf(in), op.kind \in Destructive
  PROVE  \/ \E t \in FilesOf(in, "target") :
               /\ op.kind \notin Moves /\ op.target = t.path
               /\ Key(t.path) \notin Claimed(ContentOf(in))
         \/ \E f \in FilesOf(in, "source") :
               /\ op.kind \in Moves /\ Movable(in, f) # {}
               /\ op.prior = The(Known(in, f)).target
         \/ \E d \in in.target.dirs :
               /\ op.kind \notin Moves /\ op.target = d.path
               /\ ~ Excludes(in.opts, d.path)
               /\ \A p \in Required(in) : Key(p) # Key(d.path)
<1> DEFINE content == ContentOf(in)
           removals == Removals(in, content)
<1>1. op \in { Mkdir(in, p) : p \in ToCreate(in) } \cup content \cup removals
             \cup Unsupported(in) \cup Cleanups(in, content, removals)
  BY DEF PlanOf, ContentOf
<1>2. CASE op \in { Mkdir(in, p) : p \in ToCreate(in) }
  <2>1. op.kind = "mkdir"
    BY <1>2 DEF Mkdir, Op
  <2> QED
    BY <2>1 DEF Destructive, Moves
<1>3. CASE op \in content
  <2>1. PICK f \in FilesOf(in, "source") : op = Content(in, f)
    BY <1>3 DEF ContentOf
  <2>2. op.kind \in Moves
    <3>1. CASE Conflict(in, f) # None
      BY <2>1, <3>1, ContentKinds DEF Destructive, Moves
    <3>2. CASE Conflict(in, f) = None /\ Matches(in, f) # {}
      <4>1. op.kind \in { "recase", "update", "noop" }
        BY <2>1, <3>2, ContentKinds
      <4> QED
        BY <4>1 DEF Destructive, Moves
    <3>3. CASE Conflict(in, f) = None /\ Matches(in, f) = {} /\ Movable(in, f) = {}
      <4>1. op = [Reading(Op("copy", f.path, f.path), f) EXCEPT !.deps = Needs(in, f.path)]
        BY <2>1, <3>3 DEF Content
      <4>2. op.kind = "copy"
        BY <4>1 DEF Reading, Op
      <4> QED
        BY <4>2 DEF Destructive, Moves
    <3>4. CASE Conflict(in, f) = None /\ Matches(in, f) = {} /\ Movable(in, f) # {}
      <4>1. op = [Moved(in, f) EXCEPT !.deps = Needs(in, f.path)]
        BY <2>1, <3>4 DEF Content
      <4>2. op.kind = (IF The(Movable(in, f)).stat.ver = f.stat.ver THEN "move" ELSE "move_update")
        BY <4>1 DEF Moved, Reading, Op
      <4> QED
        BY <4>2 DEF Moves
    <3> QED
      BY <3>1, <3>2, <3>3, <3>4
  <2> QED
    BY <2>1, <2>2, ContentKinds
<1>4. CASE op \in removals
  <2>1. PICK t \in FilesOf(in, "target") :
            /\ Key(t.path) \notin Claimed(content) \cup Left(content)
            /\ op = [Op(IF in.opts.policy = "trash" THEN "trash" ELSE "delete", None, t.path)
                        EXCEPT !.found = t.stat]
    BY <1>4 DEF Removals
  <2>2. op.target = t.path /\ op.kind \in { "trash", "delete" }
    BY <2>1 DEF Op
  <2>3. op.kind \notin Moves
    BY <2>2 DEF Moves
  <2> QED
    BY <2>1, <2>2, <2>3
<1>5. CASE op \in Unsupported(in)
  <2>1. op.kind = "noop"
    BY <1>5 DEF Unsupported, Op
  <2> QED
    BY <2>1 DEF Destructive, Moves
<1>6. CASE op \in Cleanups(in, content, removals)
  <2> DEFINE gone == { Key(o.target) : o \in removals } \cup Left(content)
  <2>1. PICK d \in Cleaned(in, gone) : op.kind = "cleanup" /\ op.target = d.path
    BY <1>6 DEF Cleanups, Op
  <2>2. PICK cleaned \in SUBSET in.target.dirs :
            d \in cleaned /\ Emptied(in, gone, cleaned, d)
    BY <2>1 DEF Cleaned
  <2>3. /\ d \in in.target.dirs /\ ~ Excludes(in.opts, d.path)
        /\ \A p \in Required(in) : Key(p) # Key(d.path)
    BY <2>2 DEF Emptied
  <2>4. op.kind \notin Moves
    BY <2>1 DEF Moves
  <2> QED
    BY <2>1, <2>3, <2>4
<1> QED
  BY <1>1, <1>2, <1>3, <1>4, <1>5, <1>6

\* What two good scans, the target's complete, are worth to the planner.
Fit(in) ==
    /\ Sorted(in.source) /\ Sorted(in.target) /\ in.target.complete
    /\ \A pair \in in.pairs : pair.target \in Path

Hinders(in, p) ==
    \E o \in PlanOf(in) : o.blocked # None /\ o.target \in Path /\ Key(o.target) = Key(p)

\* A directory or an odd entry of the source where the target has a file, or an
\* odd entry anywhere, blocks an operation on its path.
LEMMA OddHinders ==
  ASSUME NEW in, Fit(in), NEW p \in Path, ~ Excludes(in.opts, p),
         NEW q \in in.source.odd, Key(q) = Key(p)
  PROVE  Hinders(in, p)
<1>1. q \in Path /\ ~ Excludes(in.opts, q)
  <2>1. q \in Path
    BY DEF Fit, Sorted, Reported
  <2> QED
    BY <2>1, ExcludesLike
<1> DEFINE o == [Op("noop", q, q) EXCEPT !.blocked = "unsupported"]
<1>2. o \in PlanOf(in)
  <2>1. o \in Unsupported(in)
    BY <1>1 DEF Unsupported
  <2> QED
    BY <2>1, PlanHas
<1>3. o.blocked # None /\ o.target = q
  BY NoneAssumption DEF Op
<1> QED
  BY <1>1, <1>2, <1>3 DEF Hinders

LEMMA DirHinders ==
  ASSUME NEW in, Fit(in), NEW p \in Path, ~ Excludes(in.opts, p),
         NEW d \in in.source.dirs, Key(d.path) = Key(p),
         NEW t \in FilesOf(in, "target"), Key(t.path) = Key(p)
  PROVE  Hinders(in, p)
<1> DEFINE q == d.path
<1>1. q \in Path
  BY DEF Fit, Sorted, Reported
<1>2. q \in Required(in)
  <2>1. ~ Excludes(in.opts, q)
    BY <1>1, ExcludesLike
  <2> QED
    BY <2>1 DEF Required, SourceDirs
<1>3. At(in.target.dirs, q) = {}
  <2>1. t \in in.target.files
    BY DEF FilesOf
  <2>2. \A r \in in.target.dirs : Key(t.path) # Key(r.path)
    BY <2>1 DEF Fit, Sorted, PathsOf
  <2> QED
    BY <2>2 DEF At
<1>4. Mkdir(in, q) \in PlanOf(in)
  BY <1>2, <1>3, PlanHas DEF ToCreate
<1>5. At(FilesOf(in, "target"), q) # {}
  BY DEF At
<1>6. Mkdir(in, q).target = q /\ Mkdir(in, q).blocked = "type"
  BY <1>5 DEF Mkdir, Op
<1> QED
  BY <1>1, <1>4, <1>6, NoneAssumption DEF Hinders

\* A source file answers for the target file of its key, or its copy is blocked.
LEMMA FileAnswers ==
  ASSUME NEW in, Fit(in), NEW f \in FilesOf(in, "source"), NEW t \in FilesOf(in, "target"),
         Key(f.path) = Key(t.path)
  PROVE  Key(t.path) \in Claimed(ContentOf(in)) \/ Hinders(in, t.path)
<1> DEFINE o == Content(in, f)
           same == At(FilesOf(in, "target"), f.path)
<1>1. o \in PlanOf(in) /\ o \in ContentOf(in) /\ f.path \in Path
  BY PlanHas DEF ContentOf, FilesOf, Fit, Sorted, Reported
<1>2. CASE Conflict(in, f) # None
  <2>1. o.target = f.path /\ o.blocked # None
    BY <1>2, ContentKinds
  <2>2. Key(o.target) = Key(t.path)
    BY <2>1
  <2> HIDE DEF o
  <2> QED
    BY <1>1, <2>1, <2>2 DEF Hinders
<1>3. CASE Conflict(in, f) = None
  <2>1. t \in same
    BY DEF At
  <2>2. Matches(in, f) = same /\ same # {}
    BY <2>1 DEF Matches
  <2> DEFINE m == The(Matches(in, f))
             recased == Append(Parent(m.path), f.path[Len(f.path)])
  <2>3. m \in same
    BY <2>2, FirstOf
  <2>4. m \in in.target.files /\ Key(m.path) = Key(f.path)
    BY <2>3 DEF At, FilesOf
  <2>5. f.path \in Path /\ m.path \in Path
    <3>1. f \in in.source.files
      BY DEF FilesOf
    <3> QED
      BY <2>4, <3>1 DEF Fit, Sorted, Reported
  <2>6. Key(recased) = Key(f.path)
    BY <2>4, <2>5, RecasedKey
  <2>7. o.target \in { recased, m.path } /\ o.blocked = None
    BY <1>3, <2>2, ContentKinds
  <2> HIDE DEF o, m, recased
  <2>8. Key(o.target) = Key(t.path) /\ o.blocked # "dependency"
    BY <2>4, <2>6, <2>7, NoneAssumption
  <2> QED
    BY <1>1, <2>8 DEF Claimed
<1> QED
  BY <1>2, <1>3

\* A source file where the target has a directory is blocked.
LEMMA FileHinders ==
  ASSUME NEW in, Fit(in), NEW f \in FilesOf(in, "source"), NEW d \in in.target.dirs,
         Key(f.path) = Key(d.path)
  PROVE  Hinders(in, d.path)
<1>1. At(in.target.dirs, f.path) # {}
  BY DEF At
<1>2. Conflict(in, f) # None
  BY <1>1, NoneAssumption DEF Conflict
<1>3. /\ Content(in, f) \in PlanOf(in) /\ Content(in, f).target = f.path
      /\ Content(in, f).blocked # None /\ f.path \in Path
  BY <1>2, PlanHas, ContentKinds DEF FilesOf, Fit, Sorted, Reported
<1> QED
  BY <1>3 DEF Hinders

\* The planner takes nothing away that the source has, but where it is blocked.
LEMMA TakesHindered ==
  ASSUME NEW in, Fit(in), NEW op \in PlanOf(in), NEW p \in Taken(op),
         NEW q \in Path, Key(p) = Key(q), Overlooked(q) \/ q \in Reported(in.source)
  PROVE  p \in Path /\ Hinders(in, p)
<1>1. /\ op.kind \in Destructive
      /\ op.kind \in Moves => p = op.prior
      /\ op.kind \notin Moves => p = op.target
  BY DEF Taken, Destructive, Moves
<1>2. /\ \A r \in in.target.files \cup in.target.dirs : r.path \in Path /\ ~ Overlooked(r.path)
      /\ \A r \in in.source.files \cup in.source.dirs : r.path \in Path
  BY ReportedPaths DEF Fit, Sorted, PathsOf
\* Whatever has the key of an entry the target reported was reported by the source.
<1>3. ASSUME NEW r \in in.target.files \cup in.target.dirs, Key(r.path) = Key(p),
             p \in Path, ~ Excludes(in.opts, r.path)
      PROVE  /\ ~ Excludes(in.opts, p) /\ ~ Excludes(in.opts, q)
             /\ \/ \E f \in FilesOf(in, "source") : f.path = q
                \/ \E d \in in.source.dirs : d.path = q
                \/ q \in in.source.odd
  <2>1. ~ Overlooked(q)
    BY <1>2, <1>3, OverlookedLike
  <2>2. ~ Excludes(in.opts, p) /\ ~ Excludes(in.opts, q)
    BY <1>2, <1>3, ExcludesLike
  <2>3. \/ \E f \in in.source.files : f.path = q
        \/ \E d \in in.source.dirs : d.path = q
        \/ q \in in.source.odd
    BY <2>1 DEF Reported
  <2> QED
    BY <2>2, <2>3 DEF FilesOf
<1>4. ASSUME NEW t \in FilesOf(in, "target"), op.kind \notin Moves, op.target = t.path,
             Key(t.path) \notin Claimed(ContentOf(in))
      PROVE  p \in Path /\ Hinders(in, p)
  <2>1. p = t.path /\ t \in in.target.files /\ p \in Path /\ ~ Excludes(in.opts, p)
    BY <1>1, <1>2, <1>4 DEF FilesOf
  <2>2. CASE \E f \in FilesOf(in, "source") : f.path = q
    BY <1>4, <2>1, <2>2, FileAnswers
  <2>3. CASE \E d \in in.source.dirs : d.path = q
    BY <2>1, <2>3, DirHinders
  <2>4. CASE q \in in.source.odd
    BY <2>1, <2>4, OddHinders
  <2> QED
    BY <1>3, <2>1, <2>2, <2>3, <2>4
<1>5. ASSUME NEW f \in FilesOf(in, "source"), op.kind \in Moves, Movable(in, f) # {},
             op.prior = The(Known(in, f)).target
      PROVE  p \in Path /\ Hinders(in, p)
  <2> DEFINE pair == The(Known(in, f))
             old == At(FilesOf(in, "target"), pair.target)
  <2>1. One(Known(in, f)) /\ At(FilesOf(in, "source"), pair.target) = {} /\ old # {}
    BY <1>5 DEF Movable
  <2>2. Known(in, f) # {}
    BY <2>1, FS_EmptySet DEF One
  <2>3. pair \in in.pairs
    BY <2>2, FirstOf DEF Known
  <2>4. p = pair.target /\ p \in Path
    BY <1>1, <1>5, <2>3 DEF Fit
  <2>5. PICK t \in FilesOf(in, "target") : Key(t.path) = Key(p)
    BY <2>1, <2>4 DEF At
  <2>6. t \in in.target.files /\ ~ Excludes(in.opts, t.path)
    BY DEF FilesOf
  <2>7. ~ \E g \in FilesOf(in, "source") : g.path = q
    BY <2>1, <2>4 DEF At
  <2>8. CASE \E d \in in.source.dirs : d.path = q
    BY <1>3, <2>4, <2>5, <2>6, <2>8, DirHinders
  <2>9. CASE q \in in.source.odd
    BY <1>3, <2>4, <2>5, <2>6, <2>9, OddHinders
  <2> QED
    BY <1>3, <2>4, <2>5, <2>6, <2>7, <2>8, <2>9
<1>6. ASSUME NEW d \in in.target.dirs, op.kind \notin Moves, op.target = d.path,
             ~ Excludes(in.opts, d.path), \A r \in Required(in) : Key(r) # Key(d.path)
      PROVE  p \in Path /\ Hinders(in, p)
  <2>1. p = d.path /\ p \in Path /\ ~ Excludes(in.opts, p)
    BY <1>1, <1>2, <1>6
  <2>2. CASE \E f \in FilesOf(in, "source") : f.path = q
    BY <2>1, <2>2, FileHinders
  <2>3. CASE \E r \in in.source.dirs : r.path = q
    <3>1. q \in Required(in)
      <4>1. ~ Excludes(in.opts, q)
        BY <1>3, <2>1
      <4> QED
        BY <2>3, <4>1 DEF Required, SourceDirs
    <3> QED
      BY <1>6, <2>1, <3>1
  <2>4. CASE q \in in.source.odd
    BY <2>1, <2>4, OddHinders
  <2> QED
    BY <1>3, <2>1, <2>2, <2>3, <2>4
<1> QED
  BY <1>1, <1>4, <1>5, <1>6, Takers

-----------------------------------------------------------------------------
(***************************************************************************)
(* The plan is the planner's answer to the scans, and stays it.            *)
(***************************************************************************)
Planned ==
    /\ world \in Worlds
    /\ phase = "scan" => plan.ops = {}
    /\ phase # "scan" =>
          /\ plan.ops = PlanOf(Input(plan.opts))
          /\ plan.complete <=> reports["source"].complete /\ reports["target"].complete

LEMMA PlannedInductive == ScanTypes /\ Planned /\ [Next]_vars => Planned'
<1> SUFFICES ASSUME ScanTypes, Planned, [Next]_vars PROVE Planned'
  OBVIOUS
<1>1. CASE phase = "scan" /\ Scan /\ UNCHANGED <<selectionVars, world, phase, runVars>>
  BY <1>1 DEF Planned, selectionVars
<1>2. CASE Drift /\ UNCHANGED <<selectionVars, world, phase, runVars>>
  <2>1. UNCHANGED <<reports, plan, world, phase>>
    BY <1>2, DriftAlters DEF Alter, selectionVars
  <2> QED
    BY <2>1 DEF Planned, Input
<1>3. CASE MakePlan
  <2>1. UNCHANGED <<reports, world>> /\ phase' = "select"
    BY <1>3 DEF MakePlan, scanVars
  <2>2. PICK opts \in Options :
          plan' = [ops |-> PlanOf(Input(opts)), opts |-> opts,
                   complete |-> reports["source"].complete /\ reports["target"].complete,
                   volumes |-> reports["source"].volume /\ reports["target"].volume]
    BY <1>3 DEF MakePlan
  <2>3. plan'.ops = PlanOf(Input(opts)) /\ plan'.opts = opts
        /\ plan'.complete = (reports["source"].complete /\ reports["target"].complete)
    BY <2>2
  <2>4. Input(plan.opts)' = Input(opts)
    BY <2>1, <2>3 DEF Input
  <2> QED
    BY <2>1, <2>3, <2>4 DEF Planned
<1>4. CASE Exclude \/ SelectionMade \/ Review \/ Commit \/ Begin \/ Execute \/ Pause \/ Finish
  <2>1. UNCHANGED <<reports, plan, world>> /\ phase # "scan" /\ phase' # "scan"
    BY <1>4 DEF Exclude, Withhold, SelectionMade, Review, Commit, Begin, Judge, Execute, Pause,
                Finish, scanVars, selectionVars
  <2> QED
    BY <2>1 DEF Planned, Input
<1>5. CASE UNCHANGED vars
  <2>1. UNCHANGED <<reports, plan, world, phase>>
    BY <1>5 DEF vars, scanVars, selectionVars
  <2> QED
    BY <2>1 DEF Planned, Input
<1> QED
  BY <1>1, <1>2, <1>3, <1>4, <1>5 DEF Next

\* Nothing selected takes a path that is blocked.
LEMMA NotTaken ==
  ASSUME Sparing, NEW op \in Operations, Id(op) \in Selected, NEW p \in Taken(op),
         NEW o \in Operations, o.blocked # None
  PROVE  ~ Inside(o.target, p)
<1> SUFFICES ASSUME Inside(o.target, p) PROVE FALSE
  OBVIOUS
<1>1. o.target \in BlockedTargets(Operations)
  BY DEF BlockedTargets, BlockedOps, Targets
<1>2. op \in BlockedOps(Operations) \cup Quarantined(Operations)
  BY <1>1 DEF Quarantined, BlockedOps
<1>3. Id(op) \in Direct
  BY <1>2 DEF Direct
<1> QED
  BY <1>3 DEF Sparing, Selected

LEMMA TakesJustified ==
  ASSUME ScanTypes, ScanHonest, Reliable, Planned, Sparing, phase # "scan",
         NEW op \in Operations, Id(op) \in Selected, NEW p \in Taken(op),
         NEW q \in steady["source"]
  PROVE  Key(p) # Key(q)
<1> SUFFICES ASSUME Key(p) = Key(q) PROVE FALSE
  OBVIOUS
<1> DEFINE in == Input(plan.opts)
<1>1. op.kind \in Destructive
  BY DEF Taken, Destructive, Moves
<1>2. plan.complete
  <2> SUFFICES ASSUME ~ plan.complete PROVE FALSE
    OBVIOUS
  <2>1. Id(op) \in Direct
    BY <1>1 DEF Direct, Unjustified
  <2> QED
    BY <2>1 DEF Sparing, Selected
<1>3. /\ in.source = reports["source"] /\ in.target = reports["target"]
      /\ in.pairs = world.pairs /\ Operations = PlanOf(in)
  BY DEF Input, Planned, Operations
<1>4. in.source.complete /\ in.target.complete /\ in.source # None /\ in.target # None
  BY <1>2, <1>3 DEF Planned, Reliable, Sides
<1>5. Fit(in)
  <2>1. Sorted(in.source) /\ Sorted(in.target)
    BY <1>3, <1>4 DEF Reliable, Sides
  <2>2. \A pair \in in.pairs : pair.target \in Path
    BY <1>3, WorldsAssumption DEF Planned
  <2> QED
    BY <1>4, <2>1, <2>2 DEF Fit
<1>6. q \in Path /\ (Overlooked(q) \/ q \in Reported(in.source))
  BY <1>3, <1>4 DEF Reliable, ScanHonest, Sides
<1> HIDE DEF in
<1>7. p \in Path /\ Hinders(in, p)
  BY <1>1, <1>3, <1>5, <1>6, TakesHindered
<1>8. PICK o \in PlanOf(in) :
          o.blocked # None /\ o.target \in Path /\ Key(o.target) = Key(p)
  BY <1>7 DEF Hinders
<1>9. Inside(o.target, p)
  BY <1>7, <1>8, InsideLike
<1> QED
  BY <1>3, <1>8, <1>9, NotTaken

Warranted == Honest /\ Reliable /\ Planned /\ Sparing

LEMMA WarrantedInitially == Init => Warranted
<1> SUFFICES ASSUME Init PROVE Warranted
  OBVIOUS
<1>1. ScanTypes
  BY ScanTypesHold
<1>2. walk = None /\ phase = "scan" /\ \A side \in Sides : reports[side] = None /\ steady[side] = {}
  BY DEF Init
<1>3. Honest /\ Reliable /\ Planned
  BY <1>1, <1>2 DEF Init, NoPlan, Honest, ScanHonest, Reliable, Planned
<1> QED
  BY <1>3, InitSpares DEF Warranted

LEMMA WarrantedStays == Warranted /\ [Next]_vars => Warranted'
BY ScanHonestInductive, ReliableInductive, PlannedInductive, NextSpares DEF Warranted, Honest

LEMMA WarrantedAlways == Spec => []Warranted
BY WarrantedInitially, WarrantedStays, PTL DEF Spec

(***************************************************************************)
(* Whatever the two scans met, whatever was recorded and under whatever    *)
(* options: a selected operation moves, trashes, deletes or cleans up no   *)
(* path whose key an entry of the source had during the whole of its scan  *)
(* (modules/planner.py, core/planning.py and workflows/selection.py).      *)
(***************************************************************************)
THEOREM RemovalsAreJustified == Spec => []RemovalJustified
<1>1. Warranted => RemovalJustified
  BY TakesJustified DEF Warranted, Honest, RemovalJustified
<1> QED
  BY <1>1, WarrantedAlways, PTL

-----------------------------------------------------------------------------
(***************************************************************************)
(* The plan is well formed: no two of its operations have one id, and what *)
(* an operation depends on comes before it.                                *)
(***************************************************************************)
Neat(in) == Sorted(in.source) /\ Sorted(in.target)

Contents == { "copy", "recase", "update", "noop" } \cup Moves

LEMMA MkdirFields ==
  ASSUME NEW in, NEW p
  PROVE  /\ Mkdir(in, p).kind = "mkdir" /\ Mkdir(in, p).target = p
         /\ Id(Mkdir(in, p)) = MkdirId(in, p) /\ Mkdir(in, p).deps = Needs(in, p)
BY DEF Mkdir, Op, Id, MkdirId

\* By which of its fields the operation of a source file is known.
LEMMA ContentFields ==
  ASSUME NEW in, NEW f
  PROVE  LET op == Content(in, f) IN
         /\ op.kind \in Contents /\ op.deps = Needs(in, f.path)
         /\ op.kind = "copy" => op.target = f.path
         /\ op.kind # "copy" => op.source = f.path
         /\ op.kind = "noop" => Matches(in, f) # {} /\ op.target = The(Matches(in, f)).path
<1> DEFINE op == Content(in, f)
           deps == Needs(in, f.path)
<1>1. CASE Conflict(in, f) # None
  <2>1. op = [BlockedCopy(in, f) EXCEPT !.deps = deps]
    BY <1>1 DEF Content
  <2>2. op.kind = "copy" /\ op.target = f.path /\ op.deps = deps
    BY <2>1 DEF BlockedCopy, Reading, Op
  <2> HIDE DEF op, deps
  <2> QED
    BY <2>2 DEF Contents, op, deps
<1>2. CASE Conflict(in, f) = None /\ Matches(in, f) # {}
  <2> DEFINE m == The(Matches(in, f))
             recased == Append(Parent(m.path), f.path[Len(f.path)])
             respelled == in.opts.casing /\ Key(m.path) = Key(f.path) /\ recased # m.path
             kind == IF ~ (m.stat.ver = f.stat.ver) THEN "update"
                     ELSE IF respelled THEN "recase" ELSE "noop"
  <2>1. op = [Matched(in, f) EXCEPT !.deps = deps]
    BY <1>2 DEF Content
  <2>2. /\ op.kind = kind /\ op.target = (IF respelled THEN recased ELSE m.path)
        /\ op.source = f.path /\ op.deps = deps
    BY <2>1 DEF Matched, Reading, Op
  <2> HIDE DEF op, deps, respelled, recased
  <2>3. /\ kind \in { "update", "recase", "noop" }
        /\ kind = "noop" => ~ respelled
    OBVIOUS
  <2> HIDE DEF kind
  <2>4. op.kind \in Contents /\ op.kind # "copy" /\ (op.kind = "noop" => op.target = m.path)
    BY <2>2, <2>3 DEF Contents
  <2> QED
    BY <1>2, <2>2, <2>4 DEF op, deps
<1>3. CASE Conflict(in, f) = None /\ Matches(in, f) = {} /\ Movable(in, f) # {}
  <2> DEFINE kind == IF The(Movable(in, f)).stat.ver = f.stat.ver THEN "move" ELSE "move_update"
  <2>1. op = [Moved(in, f) EXCEPT !.deps = deps]
    BY <1>3 DEF Content
  <2>2. op.kind = kind /\ op.source = f.path /\ op.deps = deps
    BY <2>1 DEF Moved, Reading, Op
  <2> HIDE DEF op, deps
  <2>3. op.kind \in Moves
    BY <2>2 DEF Moves
  <2> QED
    BY <2>2, <2>3 DEF Contents, Moves, op, deps
<1>4. CASE Conflict(in, f) = None /\ Matches(in, f) = {} /\ Movable(in, f) = {}
  <2>1. op = [Reading(Op("copy", f.path, f.path), f) EXCEPT !.deps = deps]
    BY <1>4 DEF Content
  <2>2. op.kind = "copy" /\ op.target = f.path /\ op.deps = deps
    BY <2>1 DEF Reading, Op
  <2> HIDE DEF op, deps
  <2> QED
    BY <2>2 DEF Contents, op, deps
<1> QED
  BY <1>1, <1>2, <1>3, <1>4

\* Which operations there are.
LEMMA PlanKinds ==
  ASSUME NEW in, NEW op \in PlanOf(in)
  PROVE  \/ op.kind = "mkdir" /\ \E p \in ToCreate(in) : op = Mkdir(in, p)
         \/ op.kind \in Contents /\ \E f \in FilesOf(in, "source") : op = Content(in, f)
         \/ /\ op.kind \in { "trash", "delete" } /\ op.deps = {} /\ op.blocked = None
            /\ op \in Removals(in, ContentOf(in))
         \/ op.kind = "noop" /\ op.deps = {} /\ op \in Unsupported(in)
         \/ /\ op.kind = "cleanup" /\ op.blocked = None
            /\ op \in Cleanups(in, ContentOf(in), Removals(in, ContentOf(in)))
<1> DEFINE content == ContentOf(in)
           removals == Removals(in, content)
<1>1. op \in { Mkdir(in, p) : p \in ToCreate(in) } \cup content \cup removals
             \cup Unsupported(in) \cup Cleanups(in, content, removals)
  BY DEF PlanOf, ContentOf
<1>2. CASE op \in { Mkdir(in, p) : p \in ToCreate(in) }
  BY <1>2, MkdirFields
<1>3. CASE op \in content
  BY <1>3, ContentFields DEF ContentOf
<1>4. CASE op \in removals
  <2>1. PICK t :
            op = [Op(IF in.opts.policy = "trash" THEN "trash" ELSE "delete", None, t.path)
                        EXCEPT !.found = t.stat]
    BY <1>4 DEF Removals
  <2>2. op.kind \in { "trash", "delete" } /\ op.deps = {} /\ op.blocked = None
    BY <2>1 DEF Op
  <2> QED
    BY <1>4, <2>2
<1>5. CASE op \in Unsupported(in)
  <2>1. op.kind = "noop" /\ op.deps = {}
    BY <1>5 DEF Unsupported, Op
  <2> QED
    BY <1>5, <2>1
<1>6. CASE op \in Cleanups(in, content, removals)
  <2>1. op.kind = "cleanup" /\ op.blocked = None
    BY <1>6 DEF Cleanups, Op
  <2> QED
    BY <1>6, <2>1
<1> QED
  BY <1>1, <1>2, <1>3, <1>4, <1>5, <1>6

LEMMA IdFields ==
  ASSUME NEW op, NEW o, Id(o) = Id(op)
  PROVE  o.kind = op.kind /\ o.source = op.source /\ o.target = op.target
BY DEF Id

LEMMA OneId ==
  ASSUME NEW in, Neat(in), NEW op \in PlanOf(in), NEW o \in PlanOf(in), Id(o) = Id(op)
  PROVE  o = op
<1> DEFINE content == ContentOf(in)
           removals == Removals(in, content)
<1>1. o.kind = op.kind /\ o.source = op.source /\ o.target = op.target
  BY IdFields
<1>2. \A a, b \in FilesOf(in, "source") : a.path = b.path => a = b
  BY DEF FilesOf, Neat, Sorted, Single
<1>3. \A a, b \in in.target.files \cup in.target.dirs : a.path = b.path => a = b
  BY DEF Neat, Sorted, Single
<1>4. ASSUME NEW p \in ToCreate(in), NEW q \in ToCreate(in), op = Mkdir(in, p), o = Mkdir(in, q)
      PROVE  o = op
  BY <1>1, <1>4, MkdirFields
<1>5. ASSUME NEW f \in FilesOf(in, "source"), NEW g \in FilesOf(in, "source"),
             op = Content(in, f), o = Content(in, g)
      PROVE  o = op
  <2>1. f.path = g.path
    BY <1>1, <1>5, ContentFields
  <2> QED
    BY <1>2, <1>5, <2>1
<1>6. ASSUME op \in removals, o \in removals PROVE o = op
  <2> DEFINE made(t) ==
               [Op(IF in.opts.policy = "trash" THEN "trash" ELSE "delete", None, t.path)
                  EXCEPT !.found = t.stat]
  <2>1. /\ \E t \in FilesOf(in, "target") : op = made(t)
        /\ \E t \in FilesOf(in, "target") : o = made(t)
    BY <1>6 DEF Removals
  <2>2. \A t : made(t).target = t.path
    BY DEF Op
  <2> HIDE DEF made
  <2> QED
    BY <1>1, <1>3, <2>1, <2>2 DEF FilesOf
<1>7. ASSUME op \in Unsupported(in), o \in Unsupported(in) PROVE o = op
  <2> DEFINE made(p) == [Op("noop", p, p) EXCEPT !.blocked = "unsupported"]
  <2>1. (\E p : op = made(p)) /\ (\E p : o = made(p))
    BY <1>7 DEF Unsupported
  <2>2. \A p : made(p).target = p
    BY DEF Op
  <2> HIDE DEF made
  <2> QED
    BY <1>1, <2>1, <2>2
<1>8. ASSUME op \in Cleanups(in, content, removals), o \in Cleanups(in, content, removals)
      PROVE  o = op
  <2> DEFINE gone == { Key(r.target) : r \in removals } \cup Left(content)
             empties == removals \cup { r \in content : r.kind \in Moves }
             Frees(r, d) == Inside(IF r.kind \in Moves THEN r.prior ELSE r.target, d.path)
             within(d) == { c \in Cleaned(in, gone) : Parent(c.path) = d.path }
             made(d) ==
               [Op("cleanup", None, d.path) EXCEPT
                  !.found = d.stat,
                  !.deps = { Id(r) : r \in { s \in empties : Frees(s, d) } }
                           \cup { Id(Op("cleanup", None, c.path)) : c \in within(d) }]
  <2>1. /\ \E d \in Cleaned(in, gone) : op = made(d)
        /\ \E d \in Cleaned(in, gone) : o = made(d)
    BY <1>8 DEF Cleanups
  <2>2. \A d : made(d).target = d.path
    BY DEF Op
  <2>3. Cleaned(in, gone) \subseteq in.target.dirs
    BY DEF Cleaned
  <2> HIDE DEF made, gone
  <2> QED
    BY <1>1, <1>3, <2>1, <2>2, <2>3
\* A file is in neither scan an entry that is not supported.
<1>9. ASSUME NEW f \in FilesOf(in, "source"), NEW a \in Unsupported(in), NEW b, b = Content(in, f),
             b.kind = "noop", b.source = a.source, b.target = a.target
      PROVE  FALSE
  <2>1. PICK p \in in.source.odd \cup in.target.odd : a.source = p /\ a.target = p
    BY DEF Unsupported, Op
  <2>2. f.path = p /\ Matches(in, f) # {} /\ The(Matches(in, f)).path = p
    BY <1>9, <2>1, ContentFields
  <2>3. The(Matches(in, f)) \in in.target.files
    BY <2>2, FirstOf DEF Matches, At, Twins, FilesOf
  <2>4. p \in PathsOf(in.target.files) /\ p \in PathsOf(in.source.files)
    BY <2>2, <2>3 DEF PathsOf, FilesOf
  <2> QED
    BY <2>4 DEF Neat, Sorted, Single
<1>10. "mkdir" \notin Contents /\ "cleanup" \notin Contents /\ "trash" \notin Contents
       /\ "delete" \notin Contents
  BY DEF Contents, Moves
<1> QED
  BY <1>1, <1>4, <1>5, <1>6, <1>7, <1>8, <1>9, <1>10, PlanKinds

LEMMA RequiredPaths ==
  ASSUME NEW in, Neat(in), NEW p \in Required(in)
  PROVE  p \in Path
<1>1. CASE \E d \in SourceDirs(in) : p = d.path
  BY <1>1 DEF SourceDirs, Neat, Sorted, Reported
<1>2. CASE \E f \in FilesOf(in, "source") : p \in Ancestors(f.path)
  <2>1. PICK f \in FilesOf(in, "source") : p \in Ancestors(f.path)
    BY <1>2
  <2>2. f.path \in Path
    BY DEF FilesOf, Neat, Sorted, Reported
  <2> QED
    BY <2>1, <2>2, AncestorType
<1> QED
  BY <1>1, <1>2 DEF Required

LEMMA SectionOf ==
  ASSUME NEW op
  PROVE  /\ Section(op) \in 1 .. 5
         /\ op.kind = "mkdir" <=> Section(op) = 1
         /\ Section(op) = 5 => op.kind = "cleanup"
         /\ op.kind = "cleanup" /\ op.blocked = None => Section(op) = 5
BY NoneAssumption DEF Section

LEMMA EarlierBySection ==
  ASSUME NEW o, NEW op, Section(o) < Section(op)
  PROVE  Earlier(o, op)
BY DEF Earlier

LEMMA EarlierByDepth ==
  ASSUME NEW o, NEW op, Section(o) = Section(op),
         \/ Section(op) = 1 /\ Len(o.target) < Len(op.target)
         \/ Section(op) = 5 /\ Len(o.target) > Len(op.target)
  PROVE  Earlier(o, op)
<1>1. CASE Section(op) = 1
  BY <1>1 DEF Earlier, Shallow
<1>2. CASE Section(op) = 5
  BY <1>2 DEF Earlier, Deep
<1> QED
  BY <1>1, <1>2

\* The nearest directory above that is to be created is created before.
LEMMA NeedsMet ==
  ASSUME NEW in, Neat(in), NEW op \in PlanOf(in), NEW id,
         op.kind = "mkdir" \/ Section(op) > 1, NEW p \in Path, id \in Needs(in, p),
         op.kind = "mkdir" => op.target = p
  PROVE  \E o \in PlanOf(in) : Earlier(o, op) /\ Id(o) = id
<1>1. PICK q \in Above(in, p) : id = MkdirId(in, q)
  BY DEF Needs
<1>2. q \in ToCreate(in) /\ Below(p, q)
  BY DEF Above
<1>3. q \in Path
  BY <1>2, RequiredPaths DEF ToCreate
<1> DEFINE o == Mkdir(in, q)
<1>4. o \in PlanOf(in)
  BY <1>2, PlanHas
<1>5. o.kind = "mkdir" /\ o.target = q /\ Id(o) = id
  BY <1>1, MkdirFields
<1> HIDE DEF o
<1>6. Section(o) = 1
  BY <1>5, SectionOf
<1>7. Len(q) < Len(p)
  BY <1>2 DEF Below
<1>8. Earlier(o, op)
  <2>1. CASE Section(op) > 1
    BY <1>6, <2>1, EarlierBySection
  <2>2. CASE op.kind = "mkdir"
    <3>1. Section(op) = 1
      BY <2>2, SectionOf
    <3> QED
      BY <1>5, <1>6, <1>7, <2>2, <3>1, EarlierByDepth
  <2> QED
    BY <2>1, <2>2
<1> QED
  BY <1>4, <1>5, <1>8

\* What empties a directory comes before its cleanup.
LEMMA CleanupsMet ==
  ASSUME NEW in, Neat(in), NEW op, NEW id \in op.deps,
         op \in Cleanups(in, ContentOf(in), Removals(in, ContentOf(in)))
  PROVE  \E o \in PlanOf(in) : Earlier(o, op) /\ Id(o) = id
<1> DEFINE content == ContentOf(in)
           removals == Removals(in, content)
           gone == { Key(r.target) : r \in removals } \cup Left(content)
           empties == removals \cup { r \in content : r.kind \in Moves }
           Frees(r, d) == Inside(IF r.kind \in Moves THEN r.prior ELSE r.target, d.path)
           within(d) == { c \in Cleaned(in, gone) : Parent(c.path) = d.path }
           made(d) ==
             [Op("cleanup", None, d.path) EXCEPT
                !.found = d.stat,
                !.deps = { Id(r) : r \in { s \in empties : Frees(s, d) } }
                         \cup { Id(Op("cleanup", None, c.path)) : c \in within(d) }]
<1>1. Cleanups(in, content, removals) = { made(d) : d \in Cleaned(in, gone) }
  BY DEF Cleanups
<1>2. PlanOf(in) = { Mkdir(in, p) : p \in ToCreate(in) } \cup content \cup removals
                   \cup Unsupported(in) \cup Cleanups(in, content, removals)
  BY DEF PlanOf, ContentOf
<1>3. \A d : /\ made(d).kind = "cleanup" /\ made(d).blocked = None /\ made(d).target = d.path
             /\ Id(made(d)) = Id(Op("cleanup", None, d.path))
             /\ \A i \in made(d).deps :
                   \/ \E r \in empties : i = Id(r)
                   \/ \E c \in within(d) : i = Id(Op("cleanup", None, c.path))
  BY DEF Op, Id
<1>4. \A c \in Cleaned(in, gone) : c.path \in Path
  BY DEF Cleaned, Neat, Sorted, Reported
<1> HIDE DEF made
<1>5. PICK d \in Cleaned(in, gone) : op = made(d)
  BY <1>1
<1>6. Section(op) = 5
  BY <1>3, <1>5, SectionOf
<1>7. ASSUME NEW r \in empties, id = Id(r)
      PROVE  r \in PlanOf(in) /\ Earlier(r, op)
  <2>1. r \in PlanOf(in)
    BY <1>2
  <2>2. r.kind # "cleanup"
    <3>1. CASE r \in removals
      <4>1. PICK t : r = [Op(IF in.opts.policy = "trash" THEN "trash" ELSE "delete", None, t.path)
                             EXCEPT !.found = t.stat]
        BY <3>1 DEF Removals
      <4>2. r.kind \in { "trash", "delete" }
        BY <4>1 DEF Op
      <4> QED
        BY <4>2
    <3>2. CASE r.kind \in Moves
      BY <3>2 DEF Moves
    <3> QED
      BY <3>1, <3>2
  <2>3. Section(r) \in 1 .. 5 /\ Section(r) # 5
    BY <2>2, SectionOf
  <2>4. Section(r) < Section(op)
    BY <1>6, <2>3
  <2> QED
    BY <2>1, <2>4, EarlierBySection
<1>8. ASSUME NEW c \in within(d), id = Id(Op("cleanup", None, c.path))
      PROVE  made(c) \in PlanOf(in) /\ Earlier(made(c), op) /\ Id(made(c)) = id
  <2>1. c \in Cleaned(in, gone) /\ Parent(c.path) = d.path /\ c.path \in Path
    BY <1>4
  <2>2. made(c) \in PlanOf(in)
    BY <1>1, <1>2, <2>1
  <2>3. Len(d.path) = Len(c.path) - 1 /\ Len(c.path) \in Nat
    BY <2>1, ParentType, PathType
  <2>4. Len(c.path) > Len(d.path)
    BY <2>3
  <2>5. Section(made(c)) = 5
    BY <1>3, SectionOf
  <2>6. Earlier(made(c), op)
    BY <1>3, <1>5, <1>6, <2>4, <2>5, EarlierByDepth
  <2> QED
    BY <1>3, <1>8, <2>2, <2>6
<1> QED
  BY <1>3, <1>5, <1>7, <1>8

LEMMA DepsMet ==
  ASSUME NEW in, Neat(in), NEW op \in PlanOf(in), NEW id \in op.deps
  PROVE  \E o \in PlanOf(in) : Earlier(o, op) /\ Id(o) = id
<1>1. CASE op.kind = "mkdir" /\ \E p \in ToCreate(in) : op = Mkdir(in, p)
  <2>1. PICK p \in ToCreate(in) : op = Mkdir(in, p)
    BY <1>1
  <2>2. op.target = p /\ op.deps = Needs(in, p)
    BY <2>1, MkdirFields
  <2>3. p \in Path
    BY RequiredPaths DEF ToCreate
  <2> QED
    BY <1>1, <2>2, <2>3, NeedsMet
<1>2. CASE op.kind \in Contents /\ \E f \in FilesOf(in, "source") : op = Content(in, f)
  <2>1. PICK f \in FilesOf(in, "source") : op = Content(in, f)
    BY <1>2
  <2>2. op.deps = Needs(in, f.path)
    BY <2>1, ContentFields
  <2>3. f.path \in Path
    BY DEF FilesOf, Neat, Sorted, Reported
  <2>4. op.kind # "mkdir"
    BY <1>2 DEF Contents, Moves
  <2>5. Section(op) \in 1 .. 5 /\ Section(op) # 1
    BY <2>4, SectionOf
  <2>6. Section(op) > 1
    BY <2>5
  <2> QED
    BY <2>2, <2>3, <2>4, <2>6, NeedsMet
<1>3. CASE op.deps = {}
  BY <1>3
<1>4. CASE op \in Cleanups(in, ContentOf(in), Removals(in, ContentOf(in)))
  BY <1>4, CleanupsMet
<1> QED
  BY <1>1, <1>2, <1>3, <1>4, PlanKinds

(***************************************************************************)
(* Whatever the scans found, Plan.__post_init__ never raises: each id of a *)
(* plan is the id of one operation, and an operation depends on operations *)
(* of the plan that come before it (modules/planner.py, core/planning.py). *)
(***************************************************************************)
THEOREM PlansAreWellFormed == Spec => []WellFormed
<1>1. ASSUME Reliable, Planned PROVE WellFormed
  <2>1. CASE phase = "scan"
    BY <1>1, <2>1 DEF Planned, WellFormed, Operations
  <2>2. CASE phase # "scan"
    <3> DEFINE in == Input(plan.opts)
    <3>1. /\ in.source = reports["source"] /\ in.target = reports["target"]
          /\ Operations = PlanOf(in)
      BY <1>1, <2>2 DEF Input, Planned, Operations
    <3>2. Neat(in)
      BY <1>1, <2>2, <3>1 DEF Reliable, Neat, Sides
    <3> HIDE DEF in
    <3> QED
      BY <3>1, <3>2, OneId, DepsMet DEF WellFormed
  <2> QED
    BY <2>1, <2>2
<1>2. Warranted => WellFormed
  BY <1>1 DEF Warranted
<1> QED
  BY <1>2, WarrantedAlways, PTL

(***************************************************************************)
(* The selection is the greatest closed part of the plan that has nothing  *)
(* blocked, quarantined or unjustified in it: derive_execution_selection   *)
(* withholds exactly what must not run, for every plan there can be.       *)
(***************************************************************************)
THEOREM SelectionGreatest == Spec => []GreatestSafe
<1>1. Sparing /\ WellFormed => GreatestSafe
  <2> SUFFICES ASSUME Sparing, WellFormed PROVE GreatestSafe
    OBVIOUS
  <2>1. \A ids \in SUBSET (Ids \ Direct) : Closed(ids) => ids \subseteq Selected
    BY DEF Sparing, Selected
  <2>2. Selected \cap Direct = {}
    BY DEF Sparing, Selected
  <2>3. ASSUME Decided, NEW op \in Operations, Id(op) \in Selected
        PROVE  op.deps \subseteq Selected
    <3>1. op.deps \cap withheld = {}
      BY <2>3 DEF Decided, Dependent, Selected
    <3>2. op.deps \subseteq Ids
      BY DEF WellFormed, Ids
    <3> QED
      BY <3>1, <3>2 DEF Selected
  <2> QED
    BY <2>1, <2>2, <2>3 DEF GreatestSafe, Closed
<1>2. Warranted => Sparing
  BY DEF Warranted
<1> QED
  BY <1>1, <1>2, WarrantedAlways, PlansAreWellFormed, PTL

-----------------------------------------------------------------------------
(***************************************************************************)
(* What a scan reports lies in directories that it reports; and while no   *)
(* other program changes anything, it reports the target as it is.         *)
(***************************************************************************)
Rooted(r) == \A p \in Reported(r) : Ancestors(p) \subseteq PathsOf(r.dirs)

RootedWalk(w) == Rooted(w) /\ \A e \in w.entries : Ancestors(e.path) \subseteq PathsOf(w.dirs)

Real(r, tree) ==
    /\ \A f \in r.files :
          /\ f.path \in DOMAIN tree /\ tree[f.path].kind = "file"
          /\ f.stat # None /\ f.stat.kind = "file"
    /\ \A d \in r.dirs : d.path \in DOMAIN tree /\ tree[d.path].kind # "file"
    /\ r.odd \subseteq DOMAIN tree

RealWalk(w, tree) ==
    Real(w, tree) /\ \A e \in w.entries : e.path \in DOMAIN tree /\ Kindred(tree, e)

Surveyed ==
    /\ walk # None => RootedWalk(walk)
    /\ walk # None /\ walk.side = "target" /\ calm => RealWalk(walk, world.target)
    /\ \A side \in Sides : reports[side] # None => Rooted(reports[side])
    /\ calm /\ reports["target"] # None => Real(reports["target"], world.target)
    /\ calm /\ phase = "scan" => disk["target"] = world.target

LEMMA ListSurveys ==
  ASSUME Sound(disk), WalkTypes(walk), Once, NEW read, NEW whole, ListDir(read, whole)
  PROVE  /\ RootedWalk(walk) => RootedWalk(walk')
         /\ RealWalk(walk, disk[walk.side]) => RealWalk(walk', disk[walk.side])
<1> DEFINE tree == disk[walk.side]
           dir == Head(Todo)
<1>1. /\ Same({ "side", "files", "dirs", "odd" })
      /\ walk'.entries = Listing(tree, read)
  BY ListFields
<1>2. /\ walk'.files = walk.files /\ walk'.dirs = walk.dirs /\ walk'.odd = walk.odd
      /\ Reported(walk') = Reported(walk)
  BY <1>1 DEF Same, Reported
<1>3. \A e \in walk'.entries : \E p \in read : e = Entry(tree, p) /\ e.path = p
  BY <1>1 DEF Listing, Entry
<1>4. \A p \in read : p \in DOMAIN tree /\ Parent(p) = dir /\ p \in Path
  BY DEF ListDir, Children, Sound, WalkTypes, IsTree
<1>5. dir \in Entered
  <2>1. Todo \in Seq(Dir) /\ Todo # <<>>
    BY TodoType DEF ListDir
  <2>2. Member(Todo, dir)
    BY <2>1, TailMembers
  <2> QED
    BY <2>2 DEF Once
<1>6. ASSUME RootedWalk(walk), NEW p \in read PROVE Ancestors(p) \subseteq PathsOf(walk.dirs)
  <2>1. p \in Path /\ Parent(p) = dir
    BY <1>4
  <2>2. CASE dir = <<>>
    <3>1. Len(p) = 1
      BY <2>1, <2>2, ParentType
    <3>2. 1 .. Len(p) - 1 = {}
      BY <3>1
    <3> QED
      BY <3>2 DEF Ancestors
  <2>3. CASE dir # <<>>
    <3>1. dir \in PathsOf(walk.dirs)
      BY <1>5, <2>3 DEF Entered
    <3>2. Ancestors(dir) \subseteq PathsOf(walk.dirs)
      BY <1>6, <3>1, ReportedPaths DEF RootedWalk, Rooted
    <3> QED
      BY <2>1, <2>3, <3>1, <3>2, AncestorsOfParent
  <2> QED
    BY <2>2, <2>3
<1>7. RootedWalk(walk) => RootedWalk(walk')
  BY <1>2, <1>3, <1>6 DEF RootedWalk, Rooted
<1>8. ASSUME RealWalk(walk, tree) PROVE RealWalk(walk', tree)
  <2>1. Real(walk', tree)
    BY <1>2, <1>8 DEF RealWalk, Real
  <2>2. \A p : Kindred(tree, Entry(tree, p))
    BY DEF Entry, Kindred
  <2>3. \A e \in walk'.entries : e.path \in DOMAIN tree /\ Kindred(tree, e)
    BY <1>3, <1>4, <2>2
  <2> QED
    BY <2>1, <2>3 DEF RealWalk
<1> QED
  BY <1>7, <1>8

LEMMA LookSurveys ==
  ASSUME Sound(disk), WalkTypes(walk), NEW e, LookAt(e)
  PROVE  /\ RootedWalk(walk) => RootedWalk(walk')
         /\ RealWalk(walk, disk[walk.side]) => RealWalk(walk', disk[walk.side])
<1> DEFINE tree == disk[walk.side]
<1>1. e \in walk.entries /\ e.path \in Path /\ walk'.entries = walk.entries \ {e}
  BY LookFields DEF LookAt, WalkTypes
<1>2. /\ \/ walk'.odd = walk.odd
         \/ walk'.odd = walk.odd \cup {e.path}
      /\ \/ walk'.dirs = walk.dirs
         \/ e.isdir /\ walk'.dirs = walk.dirs \cup { Record(e, "dir") }
      /\ \/ walk'.files = walk.files
         \/ /\ e.isfile /\ Stat(tree, e.path) # None
            /\ walk'.files = walk.files \cup { Record(e, "file") }
  BY LookFields DEF Same
<1>3. Record(e, "dir").path = e.path /\ Record(e, "file").path = e.path
  BY DEF Record
<1>4. /\ Reported(walk') \subseteq Reported(walk) \cup {e.path}
      /\ PathsOf(walk.dirs) \subseteq PathsOf(walk'.dirs)
  <2>1. PathsOf(walk'.files) \subseteq PathsOf(walk.files) \cup {e.path}
    BY <1>2, <1>3 DEF PathsOf
  <2>2. /\ PathsOf(walk'.dirs) \subseteq PathsOf(walk.dirs) \cup {e.path}
        /\ PathsOf(walk.dirs) \subseteq PathsOf(walk'.dirs)
    BY <1>2, <1>3 DEF PathsOf
  <2> QED
    BY <1>2, <2>1, <2>2, ReportedPaths
<1>5. RootedWalk(walk) => RootedWalk(walk')
  BY <1>1, <1>4 DEF RootedWalk, Rooted
<1>6. ASSUME RealWalk(walk, tree) PROVE RealWalk(walk', tree)
  <2>1. e.path \in DOMAIN tree /\ Kindred(tree, e)
    BY <1>1, <1>6 DEF RealWalk
  <2>2. e.isfile => tree[e.path].kind = "file"
    BY <2>1 DEF Kindred
  <2>3. e.isdir => tree[e.path].kind # "file"
    BY <2>1 DEF Kindred
  <2>4. e.isfile => /\ Record(e, "file").stat = Stat(tree, e.path)
                    /\ Stat(tree, e.path).kind = "file"
    <3>1. Exists(tree, e.path) /\ Actual(tree, e.path) = e.path
      BY <1>1, <2>1, ActualMeaning
    <3>2. \E i, v, n :
            Stat(tree, e.path) = [kind |-> tree[e.path].kind, id |-> i, ver |-> v, nlink |-> n]
      BY <3>1 DEF Stat
    <3> QED
      BY <2>2, <3>2 DEF Record
  <2>5. Real(walk', tree)
    BY <1>2, <1>3, <1>6, <2>1, <2>2, <2>3, <2>4 DEF RealWalk, Real
  <2> QED
    BY <1>1, <1>6, <2>5 DEF RealWalk
<1> QED
  BY <1>5, <1>6

LEMMA SurveyedInductive ==
  /\ Init => Surveyed
  /\ ScanTypes /\ Reliable /\ Surveyed /\ [Next]_vars => Surveyed'
<1>1. ASSUME Init PROVE Surveyed
  BY <1>1 DEF Init, Surveyed, Sides
<1>2. ASSUME ScanTypes, Reliable, Surveyed, [Next]_vars PROVE Surveyed'
  <2>1. CASE Scan /\ phase = "scan" /\ phase' = "scan" /\ UNCHANGED world
    <3>1. Sound(disk) /\ DOMAIN reports = Sides
      BY <1>2, <2>1 DEF ScanTypes
    <3>2. ASSUME NEW side \in Sides, StartWalk(side) PROVE Surveyed'
      <4>1. /\ walk'.files = {} /\ walk'.dirs = {} /\ walk'.odd = {} /\ walk'.entries = {}
            /\ UNCHANGED <<disk, reports, calm>>
        BY <3>2, StartFields DEF StartWalk
      <4>2. RootedWalk(walk') /\ RealWalk(walk', world.target)
        BY <4>1 DEF RootedWalk, Rooted, RealWalk, Real, Reported
      <4> QED
        BY <1>2, <2>1, <4>1, <4>2 DEF Surveyed
    <3>3. ASSUME NEW side \in Sides, NEW volume \in BOOLEAN, Offline(side, volume)
          PROVE  Surveyed'
      <4>1. /\ walk' = None /\ reports' = [reports EXCEPT ![side] = Nothing(volume)]
            /\ UNCHANGED <<disk, calm>>
        BY <3>3 DEF Offline, Due
      <4>2. Rooted(Nothing(volume)) /\ Real(Nothing(volume), world.target)
        BY DEF Rooted, Real, Reported, Nothing
      <4>3. \A s \in Sides : reports'[s] = Nothing(volume) \/ reports'[s] = reports[s]
        BY <3>1, <4>1
      <4> QED
        BY <1>2, <2>1, <4>1, <4>2, <4>3 DEF Surveyed, Sides
    <3>4. ASSUME NEW read, NEW whole, ListDir(read, whole) PROVE Surveyed'
      <4>1. walk # None /\ UNCHANGED <<disk, reports, calm>>
        BY <3>4 DEF ListDir
      <4>2. WalkTypes(walk) /\ Once
        BY <1>2, <4>1 DEF ScanTypes, Reliable
      <4>3. /\ RootedWalk(walk) => RootedWalk(walk')
            /\ RealWalk(walk, disk[walk.side]) => RealWalk(walk', disk[walk.side])
            /\ walk'.side = walk.side
        BY <3>1, <3>4, <4>2, ListSurveys, ListFields DEF Same
      <4> QED
        BY <1>2, <2>1, <4>1, <4>3 DEF Surveyed
    <3>5. ASSUME NEW e, LookAt(e) PROVE Surveyed'
      <4>1. walk # None /\ UNCHANGED <<disk, reports, calm>>
        BY <3>5 DEF LookAt
      <4>2. WalkTypes(walk)
        BY <1>2, <4>1 DEF ScanTypes
      <4>3. /\ RootedWalk(walk) => RootedWalk(walk')
            /\ RealWalk(walk, disk[walk.side]) => RealWalk(walk', disk[walk.side])
            /\ walk'.side = walk.side
        BY <3>1, <3>5, <4>2, LookSurveys, LookFields DEF Same
      <4> QED
        BY <1>2, <2>1, <4>1, <4>3 DEF Surveyed
    <3>6. CASE EndWalk
      <4> DEFINE r == Report([walk EXCEPT !.complete = @ /\ ~ Collides(walk)])
      <4>1. /\ walk # None /\ walk' = None /\ UNCHANGED <<disk, calm>>
            /\ reports' = [reports EXCEPT ![walk.side] = r]
        BY <3>6 DEF EndWalk
      <4>2. DOMAIN walk = Fields
        BY <1>2, <4>1 DEF ScanTypes, WalkTypes
      <4>3. r.files = walk.files /\ r.dirs = walk.dirs /\ r.odd = walk.odd
        BY <4>2 DEF Report, Fields
      <4> HIDE DEF r
      <4>4. /\ Rooted(walk) => Rooted(r)
            /\ Real(walk, world.target) => Real(r, world.target)
        BY <4>3 DEF Rooted, Real, Reported
      <4>5. \A s \in Sides : IF s = walk.side THEN reports'[s] = r ELSE reports'[s] = reports[s]
        BY <3>1, <4>1
      <4> QED
        BY <1>2, <2>1, <4>1, <4>4, <4>5 DEF Surveyed, RootedWalk, RealWalk, Sides
    <3> QED
      BY <2>1, <3>2, <3>3, <3>4, <3>5, <3>6, ScanSteps
  <2>2. CASE Drift
    <3>1. UNCHANGED <<walk, reports>> /\ calm' = FALSE
      BY <2>2, DriftAlters DEF Alter
    <3> QED
      BY <1>2, <3>1 DEF Surveyed
  <2>3. CASE Afterwards /\ UNCHANGED world
    <3>1. walk' = None /\ UNCHANGED reports /\ phase' # "scan"
      BY <1>2, <2>3 DEF Afterwards, ScanTypes, WalkTypes
    <3>2. calm' => calm
      BY <1>2, DriftAlters
         DEF Next, vars, scanVars, Scan, StartWalk, Offline, List, Look, EndWalk, Alter,
             MakePlan, Exclude, SelectionMade, Review, Commit, Begin, Judge, Execute, Pause,
             Finish
    <3> QED
      BY <1>2, <2>3, <3>1, <3>2 DEF Surveyed
  <2>4. CASE UNCHANGED vars
    BY <1>2, <2>4 DEF vars, scanVars, Surveyed
  <2> QED
    BY <1>2, <2>1, <2>2, <2>3, <2>4, StepKinds
<1> QED
  BY <1>1, <1>2

-----------------------------------------------------------------------------
(***************************************************************************)
(* A tree whose keys are told apart, with a directory above every entry;   *)
(* what an operation on one path does to it.                               *)
(***************************************************************************)
Directory(tree, r) == \E s \in DOMAIN tree : Key(s) = Key(r) /\ tree[s].kind = "dir"

Tidy(tree) ==
    /\ Shaped(tree) /\ DOMAIN tree \subseteq Path
    /\ \A p, q \in DOMAIN tree : Key(p) = Key(q) => p = q
    /\ \A p \in DOMAIN tree, r \in Path : Below(p, r) => Directory(tree, r)

\* Everything but the entry at r is left: files as they are.
Leaves(tree, new, r) ==
    \A p \in DOMAIN tree : Key(p) # Key(r) =>
        /\ p \in DOMAIN new
        /\ new[p].kind = tree[p].kind /\ new[p].id = tree[p].id
        /\ tree[p].kind = "file" => new[p] = tree[p]

Clear(tree, r) == \A p \in DOMAIN tree : ~ Below(p, r)

Stands(tree, r) == Parent(r) = <<>> \/ Directory(tree, Parent(r))

LEMMA BelowLike ==
  ASSUME NEW p \in Path, NEW q \in Path, Key(p) = Key(q)
  PROVE  /\ \A r : Below(p, r) <=> Below(q, r)
         /\ \A r \in Path : Below(r, p) => Key(r) # Key(p) /\ Below(r, q)
<1>1. Len(p) = Len(q) /\ \A r : Inside(p, r) <=> Inside(q, r)
  BY InsideLike, KeyEqual
<1>2. \A r : Below(p, r) <=> Below(q, r)
  BY <1>1 DEF Below
<1>3. ASSUME NEW r \in Path, Below(r, p) PROVE Key(r) # Key(p) /\ Below(r, q)
  <2>1. Len(p) \in Nat /\ Len(r) \in Nat /\ Len(p) < Len(r)
    BY <1>3, PathType DEF Below
  <2>2. Key(r) # Key(p)
    BY <2>1, KeyEqual
  <2>3. Inside(r, q)
    BY <1>1, <1>3 DEF Below, Inside
  <2> QED
    BY <1>1, <2>1, <2>2, <2>3 DEF Below
<1> QED
  BY <1>2, <1>3

\* What is above a path is above its parent or is its parent.
LEMMA BelowParent ==
  ASSUME NEW p \in Path, NEW r \in Path, Below(p, r)
  PROVE  /\ Parent(p) # <<>> /\ Parent(p) \in Path
         /\ Key(r) = Key(Parent(p)) \/ Below(Parent(p), r)
         /\ \E s \in Ancestors(p) : s \in Path /\ Key(s) = Key(r)
<1>1. Len(p) \in Nat /\ Len(r) \in Nat /\ Len(r) >= 1
  BY PathType
<1>2. Len(r) < Len(p) /\ \A i \in 1 .. Len(r) : NameKey[p[i]] = NameKey[r[i]]
  BY InsideMeaning DEF Below
<1>3. Parent(p) # <<>> /\ Len(Parent(p)) = Len(p) - 1
  BY <1>1, <1>2, ParentType
<1>4. /\ Parent(p) \in Path
      /\ \A i \in 1 .. Len(Parent(p)) : Parent(p)[i] = p[i]
  BY <1>3, ParentType, AncestorType
<1>5. \A i \in 1 .. Len(r) : i \in 1 .. Len(Parent(p))
  BY <1>1, <1>2, <1>3
<1>6. Inside(Parent(p), r)
  <2>1. Len(r) <= Len(Parent(p))
    BY <1>1, <1>2, <1>3
  <2>2. \A i \in 1 .. Len(r) : NameKey[Parent(p)[i]] = NameKey[r[i]]
    BY <1>2, <1>4, <1>5
  <2> QED
    BY <1>4, <2>1, <2>2, InsideMeaning
<1>7. CASE Len(r) < Len(Parent(p))
  <2>1. Below(Parent(p), r)
    BY <1>6, <1>7 DEF Below
  <2> DEFINE s == SubSeq(p, 1, Len(r))
  <2>2. Len(r) \in 0 .. Len(p) /\ Len(r) \in 1 .. Len(p) - 1
    BY <1>1, <1>2
  <2>3. s \in Path /\ Len(s) = Len(r) /\ \A i \in 1 .. Len(r) : s[i] = p[i]
    BY <1>1, <2>2, PrefixType
  <2>4. s \in Ancestors(p)
    BY <2>2 DEF Ancestors
  <2> HIDE DEF s
  <2>5. Key(s) = Key(r)
    BY <1>2, <2>3, KeyEqual
  <2> QED
    BY <1>3, <1>4, <2>1, <2>3, <2>4, <2>5
<1>8. CASE ~ Len(r) < Len(Parent(p))
  <2>1. Len(r) = Len(Parent(p))
    BY <1>1, <1>2, <1>3, <1>8
  <2>2. Key(r) = Key(Parent(p))
    BY <1>2, <1>4, <1>5, <2>1, KeyEqual
  <2>3. Parent(p) \in Ancestors(p)
    BY <1>3, ParentType
  <2> QED
    BY <1>3, <1>4, <2>2, <2>3
<1> QED
  BY <1>7, <1>8

LEMMA TreesAreTidy ==
  ASSUME NEW tree, IsTree(tree), \A p, q \in DOMAIN tree : Key(p) = Key(q) => p = q
  PROVE  Tidy(tree)
<1>1. ASSUME NEW p \in DOMAIN tree, NEW r \in Path, Below(p, r) PROVE Directory(tree, r)
  <2>1. p \in Path /\ Placed(tree, p)
    BY DEF IsTree
  <2>2. PICK s \in Ancestors(p) : Key(s) = Key(r)
    BY <1>1, <2>1, BelowParent
  <2> QED
    BY <2>1, <2>2 DEF Placed, Directory
<1> QED
  BY <1>1 DEF Tidy, Shaped, IsTree

\* The entry of a key is the one a path of that key leads to.
LEMMA TheEntry ==
  ASSUME NEW tree, Tidy(tree), NEW p, NEW q \in DOMAIN tree, Key(q) = Key(p)
  PROVE  Exists(tree, p) /\ Actual(tree, p) = q
<1>1. Exists(tree, p) /\ Key(Actual(tree, p)) = Key(p)
  BY ActualMeaning
<1>2. Actual(tree, p) \in DOMAIN tree
  BY <1>1 DEF Exists
<1> QED
  BY <1>1, <1>2 DEF Tidy

LEMMA NothingBelow ==
  ASSUME NEW tree, Tidy(tree), NEW r \in Path,
         ~ Exists(tree, r) \/ tree[Actual(tree, r)].kind # "dir"
  PROVE  Clear(tree, r)
<1> SUFFICES ASSUME NEW p \in DOMAIN tree, Below(p, r) PROVE FALSE
  BY DEF Clear
<1>1. PICK s \in DOMAIN tree : Key(s) = Key(r) /\ tree[s].kind = "dir"
  BY DEF Tidy, Directory
<1> QED
  BY <1>1, TheEntry

LEMMA EntryStands ==
  ASSUME NEW tree, Tidy(tree), NEW r \in Path, Exists(tree, r)
  PROVE  Stands(tree, r)
<1> SUFFICES ASSUME Parent(r) # <<>> PROVE Directory(tree, Parent(r))
  BY DEF Stands
<1>1. PICK a \in DOMAIN tree : Key(a) = Key(r)
  BY ActualMeaning
<1>2. Parent(r) \in Path /\ Below(r, Parent(r))
  BY ParentType, AncestorType, AncestorBelow
<1>3. Below(a, Parent(r))
  BY <1>1, <1>2, BelowLike DEF Tidy
<1> QED
  BY <1>2, <1>3 DEF Tidy

\* The entry whose time changes with a path is a directory.
LEMMA TouchesDirectory ==
  ASSUME NEW tree, Tidy(tree), NEW r \in Path, Stands(tree, r), NEW q \in DOMAIN tree,
         tree[q].kind # "dir"
  PROVE  q # Actual(tree, Parent(r))
<1> SUFFICES ASSUME q = Actual(tree, Parent(r)) PROVE FALSE
  OBVIOUS
<1>1. Exists(tree, Parent(r))
  BY DEF Exists
<1>2. Key(q) = Key(Parent(r))
  BY <1>1, ActualMeaning
<1>3. CASE Parent(r) = <<>>
  <2>1. DOMAIN Key(q) = DOMAIN q /\ DOMAIN Key(<<>>) = {}
    BY DEF Key
  <2>2. q \in Path
    BY DEF Tidy
  <2>3. 1 \in DOMAIN q
    BY <2>2, PathType
  <2> QED
    BY <1>2, <1>3, <2>1, <2>3
<1>4. CASE Directory(tree, Parent(r))
  BY <1>2, <1>4 DEF Directory, Tidy
<1> QED
  BY <1>3, <1>4 DEF Stands

LEMMA WithoutTidy ==
  ASSUME NEW tree, Tidy(tree), NEW r \in Path, Exists(tree, r), Clear(tree, r)
  PROVE  /\ Tidy(Without(tree, r)) /\ Leaves(tree, Without(tree, r), r)
         /\ \A p \in DOMAIN Without(tree, r) : p \in DOMAIN tree /\ Key(p) # Key(r)
<1> DEFINE new == Without(tree, r)
           a == Actual(tree, r)
<1>1. /\ DOMAIN new = DOMAIN tree \ {a} /\ Shaped(new) /\ Spares(tree, new, r)
  BY WithoutSpares DEF Tidy
<1>2. a \in DOMAIN tree /\ Key(a) = Key(r)
  BY ActualMeaning DEF Exists
<1> HIDE DEF new, a
<1>3. \A p \in DOMAIN tree : Key(p) = Key(r) => p = a
  BY <1>2 DEF Tidy
<1>4. \A p \in DOMAIN new : p \in DOMAIN tree /\ Key(p) # Key(r)
  BY <1>1, <1>3
<1>5. \A p \in DOMAIN tree : tree[p].kind = "file" => p # Actual(tree, Parent(r))
  BY EntryStands, TouchesDirectory
<1>6. Leaves(tree, new, r)
  BY <1>1, <1>2, <1>5 DEF Leaves, Spares
<1>7. ASSUME NEW p \in DOMAIN new, NEW s \in Path, Below(p, s) PROVE Directory(new, s)
  <2>1. PICK d \in DOMAIN tree : Key(d) = Key(s) /\ tree[d].kind = "dir"
    BY <1>4, <1>7 DEF Tidy, Directory
  <2>2. Key(s) # Key(r)
    <3> SUFFICES ASSUME Key(s) = Key(r) PROVE FALSE
      OBVIOUS
    <3>1. p \in Path /\ Below(p, r)
      BY <1>4, <1>7, BelowLike DEF Tidy
    <3> QED
      BY <1>4, <3>1 DEF Clear
  <2>3. d \in DOMAIN new /\ new[d].kind = "dir"
    BY <1>6, <2>1, <2>2 DEF Leaves
  <2> QED
    BY <2>1, <2>3 DEF Directory
<1>8. Tidy(new)
  BY <1>1, <1>4, <1>7 DEF Tidy
<1> QED
  BY <1>4, <1>6, <1>8 DEF new

LEMMA WithTidy ==
  ASSUME NEW tree, Tidy(tree), NEW r \in Path, Stands(tree, r), Clear(tree, r),
         NEW entry, DOMAIN entry = { "kind", "id", "ver" }
  PROVE  Tidy(With(tree, r, entry)) /\ Leaves(tree, With(tree, r, entry), r)
<1> DEFINE new == With(tree, r, entry)
           a == Actual(tree, r)
<1>1. Puts(tree, new, r, entry)
  BY WithSpares DEF Tidy
<1>2. a \in DOMAIN tree => Key(a) = Key(r)
  BY ActualMeaning DEF Exists
<1>3. \A p \in DOMAIN tree : Key(p) = Key(r) => p = a
  BY TheEntry
<1> HIDE DEF new, a
<1>4. /\ DOMAIN new = (DOMAIN tree \ {a}) \cup {r} /\ Shaped(new)
      /\ \A q \in DOMAIN new \ {r} :
            /\ new[q].kind = tree[q].kind /\ new[q].id = tree[q].id
            /\ q # Actual(tree, Parent(r)) => new[q] = tree[q]
  BY <1>1 DEF Puts, a
<1>5. \A p \in DOMAIN tree : tree[p].kind = "file" => p # Actual(tree, Parent(r))
  BY TouchesDirectory
<1>6. Leaves(tree, new, r)
  <2> SUFFICES ASSUME NEW p \in DOMAIN tree, Key(p) # Key(r)
               PROVE  /\ p \in DOMAIN new
                      /\ new[p].kind = tree[p].kind /\ new[p].id = tree[p].id
                      /\ tree[p].kind = "file" => new[p] = tree[p]
    BY DEF Leaves
  <2>1. p # a /\ p # r
    BY <1>2
  <2> QED
    BY <1>4, <1>5, <2>1
<1>7. DOMAIN new \subseteq Path
  BY <1>4 DEF Tidy
<1>8. \A p, q \in DOMAIN new : Key(p) = Key(q) => p = q
  BY <1>3, <1>4 DEF Tidy
<1>9. ASSUME NEW s \in Path, Key(s) # Key(r), Directory(tree, s) PROVE Directory(new, s)
  BY <1>6, <1>9 DEF Leaves, Directory
<1>10. ASSUME NEW p \in DOMAIN new, NEW s \in Path, Below(p, s) PROVE Directory(new, s)
  <2>1. CASE p = r
    <3>1. /\ Parent(r) # <<>> /\ Parent(r) \in Path
          /\ Key(s) = Key(Parent(r)) \/ Below(Parent(r), s)
      BY <1>10, <2>1, BelowParent
    <3>2. PICK d \in DOMAIN tree : Key(d) = Key(Parent(r)) /\ tree[d].kind = "dir"
      BY <3>1 DEF Stands, Directory
    <3>3. Directory(tree, s)
      <4>1. CASE Key(s) = Key(Parent(r))
        BY <3>2, <4>1 DEF Directory
      <4>2. CASE Below(Parent(r), s)
        <5>1. d \in Path /\ Below(d, s)
          BY <3>1, <3>2, <4>2, BelowLike DEF Tidy
        <5> QED
          BY <5>1 DEF Tidy
      <4> QED
        BY <3>1, <4>1, <4>2
    <3>4. Key(s) # Key(r)
      BY <1>10, <2>1, BelowLike
    <3> QED
      BY <1>9, <3>3, <3>4
  <2>2. CASE p # r
    <3>1. p \in DOMAIN tree /\ p \in Path
      BY <1>4, <1>7, <2>2
    <3>2. Directory(tree, s)
      BY <1>10, <3>1 DEF Tidy
    <3>3. Key(s) # Key(r)
      BY <1>10, <3>1, BelowLike DEF Clear
    <3> QED
      BY <1>9, <3>2, <3>3
  <2> QED
    BY <2>1, <2>2
<1>11. Tidy(new)
  BY <1>4, <1>7, <1>8, <1>10 DEF Tidy
<1> QED
  BY <1>6, <1>11 DEF new

\* A file that is moved, to a free place or to another spelling of its own.
LEMMA ShiftTidy ==
  ASSUME NEW tree, Tidy(tree), NEW r \in Path, Exists(tree, r),
         tree[Actual(tree, r)].kind = "file",
         NEW p \in Path, Stands(tree, p), ~ Exists(tree, p) \/ Key(p) = Key(r),
         NEW entry, DOMAIN entry = { "kind", "id", "ver" }
  PROVE  /\ Tidy(With(Without(tree, r), p, entry))
         /\ Leaves(tree, With(Without(tree, r), p, entry), r)
<1> DEFINE less == Without(tree, r)
           new == With(less, p, entry)
<1>1. Clear(tree, r)
  BY NothingBelow
<1>2. /\ Tidy(less) /\ Leaves(tree, less, r)
      /\ \A q \in DOMAIN less : q \in DOMAIN tree /\ Key(q) # Key(r)
  BY <1>1, WithoutTidy
<1> HIDE DEF less
<1>3. Stands(less, p)
  <2> SUFFICES ASSUME Parent(p) # <<>> PROVE Directory(less, Parent(p))
    BY DEF Stands
  <2>1. PICK d \in DOMAIN tree : Key(d) = Key(Parent(p)) /\ tree[d].kind = "dir"
    BY DEF Stands, Directory
  <2>2. Key(d) # Key(r)
    BY <2>1, TheEntry
  <2> QED
    BY <1>2, <2>1, <2>2 DEF Leaves, Directory
<1>4. Clear(less, p)
  <2>1. CASE ~ Exists(tree, p)
    <3>1. Clear(tree, p)
      BY <2>1, NothingBelow
    <3> QED
      BY <1>2, <3>1 DEF Clear
  <2>2. CASE Key(p) = Key(r)
    <3>1. \A q \in DOMAIN tree : Below(q, p) => Below(q, r)
      BY <2>2, BelowLike DEF Tidy
    <3> QED
      BY <1>1, <1>2, <3>1 DEF Clear
  <2> QED
    BY <2>1, <2>2
<1>5. Tidy(new) /\ Leaves(less, new, p)
  BY <1>2, <1>3, <1>4, WithTidy
<1> HIDE DEF new
<1>6. ASSUME NEW q \in DOMAIN tree, Key(q) # Key(r)
      PROVE  /\ q \in DOMAIN new
             /\ new[q].kind = tree[q].kind /\ new[q].id = tree[q].id
             /\ tree[q].kind = "file" => new[q] = tree[q]
  <2>1. Key(q) # Key(p)
    BY <1>6, ActualMeaning
  <2>2. /\ q \in DOMAIN less /\ less[q].kind = tree[q].kind /\ less[q].id = tree[q].id
        /\ tree[q].kind = "file" => less[q] = tree[q]
    BY <1>2, <1>6 DEF Leaves
  <2> QED
    BY <1>5, <2>1, <2>2 DEF Leaves
<1> QED
  BY <1>5, <1>6 DEF Leaves, new, less

-----------------------------------------------------------------------------
(***************************************************************************)
(* What an operation acts on: an entry that the scan of the target found.  *)
(***************************************************************************)
Hits(in, r, stat) == \E t \in FilesOf(in, "target") : Key(t.path) = Key(r) /\ stat = t.stat

Founded(in, op) ==
    /\ op.target \in Path
    /\ op.kind \in { "update", "trash", "delete" } => Hits(in, op.target, op.found)
    /\ op.kind \in Moves \cup { "recase" } => op.prior \in Path /\ Hits(in, op.prior, op.old)
    /\ op.kind = "recase" => Key(op.target) = Key(op.prior)
    /\ op.kind = "cleanup" =>
          \E d \in in.target.dirs : op.target = d.path /\ ~ Excludes(in.opts, d.path)

LEMMA ContentFounded ==
  ASSUME NEW in, Neat(in), \A pair \in in.pairs : pair.target \in Path,
         NEW f \in FilesOf(in, "source")
  PROVE  Founded(in, Content(in, f))
<1> DEFINE op == Content(in, f)
           deps == Needs(in, f.path)
<1>1. f.path \in Path /\ \A t \in FilesOf(in, "target") : t.path \in Path
  BY DEF FilesOf, Neat, Sorted, Reported
<1>2. CASE op.kind = "copy"
  <2>1. op.target = f.path
    BY <1>2, ContentFields
  <2> HIDE DEF op
  <2> QED
    BY <1>1, <1>2, <2>1 DEF Founded, Moves, op
<1>3. CASE Conflict(in, f) = None /\ Matches(in, f) # {}
  <2> DEFINE m == The(Matches(in, f))
             recased == Append(Parent(m.path), f.path[Len(f.path)])
             respelled == in.opts.casing /\ Key(m.path) = Key(f.path) /\ recased # m.path
             kind == IF ~ (m.stat.ver = f.stat.ver) THEN "update"
                     ELSE IF respelled THEN "recase" ELSE "noop"
  <2>1. op = [Matched(in, f) EXCEPT !.deps = deps]
    BY <1>3 DEF Content
  <2>2. /\ op.kind = kind /\ op.target = (IF respelled THEN recased ELSE m.path)
        /\ op.found = m.stat
        /\ kind = "recase" => op.prior = m.path /\ op.old = m.stat
    BY <2>1 DEF Matched, Reading, Op
  <2>3. m \in FilesOf(in, "target")
    BY <1>3, FirstOf DEF Matches, At, Twins
  <2>4. m.path \in Path
    BY <1>1, <2>3
  <2>5. respelled => recased \in Path /\ Key(recased) = Key(m.path)
    BY <1>1, <2>4, RecasedKey
  <2> HIDE DEF op, m, recased
  <2>6. op.target \in Path /\ Key(op.target) = Key(m.path)
    BY <2>2, <2>4, <2>5
  <2>7. kind \in { "update", "recase", "noop" }
    OBVIOUS
  <2> HIDE DEF kind, respelled
  <2>8. /\ kind = "update" => Hits(in, op.target, op.found)
        /\ kind = "recase" => op.prior \in Path /\ Hits(in, op.prior, op.old)
                              /\ Key(op.target) = Key(op.prior)
    BY <2>2, <2>3, <2>4, <2>6 DEF Hits
  <2> QED
    BY <2>2, <2>6, <2>7, <2>8 DEF Founded, Moves, op
<1>4. CASE Conflict(in, f) = None /\ Matches(in, f) = {} /\ Movable(in, f) # {}
  <2> DEFINE t == The(Movable(in, f))
             pair == The(Known(in, f))
             kind == IF t.stat.ver = f.stat.ver THEN "move" ELSE "move_update"
  <2>1. op = [Moved(in, f) EXCEPT !.deps = deps]
    BY <1>4 DEF Content
  <2>2. op.kind = kind /\ op.target = f.path /\ op.prior = pair.target /\ op.old = t.stat
    BY <2>1 DEF Moved, Reading, Op
  <2>3. kind \in { "move", "move_update" }
    OBVIOUS
  <2>4. t \in Movable(in, f)
    BY <1>4, FirstOf
  <2>5. t \in FilesOf(in, "target") /\ Key(t.path) = Key(pair.target) /\ One(Known(in, f))
    BY <1>4, <2>4 DEF Movable, At
  <2>6. pair.target \in Path
    <3>1. Known(in, f) # {}
      BY <2>5, FS_EmptySet DEF One
    <3> QED
      BY <3>1, FirstOf DEF Known
  <2> HIDE DEF op, t, pair, kind
  <2>7. Hits(in, op.prior, op.old)
    BY <2>2, <2>5 DEF Hits
  <2> QED
    BY <1>1, <2>2, <2>3, <2>6, <2>7 DEF Founded, op
<1>5. CASE Conflict(in, f) # None \/ (Matches(in, f) = {} /\ Movable(in, f) = {})
  <2>1. op.kind = "copy"
    <3>1. CASE Conflict(in, f) # None
      BY <3>1, ContentKinds
    <3>2. CASE Conflict(in, f) = None /\ Matches(in, f) = {} /\ Movable(in, f) = {}
      <4>1. op = [Reading(Op("copy", f.path, f.path), f) EXCEPT !.deps = deps]
        BY <3>2 DEF Content
      <4> QED
        BY <4>1 DEF Reading, Op
    <3> QED
      BY <1>5, <3>1, <3>2
  <2> QED
    BY <1>2, <2>1
<1> QED
  BY <1>3, <1>4, <1>5

LEMMA PlanFounded ==
  ASSUME NEW in, Neat(in), \A pair \in in.pairs : pair.target \in Path,
         NEW op \in PlanOf(in)
  PROVE  Founded(in, op)
<1> DEFINE content == ContentOf(in)
           removals == Removals(in, content)
<1>1. /\ \A t \in FilesOf(in, "target") : t.path \in Path
      /\ \A d \in in.target.dirs : d.path \in Path
      /\ \A p \in in.source.odd \cup in.target.odd : p \in Path
  BY DEF FilesOf, Neat, Sorted, Reported
<1>2. CASE op.kind = "mkdir" /\ \E p \in ToCreate(in) : op = Mkdir(in, p)
  <2>1. op.target \in Path
    BY <1>2, MkdirFields, RequiredPaths DEF ToCreate
  <2> QED
    BY <1>2, <2>1 DEF Founded, Moves
<1>3. CASE \E f \in FilesOf(in, "source") : op = Content(in, f)
  BY <1>3, ContentFounded
<1>4. CASE op \in removals /\ op.kind \in { "trash", "delete" }
  <2>1. PICK t \in FilesOf(in, "target") :
            op = [Op(IF in.opts.policy = "trash" THEN "trash" ELSE "delete", None, t.path)
                        EXCEPT !.found = t.stat]
    BY <1>4 DEF Removals
  <2>2. op.target = t.path /\ op.found = t.stat
    BY <2>1 DEF Op
  <2>3. op.target \in Path /\ Hits(in, op.target, op.found)
    BY <1>1, <2>2 DEF Hits
  <2> QED
    BY <1>4, <2>3 DEF Founded, Moves
<1>5. CASE op.kind = "noop" /\ op \in Unsupported(in)
  <2>1. op.target \in Path
    BY <1>1, <1>5 DEF Unsupported, Op
  <2> QED
    BY <1>5, <2>1 DEF Founded, Moves
<1>6. CASE op.kind = "cleanup" /\ op \in Cleanups(in, content, removals)
  <2> DEFINE gone == { Key(o.target) : o \in removals } \cup Left(content)
  <2>1. PICK d \in Cleaned(in, gone) : op.target = d.path
    BY <1>6 DEF Cleanups, Op
  <2>2. PICK cleaned \in SUBSET in.target.dirs :
            d \in cleaned /\ Emptied(in, gone, cleaned, d)
    BY <2>1 DEF Cleaned
  <2>3. d \in in.target.dirs /\ ~ Excludes(in.opts, d.path)
    BY <2>2 DEF Emptied
  <2> QED
    BY <1>1, <1>6, <2>1, <2>3 DEF Founded, Moves
<1> QED
  BY <1>2, <1>3, <1>4, <1>5, <1>6, PlanKinds

-----------------------------------------------------------------------------
(***************************************************************************)
(* The places whose entry an operation replaces or takes away; every other *)
(* entry stays.                                                            *)
(***************************************************************************)
Struck(op) ==
    IF op.kind \in { "update", "trash", "delete", "cleanup" } THEN { op.target }
    ELSE IF op.kind \in Moves \cup { "recase" } THEN { op.prior }
    ELSE {}

Whole(tree, new, p) ==
    /\ p \in DOMAIN new
    /\ new[p].kind = tree[p].kind /\ new[p].id = tree[p].id
    /\ tree[p].kind = "file" => new[p] = tree[p]

Confined(tree, new, op) ==
    \A p \in DOMAIN tree : (\A r \in Struck(op) : Key(p) # Key(r)) => Whole(tree, new, p)

Kinds == { "mkdir", "trash", "delete", "cleanup" } \cup Contents

\* What a scan of the target reports about a file says that it is one.
FilesRead(in) ==
    \A t \in FilesOf(in, "target") : t.stat # None /\ t.stat.kind = "file"

LEMMA LeavesConfined ==
  ASSUME NEW tree, NEW new, NEW r, Leaves(tree, new, r), NEW op,
         r \in Struck(op) \/ \A p \in DOMAIN tree : Key(p) # Key(r)
  PROVE  Confined(tree, new, op)
BY DEF Leaves, Confined, Whole

LEMMA FreeStands ==
  ASSUME NEW p \in Path, Free(p)
  PROVE  ~ Exists(disk["target"], p) /\ Stands(disk["target"], p)
<1> DEFINE tree == disk["target"]
           d == Parent(p)
<1>1. ~ Exists(tree, p) /\ (d = <<>> \/ (Exists(tree, d) /\ Stat(tree, d).kind = "dir"))
  BY DEF Free, IsDirectory
<1>2. ASSUME Exists(tree, d), Stat(tree, d).kind = "dir"
      PROVE  Directory(tree, d)
  <2>1. tree[Actual(tree, d)].kind = "dir"
    BY <1>2 DEF Stat
  <2>2. Actual(tree, d) \in DOMAIN tree /\ Key(Actual(tree, d)) = Key(d)
    BY <1>2, ActualMeaning DEF Exists
  <2> QED
    BY <2>1, <2>2 DEF Directory
<1> QED
  BY <1>1, <1>2 DEF Stands

LEMMA HitIsFile ==
  ASSUME NEW in, FilesRead(in), NEW r, NEW stat, Hits(in, r, stat), Agrees("target", r, stat)
  PROVE  Exists(disk["target"], r) /\ disk["target"][Actual(disk["target"], r)].kind = "file"
<1> DEFINE tree == disk["target"]
<1>1. stat # None /\ stat.kind = "file" /\ Stat(tree, r) = stat
  BY DEF Hits, FilesRead, Agrees
<1>2. Exists(tree, r)
  BY <1>1 DEF Stat
<1> QED
  BY <1>1, <1>2 DEF Stat

LEMMA EffectConfined ==
  ASSUME Tidy(disk["target"]), NEW in, FilesRead(in), NEW op, Founded(in, op),
         op.kind \in Kinds, Feasible(op)
  PROVE  Tidy(Effect(op)) /\ Confined(disk["target"], Effect(op), op)
<1> DEFINE tree == disk["target"]
           written == Written(op)
<1>1. op.target \in Path /\ DOMAIN written = { "kind", "id", "ver" }
  BY DEF Founded, Written
<1>2. CASE op.kind \in { "mkdir", "copy" }
  <2>1. Effect(op) = With(tree, op.target, written)
    BY <1>2 DEF Effect
  <2>2. Free(op.target)
    BY <1>2 DEF Feasible
  <2>3. ~ Exists(tree, op.target) /\ Stands(tree, op.target)
    BY <1>1, <2>2, FreeStands
  <2>4. Clear(tree, op.target) /\ \A p \in DOMAIN tree : Key(p) # Key(op.target)
    BY <1>1, <2>3, NothingBelow, ActualMeaning
  <2> HIDE DEF tree, written
  <2>5. Tidy(With(tree, op.target, written)) /\ Leaves(tree, With(tree, op.target, written), op.target)
    BY <1>1, <2>3, <2>4, WithTidy DEF tree
  <2> QED
    BY <2>1, <2>4, <2>5, LeavesConfined DEF tree
<1>3. CASE op.kind = "update"
  <2>1. Effect(op) = With(tree, op.target, written)
    BY <1>3 DEF Effect
  <2>2. Agrees("target", op.target, op.found) /\ Hits(in, op.target, op.found)
    BY <1>3 DEF Feasible, Founded, Moves
  <2>3. Exists(tree, op.target) /\ tree[Actual(tree, op.target)].kind = "file"
    BY <2>2, HitIsFile
  <2>4. Clear(tree, op.target) /\ Stands(tree, op.target)
    BY <1>1, <2>3, NothingBelow, EntryStands
  <2>5. op.target \in Struck(op)
    BY <1>3 DEF Struck
  <2> HIDE DEF tree, written
  <2>6. Tidy(With(tree, op.target, written)) /\ Leaves(tree, With(tree, op.target, written), op.target)
    BY <1>1, <2>4, WithTidy DEF tree
  <2> QED
    BY <2>1, <2>5, <2>6, LeavesConfined DEF tree
<1>4. CASE op.kind = "noop"
  <2>1. Effect(op) = tree
    BY <1>4 DEF Effect
  <2> QED
    BY <2>1 DEF Confined, Whole
<1>5. CASE op.kind \in { "trash", "delete", "cleanup" }
  <2>1. Effect(op) = Without(tree, op.target)
    BY <1>5 DEF Effect
  <2>2. ASSUME op.kind \in { "trash", "delete" }
        PROVE  Exists(tree, op.target) /\ Clear(tree, op.target)
    <3>1. Agrees("target", op.target, op.found) /\ Hits(in, op.target, op.found)
      BY <2>2 DEF Feasible, Founded, Moves
    <3>2. Exists(tree, op.target) /\ tree[Actual(tree, op.target)].kind = "file"
      BY <3>1, HitIsFile
    <3> QED
      BY <1>1, <3>2, NothingBelow
  <2>3. ASSUME op.kind = "cleanup"
        PROVE  Exists(tree, op.target) /\ Clear(tree, op.target)
    BY <2>3 DEF Feasible, Clear, Moves
  <2>4. Exists(tree, op.target) /\ Clear(tree, op.target)
    BY <1>5, <2>2, <2>3
  <2>5. op.target \in Struck(op)
    BY <1>5 DEF Struck
  <2> HIDE DEF tree
  <2>6. Tidy(Without(tree, op.target)) /\ Leaves(tree, Without(tree, op.target), op.target)
    BY <1>1, <2>4, WithoutTidy DEF tree
  <2> QED
    BY <2>1, <2>5, <2>6, LeavesConfined DEF tree
<1>6. CASE op.kind \in Moves \cup { "recase" }
  <2> DEFINE old == tree[Actual(tree, op.prior)]
             entry == IF op.kind = "move_update" THEN written ELSE old
  <2>1. op.prior \in Path /\ Hits(in, op.prior, op.old)
    BY <1>6 DEF Founded
  <2>2. Agrees("target", op.prior, op.old)
    BY <1>6 DEF Feasible, Moves
  <2>3. Exists(tree, op.prior) /\ tree[Actual(tree, op.prior)].kind = "file"
    BY <2>1, <2>2, HitIsFile
  <2>4. DOMAIN old = { "kind", "id", "ver" }
    BY <2>3 DEF Exists, Tidy, Shaped
  <2>5. Effect(op) = With(Without(tree, op.prior), op.target, entry)
    BY <1>6, <2>1, NoneAssumption DEF Effect, Moves
  <2>6. /\ Stands(tree, op.target)
        /\ ~ Exists(tree, op.target) \/ Key(op.target) = Key(op.prior)
    <3>1. CASE op.kind = "recase"
      <4>1. Key(op.target) = Key(op.prior)
        BY <3>1 DEF Founded
      <4>2. Exists(tree, op.target)
        BY <2>3, <4>1, ActualMeaning
      <4> QED
        BY <1>1, <4>1, <4>2, EntryStands
    <3>2. CASE op.kind \in Moves
      <4>1. Free(op.target)
        BY <3>2 DEF Feasible, Moves
      <4> QED
        BY <1>1, <4>1, FreeStands
    <3> QED
      BY <1>6, <3>1, <3>2
  <2>7. op.prior \in Struck(op)
    BY <1>6 DEF Struck, Moves
  <2>8. DOMAIN entry = { "kind", "id", "ver" }
    BY <1>1, <2>4
  <2> HIDE DEF tree, entry
  <2>9. /\ Tidy(With(Without(tree, op.prior), op.target, entry))
        /\ Leaves(tree, With(Without(tree, op.prior), op.target, entry), op.prior)
    BY <1>1, <2>1, <2>3, <2>6, <2>8, ShiftTidy DEF tree
  <2> QED
    BY <2>5, <2>7, <2>9, LeavesConfined DEF tree
<1> QED
  BY <1>2, <1>3, <1>4, <1>5, <1>6 DEF Kinds, Contents

-----------------------------------------------------------------------------
(***************************************************************************)
(* What is protected is not struck.                                        *)
(***************************************************************************)
Pictured(in, tree) ==
    /\ Neat(in) /\ Rooted(in.source) /\ Real(in.target, tree) /\ Tidy(tree)
    /\ in.opts.filters \subseteq Path
    /\ \A pair \in in.pairs : pair.target \in Path

LEMMA PlanTypes ==
  ASSUME NEW in, Neat(in), NEW op \in PlanOf(in)
  PROVE  op.kind \in Kinds
BY PlanKinds DEF Kinds, Contents

LEMMA PicturedRead ==
  ASSUME NEW in, NEW tree, Pictured(in, tree)
  PROVE  FilesRead(in)
BY DEF Pictured, Real, FilesRead, FilesOf

\* Something that the scan reported, that no filter leaves out.
Found(in, r) ==
    \E x \in in.target.files \cup in.target.dirs :
        Key(x.path) = Key(r) /\ ~ Excludes(in.opts, x.path)

LEMMA StruckIsFound ==
  ASSUME NEW in, NEW tree, Pictured(in, tree), NEW op \in PlanOf(in), NEW r \in Struck(op)
  PROVE  /\ r \in Path /\ r \in Targets(op) /\ Found(in, r)
         /\ op.kind \in Destructive => r \in Taken(op)
         /\ op.kind \notin Destructive =>
               \E t \in FilesOf(in, "target") : Key(t.path) = Key(r)
<1>1. Founded(in, op)
  BY PlanFounded DEF Pictured
<1>2. CASE op.kind = "cleanup"
  <2>1. r = op.target
    BY <1>2 DEF Struck
  <2>2. PICK d \in in.target.dirs : op.target = d.path /\ ~ Excludes(in.opts, d.path)
    BY <1>1, <1>2 DEF Founded
  <2> QED
    BY <1>1, <1>2, <2>1, <2>2 DEF Founded, Found, Targets, Taken, Destructive, Moves
<1>3. CASE op.kind \in { "update", "trash", "delete" }
  <2>1. r = op.target
    BY <1>3 DEF Struck
  <2>2. PICK t \in FilesOf(in, "target") : Key(t.path) = Key(r)
    BY <1>1, <1>3, <2>1 DEF Founded, Hits
  <2>3. Found(in, r)
    BY <2>2 DEF Found, FilesOf
  <2> QED
    BY <1>1, <1>3, <2>1, <2>2, <2>3 DEF Founded, Targets, Taken, Destructive, Moves
<1>4. CASE op.kind \in Moves \cup { "recase" }
  <2>1. r = op.prior /\ r \in Path
    BY <1>1, <1>4 DEF Struck, Founded, Moves
  <2>2. PICK t \in FilesOf(in, "target") : Key(t.path) = Key(r)
    BY <1>1, <1>4, <2>1 DEF Founded, Hits
  <2>3. Found(in, r)
    BY <2>2 DEF Found, FilesOf
  <2>4. r \in Targets(op)
    BY <2>1, NoneAssumption DEF Targets
  <2>5. op.kind \in Destructive => r \in Taken(op)
    BY <1>4, <2>1 DEF Taken, Destructive, Moves
  <2> QED
    BY <2>1, <2>2, <2>3, <2>4, <2>5
<1> QED
  BY <1>2, <1>3, <1>4 DEF Struck

LEMMA BlockedContent ==
  ASSUME NEW in, NEW f, Content(in, f).blocked # None
  PROVE  Content(in, f).target = f.path /\ Content(in, f).prior = None
<1>1. Conflict(in, f) # None
  <2> SUFFICES ASSUME Conflict(in, f) = None
               PROVE  Content(in, f).blocked = None
    OBVIOUS
  <2> QED
    BY DEF Content, Matched, Moved, Reading, Op
<1>2. Content(in, f) = [BlockedCopy(in, f) EXCEPT !.deps = Needs(in, f.path)]
  BY <1>1 DEF Content
<1> QED
  BY <1>2 DEF BlockedCopy, Reading, Op

LEMMA BlockedPlaces ==
  ASSUME NEW in, Neat(in), NEW q \in BlockedTargets(PlanOf(in))
  PROVE  /\ q \in Path
         /\ \/ q \in Required(in)
            \/ \E f \in FilesOf(in, "source") : q = f.path
            \/ q \in in.source.odd \cup in.target.odd /\ ~ Excludes(in.opts, q)
<1>1. PICK o \in PlanOf(in) : o.blocked # None /\ q \in Targets(o)
  BY DEF BlockedTargets, BlockedOps
<1>2. CASE o.kind = "mkdir" /\ \E p \in ToCreate(in) : o = Mkdir(in, p)
  <2>1. PICK p \in ToCreate(in) : o = Mkdir(in, p)
    BY <1>2
  <2>2. o.prior = None /\ o.target = p
    BY <2>1 DEF Mkdir, Op
  <2>3. q = p
    BY <1>1, <2>2 DEF Targets
  <2> QED
    BY <2>3, RequiredPaths DEF ToCreate
<1>3. CASE \E f \in FilesOf(in, "source") : o = Content(in, f)
  <2>1. PICK f \in FilesOf(in, "source") : o = Content(in, f)
    BY <1>3
  <2>2. q = f.path
    BY <1>1, <2>1, BlockedContent DEF Targets
  <2>3. f.path \in Path
    BY DEF FilesOf, Neat, Sorted, Reported
  <2> QED
    BY <2>2, <2>3
<1>4. CASE o \in Unsupported(in)
  <2>1. PICK p \in in.source.odd \cup in.target.odd :
            ~ Excludes(in.opts, p) /\ o.target = p /\ o.prior = None
    BY <1>4 DEF Unsupported, Op
  <2>2. q = p
    BY <1>1, <2>1 DEF Targets
  <2>3. p \in Path
    BY DEF Neat, Sorted, Reported
  <2> QED
    BY <2>1, <2>2, <2>3
<1> QED
  BY <1>1, <1>2, <1>3, <1>4, PlanKinds

\* A filter leaves out what is below the paths it leaves out.
LEMMA NotExcludedAbove ==
  ASSUME NEW opts, opts.filters \subseteq Path, NEW q \in Path, ~ Excludes(opts, q),
         NEW s \in Ancestors(q)
  PROVE  ~ Excludes(opts, s)
BY InsideUp DEF Excludes

LEMMA RequiredAbove ==
  ASSUME NEW in, NEW tree, Pictured(in, tree), NEW q \in Path, NEW s \in Ancestors(q),
         \/ q \in Required(in)
         \/ \E f \in FilesOf(in, "source") : q = f.path
         \/ q \in in.source.odd /\ ~ Excludes(in.opts, q)
  PROVE  s \in Required(in)
<1>1. /\ \A d \in in.source.dirs : d.path \in Reported(in.source)
      /\ \A p \in in.source.odd : p \in Reported(in.source)
      /\ \A f \in FilesOf(in, "source") : f.path \in Path
  BY DEF Pictured, Neat, Sorted, FilesOf, Reported
<1>2. ASSUME q \in Reported(in.source), ~ Excludes(in.opts, q)
      PROVE  s \in Required(in)
  <2>1. s \in PathsOf(in.source.dirs)
    BY <1>2 DEF Pictured, Rooted
  <2>2. ~ Excludes(in.opts, s)
    BY <1>2, NotExcludedAbove DEF Pictured
  <2> QED
    BY <2>1, <2>2 DEF PathsOf, Required, SourceDirs
<1>3. CASE \E f \in FilesOf(in, "source") : q = f.path \/ q \in Ancestors(f.path)
  <2>1. PICK f \in FilesOf(in, "source") : q = f.path \/ q \in Ancestors(f.path)
    BY <1>3
  <2>2. s \in Ancestors(f.path)
    BY <1>1, <2>1, AncestorsUp
  <2> QED
    BY <2>2 DEF Required
<1>4. CASE q \in { d.path : d \in SourceDirs(in) }
  <2>1. q \in Reported(in.source) /\ ~ Excludes(in.opts, q)
    BY <1>1, <1>4 DEF SourceDirs
  <2> QED
    BY <1>2, <2>1
<1> QED
  BY <1>1, <1>2, <1>3, <1>4 DEF Required

LEMMA NotInsideBlocked ==
  ASSUME NEW in, NEW tree, Pictured(in, tree), NEW op \in PlanOf(in), op.blocked = None,
         op \notin Quarantined(PlanOf(in)), NEW r \in Struck(op), NEW p \in Path,
         Key(p) = Key(r), NEW q \in BlockedTargets(PlanOf(in))
  PROVE  ~ Inside(p, q)
<1>1. r \in Path /\ r \in Targets(op)
  BY StruckIsFound
<1>2. ~ Inside(r, q)
  BY <1>1 DEF Quarantined
<1> QED
  BY <1>1, <1>2, InsideLike

(***************************************************************************)
(* What is updated or respelled is a file: something blocked below it      *)
(* would need a directory in its place, and creating that is blocked too.  *)
(***************************************************************************)
LEMMA NotAboveBlocked ==
  ASSUME NEW in, NEW tree, Pictured(in, tree), NEW op \in PlanOf(in), op.blocked = None,
         op \notin Quarantined(PlanOf(in)), NEW r \in Struck(op), NEW p \in DOMAIN tree,
         Key(p) = Key(r), NEW q \in BlockedTargets(PlanOf(in))
  PROVE  ~ Below(q, p)
<1> SUFFICES ASSUME Below(q, p)
             PROVE  FALSE
  OBVIOUS
<1>1. /\ p \in Path /\ q \in Path /\ Neat(in)
      /\ \A a, b \in DOMAIN tree : Key(a) = Key(b) => a = b
  BY BlockedPlaces DEF Pictured, Tidy
<1>2. CASE op.kind \in Destructive
  <2>1. r \in Path /\ r \in Taken(op)
    BY <1>2, StruckIsFound
  <2>2. Inside(q, r)
    BY <1>1, <2>1, BelowLike DEF Below
  <2> QED
    BY <2>1, <2>2 DEF Quarantined
<1>3. CASE op.kind \notin Destructive
  <2>1. PICK t \in FilesOf(in, "target") : Key(t.path) = Key(r)
    BY <1>3, StruckIsFound
  <2>2. t \in in.target.files
    BY <2>1 DEF FilesOf
  <2>3. t.path \in DOMAIN tree /\ tree[t.path].kind = "file"
    BY <2>2 DEF Pictured, Real
  <2>4. t.path = p
    BY <1>1, <2>1, <2>3
  <2>5. q \notin in.target.odd
    <3> SUFFICES ASSUME q \in DOMAIN tree
                 PROVE  FALSE
      BY DEF Pictured, Real
    <3>1. PICK s \in DOMAIN tree : Key(s) = Key(p) /\ tree[s].kind = "dir"
      BY <1>1 DEF Pictured, Tidy, Directory
    <3> QED
      BY <1>1, <2>3, <2>4, <3>1
  <2>6. PICK s \in Ancestors(q) : s \in Path /\ Key(s) = Key(p)
    BY <1>1, BelowParent
  <2>7. s \in Required(in)
    BY <1>1, <2>5, RequiredAbove, BlockedPlaces
  <2>8. At(in.target.dirs, s) = {}
    <3> SUFFICES ASSUME NEW d \in in.target.dirs, Key(d.path) = Key(s)
                 PROVE  FALSE
      BY DEF At
    <3>1. d.path \in DOMAIN tree /\ tree[d.path].kind # "file"
      BY DEF Pictured, Real
    <3> QED
      BY <1>1, <2>3, <2>4, <2>6, <3>1
  <2>9. s \in ToCreate(in)
    BY <2>7, <2>8 DEF ToCreate
  <2>10. At(FilesOf(in, "target"), s) # {}
    BY <2>1, <2>4, <2>6 DEF At
  <2>11. /\ Mkdir(in, s) \in PlanOf(in)
         /\ Mkdir(in, s).blocked = "type" /\ Mkdir(in, s).target = s
    BY <2>9, <2>10, PlanHas DEF Mkdir, Op
  <2>12. s \in BlockedTargets(PlanOf(in))
    BY <2>11, NoneAssumption DEF BlockedTargets, BlockedOps, Targets
  <2>13. ~ Inside(p, s)
    BY <1>1, <2>12, NotInsideBlocked
  <2> QED
    BY <1>1, <2>6, <2>13, InsideLike
<1> QED
  BY <1>2, <1>3

Shielded(in, p) ==
    \/ Overlooked(p) \/ Excludes(in.opts, p)
    \/ \E q \in BlockedTargets(PlanOf(in)) : Inside(p, q) \/ Below(q, p)

LEMMA ShieldedNotStruck ==
  ASSUME NEW in, NEW tree, Pictured(in, tree), NEW op \in PlanOf(in), op.blocked = None,
         op \notin Quarantined(PlanOf(in)), NEW r \in Struck(op), NEW p \in DOMAIN tree,
         Shielded(in, p)
  PROVE  Key(p) # Key(r)
<1> SUFFICES ASSUME Key(p) = Key(r)
             PROVE  FALSE
  OBVIOUS
<1>1. p \in Path
  BY DEF Pictured, Tidy
<1>2. PICK x \in in.target.files \cup in.target.dirs :
          Key(x.path) = Key(r) /\ ~ Excludes(in.opts, x.path)
  BY StruckIsFound DEF Found
<1>3. x.path \in Path /\ ~ Overlooked(x.path)
  BY <1>2 DEF Pictured, Neat, Sorted, Reported, PathsOf
<1>4. ~ Overlooked(p) /\ ~ Excludes(in.opts, p)
  BY <1>1, <1>2, <1>3, OverlookedLike, ExcludesLike
<1>5. \A q \in BlockedTargets(PlanOf(in)) : ~ Inside(p, q) /\ ~ Below(q, p)
  BY <1>1, NotInsideBlocked, NotAboveBlocked
<1> QED
  BY <1>4, <1>5 DEF Shielded

(***************************************************************************)
(* As long as no other program interferes, what is protected is as it was. *)
(***************************************************************************)
Untouched ==
    \A p \in DOMAIN world.target :
        Shielded(Input(plan.opts), p) => Whole(world.target, disk["target"], p)

Guarded ==
    /\ DOMAIN disk = Sides
    /\ phase # "scan" => plan.opts \in Options
    /\ calm /\ phase # "scan" => Tidy(disk["target"]) /\ Untouched

LEMMA WorldIsTidy ==
  ASSUME world \in Worlds
  PROVE  Tidy(world.target) /\ \A pair \in world.pairs : pair.target \in Path
BY TreesAreTidy, WorldsAssumption

LEMMA SurveyPictures ==
  ASSUME Warranted, Surveyed, Guarded, calm, phase # "scan"
  PROVE  Pictured(Input(plan.opts), world.target)
<1>1. /\ Sorted(reports["source"]) /\ Sorted(reports["target"])
      /\ reports["target"] # None /\ Rooted(reports["source"])
  BY DEF Warranted, Reliable, Surveyed, Sides
<1>2. Real(reports["target"], world.target)
  BY <1>1 DEF Surveyed
<1>3. Tidy(world.target) /\ \A pair \in world.pairs : pair.target \in Path
  BY WorldIsTidy DEF Warranted, Planned
<1>4. plan.opts.filters \subseteq Path
  BY OptionsAssumption DEF Guarded
<1> QED
  BY <1>1, <1>2, <1>3, <1>4 DEF Pictured, Neat, Input

LEMMA ExecuteSpares ==
  ASSUME Warranted, Surveyed, Guarded, calm, Execute
  PROVE  Tidy(disk["target"])' /\ Untouched'
<1> DEFINE in == Input(plan.opts)
<1>1. /\ phase = "run" /\ UNCHANGED <<selectionVars, world, reports, calm>>
      /\ Tidy(disk["target"]) /\ Untouched /\ DOMAIN disk = Sides
  BY DEF Execute, Guarded
<1>2. Pictured(in, world.target) /\ plan.ops = PlanOf(in)
  BY <1>1, SurveyPictures DEF Warranted, Planned
<1>3. PICK op \in Remaining :
          \/ Feasible(op) /\ disk' = [disk EXCEPT !["target"] = Effect(op)]
          \/ UNCHANGED disk
  BY DEF Execute
<1>4. op \in PlanOf(in) /\ op.blocked = None /\ op \notin Quarantined(PlanOf(in))
  <2>1. op \in Operations /\ Id(op) \notin Direct
    BY DEF Remaining, Selected, Warranted, Sparing
  <2> QED
    BY <1>2, <2>1 DEF Direct, BlockedOps, Operations
<1>5. CASE UNCHANGED disk
  BY <1>1, <1>5 DEF Untouched, Input, selectionVars
<1>6. CASE Feasible(op) /\ disk' = [disk EXCEPT !["target"] = Effect(op)]
  <2> DEFINE tree == disk["target"]
             new == disk'["target"]
  <2>1. new = Effect(op)
    BY <1>1, <1>6 DEF Sides
  <2>2. Founded(in, op) /\ op.kind \in Kinds /\ FilesRead(in)
    BY <1>2, <1>4, PlanFounded, PlanTypes, PicturedRead DEF Pictured
  <2>3. Tidy(Effect(op)) /\ Confined(tree, Effect(op), op)
    BY <1>1, <1>6, <2>2, EffectConfined
  <2>4. ASSUME NEW p \in DOMAIN world.target, Shielded(in, p)
        PROVE  Whole(world.target, new, p)
    <3>1. Whole(world.target, tree, p)
      BY <1>1, <2>4 DEF Untouched
    <3>2. \A r \in Struck(op) : Key(p) # Key(r)
      BY <1>2, <1>4, <2>4, ShieldedNotStruck
    <3>3. Whole(tree, new, p)
      BY <2>1, <2>3, <3>1, <3>2 DEF Confined, Whole
    <3> QED
      BY <3>1, <3>3 DEF Whole
  <2>5. in' = in /\ world' = world
    BY <1>1 DEF Input, selectionVars
  <2>6. Untouched'
    BY <2>4, <2>5 DEF Untouched, Shielded
  <2> QED
    BY <2>1, <2>3, <2>6
<1> QED
  BY <1>3, <1>5, <1>6

LEMMA GuardedInitially == Init => Guarded
BY DEF Init, Guarded, Sides

LEMMA GuardedStays ==
  Warranted /\ Surveyed /\ Guarded /\ [Next]_vars => Guarded'
<1> SUFFICES ASSUME Warranted, Surveyed, Guarded, [Next]_vars
             PROVE  Guarded'
  OBVIOUS
<1>1. CASE UNCHANGED vars
  BY <1>1 DEF vars, scanVars, selectionVars, Guarded, Untouched, Input
<1>2. CASE phase = "scan" /\ Scan /\ UNCHANGED <<selectionVars, world, phase, runVars>>
  <2>1. disk' = disk /\ phase' = "scan"
    BY <1>2, ScanSteps DEF StartWalk, Offline, ListDir, LookAt, EndWalk
  <2> QED
    BY <2>1 DEF Guarded
<1>3. CASE Drift /\ UNCHANGED <<selectionVars, world, phase, runVars>>
  <2>1. calm' = FALSE /\ DOMAIN disk' = DOMAIN disk
    BY <1>3, DriftAlters DEF Alter
  <2> QED
    BY <1>3, <2>1 DEF Guarded, selectionVars
<1>4. CASE MakePlan
  <2>1. /\ phase = "scan" /\ phase' = "select" /\ plan'.opts \in Options
        /\ UNCHANGED <<disk, reports, calm, world>>
    BY <1>4 DEF MakePlan, scanVars
  <2>2. ASSUME calm
        PROVE  disk["target"] = world.target /\ Tidy(world.target)
    BY <2>1, <2>2, WorldIsTidy DEF Surveyed, Warranted, Planned
  <2>3. calm => Tidy(disk["target"])' /\ Untouched'
    BY <2>1, <2>2 DEF Untouched, Whole
  <2> QED
    BY <2>1, <2>3 DEF Guarded
<1>5. CASE Execute
  <2>1. /\ phase # "scan" /\ phase' # "scan" /\ plan' = plan /\ calm' = calm
        /\ DOMAIN disk' = DOMAIN disk
    BY <1>5 DEF Execute, selectionVars
  <2>2. calm => Tidy(disk["target"])' /\ Untouched'
    BY <1>5, ExecuteSpares
  <2> QED
    BY <2>1, <2>2 DEF Guarded
<1>6. CASE Exclude \/ SelectionMade \/ Review \/ Commit \/ Begin \/ Pause \/ Finish
  <2>1. phase # "scan" /\ UNCHANGED <<disk, reports, calm, world, plan>>
    BY <1>6 DEF Exclude, Withhold, SelectionMade, Review, Commit, Begin, Judge, Pause, Finish,
                scanVars, selectionVars
  <2> QED
    BY <2>1 DEF Guarded, Untouched, Input
<1> QED
  BY <1>1, <1>2, <1>3, <1>4, <1>5, <1>6 DEF Next

(***************************************************************************)
(* What the plan is blocked on, and what filters and ignores leave out, is *)
(* as it was before the run, and so are the directories it is in, unless   *)
(* another program changed it.                                             *)
(* Code: quarantined_operation_ids, the filters in plan_sync and the       *)
(* ignores in scan.                                                        *)
(***************************************************************************)
THEOREM ProtectedIsKept == Spec => []Kept
<1> DEFINE IInv == Warranted /\ Surveyed /\ Guarded
<1>1. Init => IInv
  BY WarrantedInitially, SurveyedInductive, GuardedInitially
<1>2. IInv /\ [Next]_vars => IInv'
  BY WarrantedStays, SurveyedInductive, GuardedStays DEF Warranted, Honest
<1>3. IInv => Kept
  <2> SUFFICES ASSUME IInv, phase \in { "run", "done" }, calm,
                      NEW p \in DOMAIN world.target, Protected(p)
               PROVE  Whole(world.target, disk["target"], p)
    BY DEF Kept, Whole
  <2>1. plan.ops = PlanOf(Input(plan.opts)) /\ Untouched
    BY DEF Warranted, Planned, Guarded
  <2>2. Shielded(Input(plan.opts), p)
    BY <2>1 DEF Protected, Shielded, Operations, Input
  <2> QED
    BY <2>1, <2>2 DEF Untouched
<1> QED
  BY <1>1, <1>2, <1>3, PTL DEF Spec
=============================================================================
