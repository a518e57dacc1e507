--------------------------- MODULE VerifierProofs ---------------------------
(***************************************************************************)
(* What holds of the ledger and its integrity sessions for any keys, any   *)
(* number of sessions and any bounds.                                      *)
(***************************************************************************)
EXTENDS Verifier, TLAPS, FiniteSetTheorems, SequenceTheorems, WellFoundedInduction

(***************************************************************************)
(* The shape of a ledger.  Ids are below some number, so that SQLite's     *)
(* next id is well defined, and belong to one row each; a pair names a row *)
(* that is there.                                                          *)
(***************************************************************************)
IsLedger(d) ==
    /\ d = [inv |-> d.inv, pairs |-> d.pairs, bound |-> d.bound, run |-> d.run,
            done |-> d.done]
    /\ d.inv \in [Keys -> Rows \cup {None}]
    /\ d.pairs \subseteq Keys \X Nat

Bounded(d) == \E b \in Nat : \A k \in Keys : d.inv[k] # None => d.inv[k].id <= b

OwnIds(d) ==
    \A j, k \in Keys : d.inv[j] # None /\ d.inv[k] # None /\ d.inv[j].id = d.inv[k].id => j = k

OneToOne(d) ==
    /\ \A p, q \in d.pairs : p[1] = q[1] \/ p[2] = q[2] => p = q
    /\ \A p \in d.pairs : \E k \in Keys : d.inv[k] # None /\ d.inv[k].id = p[2]

Sound(d) == IsLedger(d) /\ Bounded(d) /\ OwnIds(d) /\ OneToOne(d)

\* A ledger and what a transaction leaves of everything but rows and pairs.
SameRun(d, e) == e.bound = d.bound /\ e.run = d.run /\ e.done = d.done

-----------------------------------------------------------------------------
(***************************************************************************)
(* Numbers                                                                 *)
(***************************************************************************)
\* A set of naturals with a bound has a largest element, which Max finds.
LEMMA MaxIs ==
    ASSUME NEW S \in SUBSET Nat, NEW a \in S, NEW b \in Nat, \A x \in S : x <= b
    PROVE  Max(S) \in S /\ \A x \in S : x <= Max(S)
<1> DEFINE U == { n \in Nat : \A x \in S : x <= n }
<1>1. U \subseteq Nat /\ U # {}
    OBVIOUS
<1>2. PICK m \in U : \A y \in U : ~ (<<y, m>> \in OpToRel(<, Nat))
    BY <1>1, NatLessThanWellFounded, WFMin
<1>3. \A y \in U : m <= y
    <2> SUFFICES ASSUME NEW y \in U, ~ (m <= y) PROVE FALSE
        OBVIOUS
    <2>1. y \in Nat /\ m \in Nat /\ y < m
        OBVIOUS
    <2>2. <<y, m>> \in { p \in Nat \X Nat : p[1] < p[2] }
        BY <2>1
    <2> QED BY <2>2, <1>2, Zenon DEF OpToRel
<1>4. m \in S
    <2> SUFFICES ASSUME m \notin S PROVE FALSE
        OBVIOUS
    <2>1. m \in Nat /\ \A x \in S : x <= m /\ x # m /\ x \in Nat
        OBVIOUS
    <2>2. m - 1 \in Nat /\ \A x \in S : x <= m - 1
        BY <2>1
    <2>3. m - 1 \in U
        BY <2>2
    <2> QED BY <2>3, <1>3, <2>1
<1>5. \E x \in S : \A y \in S : x >= y
    BY <1>4
<1> QED BY <1>5 DEF Max

\* SQLite's next id is larger than every id in use.
LEMMA NewIdIs ==
    ASSUME NEW d, IsLedger(d), Bounded(d)
    PROVE  /\ NewId(d) \in Nat
           /\ \A k \in Keys : d.inv[k] # None => d.inv[k].id < NewId(d)
<1>1. PICK b \in Nat : \A k \in Keys : d.inv[k] # None => d.inv[k].id <= b
    BY DEF Bounded
<1>2. \A k \in Keys : d.inv[k] # None => d.inv[k].id \in Nat
    BY DEF IsLedger, Rows
<1>3. Ids(d) \cup {0} \in SUBSET Nat /\ \A x \in Ids(d) \cup {0} : x <= b
    BY <1>1, <1>2 DEF Ids
<1>4. /\ Max(Ids(d) \cup {0}) \in Ids(d) \cup {0}
      /\ \A x \in Ids(d) \cup {0} : x <= Max(Ids(d) \cup {0})
    BY <1>3, MaxIs
<1>5. \A k \in Keys : d.inv[k] # None => d.inv[k].id \in Ids(d)
    BY DEF Ids
<1> QED BY <1>2, <1>3, <1>4, <1>5 DEF NewId

\* Rows that are inserted together get ids of their own, all of them new.
LEMMA NumberedIs ==
    ASSUME NEW d, IsLedger(d), Bounded(d), NEW new \in SUBSET Keys
    PROVE  LET f == Numbered(d, new) IN
           /\ Cardinality(new) \in Nat
           /\ \A k \in new : f[k] \in Nat /\ f[k] >= NewId(d)
                               /\ f[k] <= NewId(d) + Cardinality(new) - 1
           /\ \A j, k \in new : f[j] = f[k] => j = k
<1> DEFINE n == Cardinality(new)
           T == NewId(d) .. NewId(d) + n - 1
<1>1. IsFiniteSet(new) /\ n \in Nat
    BY LedgerAssumption, FS_Subset, FS_CardinalityType
<1>2. NewId(d) \in Nat
    BY NewIdIs
<1> HIDE DEF n
<1>3. IsFiniteSet(T) /\ Cardinality(T) = n
    <2>1. NewId(d) \in Int /\ NewId(d) + n - 1 \in Int
        BY <1>1, <1>2
    <2> QED BY <2>1, <1>1, <1>2, FS_Interval
<1>4. ExistsBijection(new, T)
    BY <1>1, <1>3, FS_SameCardinalityBij DEF n
<1>5. PICK g : g \in Bijection(new, T)
    BY <1>4 DEF ExistsBijection
<1>6. g \in [new -> T] /\ \A j, k \in new : g[j] = g[k] => j = k
    BY <1>5 DEF Bijection, Injection, IsInjective
<1>7. \E f \in [new -> T] : \A j, k \in new : f[j] = f[k] => j = k
    BY <1>6
<1> DEFINE f == Numbered(d, new)
<1>8. f \in [new -> T] /\ \A j, k \in new : f[j] = f[k] => j = k
    BY <1>7 DEF Numbered, n
<1> QED BY <1>1, <1>2, <1>8 DEF n

-----------------------------------------------------------------------------
(***************************************************************************)
(* Rows                                                                    *)
(***************************************************************************)
LEMMA NewRowIs ==
    ASSUME NEW id \in Nat, NEW presence \in { "present", "missing", "unsupported" },
           NEW stat \in Stats \cup {None}, NEW token \in Nat
    PROVE  LET row == NewRow(id, presence, stat, token) IN
           /\ row \in Rows /\ row # None
           /\ row.id = id /\ row.token = token /\ row.base = None /\ row.verified = 0
<1>1. NewRow(id, presence, stat, token) \in Rows
    BY DEF NewRow, Rows
<1>2. LET row == NewRow(id, presence, stat, token) IN
      row.id = id /\ row.token = token /\ row.base = None /\ row.verified = 0
    BY DEF NewRow
<1> QED BY <1>1, <1>2, LedgerAssumption

LEMMA ObservedIs ==
    ASSUME NEW row \in Rows \cup {None}, NEW id \in Nat,
           NEW stat \in Stats \cup {None}, NEW token \in Nat
    PROVE  LET r == Observed(row, id, stat, token) IN
           /\ r \in Rows /\ r # None /\ r.token = token
           /\ row = None => r.id = id /\ r.base = None /\ r.verified = 0
           /\ row # None => r.id = row.id /\ r.base = row.base /\ r.verified = row.verified
<1> DEFINE r == Observed(row, id, stat, token)
<1>1. CASE row = None
    <2>1. r = NewRow(id, "present", stat, token)
        BY <1>1 DEF Observed
    <2> QED BY <1>1, <2>1, NewRowIs
<1>2. CASE row # None
    <2>1. r = [row EXCEPT !.presence = "present", !.stat = stat, !.token = token,
                          !.reappeared = @ \/ row.presence = "missing"]
        BY <1>2, Zenon DEF Observed
    <2>2. row \in Rows
        BY <1>2
    <2>3. r \in Rows
        BY <2>1, <2>2, Zenon DEF Rows
    <2>4. r.token = token /\ r.id = row.id /\ r.base = row.base /\ r.verified = row.verified
        BY <2>1, <2>2 DEF Rows
    <2> QED BY <1>2, <2>3, <2>4, LedgerAssumption
<1> QED BY <1>1, <1>2

LEMMA UnsupportedIs ==
    ASSUME NEW row \in Rows \cup {None}, NEW id \in Nat,
           NEW token \in Nat
    PROVE  LET r == Unsupported(row, id, token) IN
           /\ r \in Rows /\ r # None /\ r.token = token
           /\ row = None => r.id = id /\ r.base = None /\ r.verified = 0
           /\ row # None => r.id = row.id /\ r.base = row.base /\ r.verified = row.verified
<1> DEFINE r == Unsupported(row, id, token)
<1>1. CASE row = None
    <2>1. r = NewRow(id, "unsupported", None, token)
        BY <1>1 DEF Unsupported
    <2> QED BY <1>1, <2>1, NewRowIs
<1>2. CASE row # None
    <2>1. r = [row EXCEPT !.presence = "unsupported", !.stat = None, !.token = token]
        BY <1>2, Zenon DEF Unsupported
    <2>2. row \in Rows
        BY <1>2
    <2>3. r \in Rows
        BY <2>1, <2>2, Zenon DEF Rows
    <2>4. r.token = token /\ r.id = row.id /\ r.base = row.base /\ r.verified = row.verified
        BY <2>1, <2>2 DEF Rows
    <2> QED BY <1>2, <2>3, <2>4, LedgerAssumption
<1> QED BY <1>1, <1>2

LEMMA MissingIs ==
    ASSUME NEW row \in Rows \cup {None}, NEW token \in Nat
    PROVE  LET r == MarkedMissing(row, token) IN
           \/ r = row
           \/ /\ row # None /\ r \in Rows /\ r # None /\ r.token = token
              /\ r.id = row.id /\ r.base = row.base /\ r.verified = row.verified
<1>1. CASE row = None \/ row.presence = "missing"
    BY <1>1 DEF MarkedMissing
<1>2. CASE ~ (row = None \/ row.presence = "missing")
    <2> DEFINE r == MarkedMissing(row, token)
    <2>1. r = [row EXCEPT !.presence = "missing", !.token = token]
        BY <1>2, Zenon DEF MarkedMissing
    <2>2. row \in Rows /\ row # None
        BY <1>2
    <2>3. r \in Rows
        BY <2>1, <2>2, Zenon DEF Rows
    <2>4. r.token = token /\ r.id = row.id /\ r.base = row.base /\ r.verified = row.verified
        BY <2>1, <2>2 DEF Rows
    <2> QED BY <2>2, <2>3, <2>4, LedgerAssumption
<1> QED BY <1>1, <1>2

-----------------------------------------------------------------------------
(***************************************************************************)
(* One row of a ledger                                                     *)
(***************************************************************************)
\* The row r is what an observation with the token makes of the row.
Noted(row, r, token) ==
    /\ r \in Rows /\ r # None /\ r.token = token
    /\ row = None => r.base = None /\ r.verified = 0
    /\ row # None => r.id = row.id /\ r.base = row.base /\ r.verified = row.verified

\* The row of one key is written and nothing else.
OneRow(d, e, k, r) ==
    /\ IsLedger(e) /\ SameRun(d, e) /\ e.pairs = d.pairs
    /\ e.inv[k] = r /\ \A j \in Keys : j # k => e.inv[j] = d.inv[j]

LEMMA RowPut ==
    ASSUME NEW d, IsLedger(d), NEW k \in Keys, NEW r \in Rows \cup {None}
    PROVE  OneRow(d, [d EXCEPT !.inv[k] = r], k, r)
<1> DEFINE e == [d EXCEPT !.inv[k] = r]
<1>1. e = [inv |-> [d.inv EXCEPT ![k] = r], pairs |-> d.pairs, bound |-> d.bound,
           run |-> d.run, done |-> d.done]
    BY DEF IsLedger
<1>2. /\ e.inv = [d.inv EXCEPT ![k] = r] /\ e.pairs = d.pairs /\ SameRun(d, e)
      /\ e = [inv |-> e.inv, pairs |-> e.pairs, bound |-> e.bound, run |-> e.run,
              done |-> e.done]
    BY <1>1 DEF SameRun
<1>3. d.inv \in [Keys -> Rows \cup {None}] /\ d.pairs \subseteq Keys \X Nat
    BY DEF IsLedger
<1> HIDE DEF e
<1>4. e.inv \in [Keys -> Rows \cup {None}] /\ e.inv[k] = r
      /\ \A j \in Keys : j # k => e.inv[j] = d.inv[j]
    BY <1>2, <1>3
<1> QED BY <1>2, <1>3, <1>4 DEF OneRow, IsLedger, e

\* A row that keeps its id, or a new one with an id that no row has, leaves a
\* sound ledger sound.
LEMMA RowKept ==
    ASSUME NEW d, Sound(d), NEW e, NEW k \in Keys, NEW r \in Rows, r # None,
           OneRow(d, e, k, r),
           \/ d.inv[k] # None /\ r.id = d.inv[k].id
           \/ d.inv[k] = None /\ \A j \in Keys : d.inv[j] # None => d.inv[j].id # r.id
    PROVE  Sound(e)
<1>1. IsLedger(e) /\ e.pairs = d.pairs /\ e.inv[k] = r /\ r.id \in Nat
      /\ \A j \in Keys : j # k => e.inv[j] = d.inv[j]
    BY DEF OneRow, Rows
<1>2. Bounded(e)
    <2>1. PICK b \in Nat : \A j \in Keys : d.inv[j] # None => d.inv[j].id <= b
        BY DEF Sound, Bounded
    <2>2. \A j \in Keys : d.inv[j] # None => d.inv[j].id \in Nat
        BY DEF Sound, IsLedger, Rows
    <2>3. b + r.id \in Nat /\ \A j \in Keys : e.inv[j] # None => e.inv[j].id <= b + r.id
        BY <1>1, <2>1, <2>2
    <2> QED BY <2>3 DEF Bounded
<1>3. OwnIds(e)
    BY <1>1 DEF Sound, OwnIds
<1>4. OneToOne(e)
    <2>1. \A p, q \in e.pairs : p[1] = q[1] \/ p[2] = q[2] => p = q
        BY <1>1 DEF Sound, OneToOne
    <2>2. ASSUME NEW p \in e.pairs PROVE \E j \in Keys : e.inv[j] # None /\ e.inv[j].id = p[2]
        <3>1. PICK j \in Keys : d.inv[j] # None /\ d.inv[j].id = p[2]
            BY <1>1 DEF Sound, OneToOne
        <3>2. e.inv[j] # None /\ e.inv[j].id = p[2]
            BY <1>1, <3>1
        <3> QED BY <3>2
    <2> QED BY <2>1, <2>2 DEF OneToOne
<1> QED BY <1>1, <1>2, <1>3, <1>4 DEF Sound

LEMMA UpsertIs ==
    ASSUME NEW d, Sound(d), NEW k \in Keys, NEW stat \in Stats \cup {None}, NEW token \in Nat
    PROVE  LET e == Upsert(d, k, stat, token) IN
           Sound(e) /\ OneRow(d, e, k, e.inv[k]) /\ Noted(d.inv[k], e.inv[k], token)
<1> DEFINE row == d.inv[k]
           id == NewId(d)
           r == Observed(row, id, stat, token)
           e == Upsert(d, k, stat, token)
<1>1. d.inv[k] \in Rows \cup {None} /\ IsLedger(d) /\ Bounded(d)
    BY DEF Sound, IsLedger
<1>2. NewId(d) \in Nat /\ \A j \in Keys : d.inv[j] # None => d.inv[j].id < NewId(d)
    BY <1>1, NewIdIs
<1>3. /\ r \in Rows /\ r # None /\ r.token = token
      /\ d.inv[k] = None => r.id = NewId(d) /\ r.base = None /\ r.verified = 0
      /\ d.inv[k] # None =>
           r.id = d.inv[k].id /\ r.base = d.inv[k].base /\ r.verified = d.inv[k].verified
    <2>1. row \in Rows \cup {None} /\ id \in Nat
        BY <1>1, <1>2
    <2> HIDE DEF row, id
    <2>2. /\ r \in Rows /\ r # None /\ r.token = token
          /\ row = None => r.id = id /\ r.base = None /\ r.verified = 0
          /\ row # None => r.id = row.id /\ r.base = row.base /\ r.verified = row.verified
        BY <2>1, ObservedIs
    <2> QED BY <2>2 DEF row, id
<1>4. e = [d EXCEPT !.inv[k] = r]
    BY DEF Upsert
<1> HIDE DEF r, e
<1>5. OneRow(d, e, k, r)
    BY <1>1, <1>3, <1>4, RowPut
<1>6. \A j \in Keys : d.inv[j] # None => d.inv[j].id \in Nat
    BY <1>1 DEF IsLedger, Rows
<1>7. \/ d.inv[k] # None /\ r.id = d.inv[k].id
      \/ d.inv[k] = None /\ \A j \in Keys : d.inv[j] # None => d.inv[j].id # r.id
    BY <1>2, <1>3, <1>6
<1>8. Sound(e)
    BY <1>3, <1>5, <1>7, RowKept
<1>9. e.inv[k] = r
    BY <1>5 DEF OneRow
<1> QED BY <1>3, <1>5, <1>8, <1>9 DEF Noted, e

LEMMA AttestIs ==
    ASSUME NEW d, Sound(d), NEW k \in Keys, d.inv[k] # None, NEW att \in Attestations
    PROVE  LET e == Attest(d, k, att) IN
           /\ Sound(e) /\ OneRow(d, e, k, e.inv[k])
           /\ e.inv[k] \in Rows /\ e.inv[k] # None /\ e.inv[k].base = att
           /\ e.inv[k].id = d.inv[k].id /\ e.inv[k].token = d.inv[k].token
           /\ e.inv[k].verified = d.inv[k].verified
<1> DEFINE r == [d.inv[k] EXCEPT !.base = att]
           e == Attest(d, k, att)
<1>1. d.inv[k] \in Rows /\ IsLedger(d)
    BY DEF Sound, IsLedger
<1>2. r \in Rows
    BY <1>1, Zenon DEF Rows
<1>3. /\ r.base = att /\ r.id = d.inv[k].id /\ r.token = d.inv[k].token
      /\ r.verified = d.inv[k].verified
    BY <1>1 DEF Rows
<1>4. r # None
    BY <1>2, LedgerAssumption
<1>5. e = [d EXCEPT !.inv[k] = r]
    BY Zenon DEF Attest
<1> HIDE DEF r, e
<1>6. OneRow(d, e, k, r)
    BY <1>1, <1>2, <1>5, RowPut
<1>7. Sound(e)
    BY <1>2, <1>3, <1>4, <1>6, RowKept
<1>8. e.inv[k] = r
    BY <1>6 DEF OneRow
<1> QED BY <1>2, <1>3, <1>4, <1>6, <1>7, <1>8 DEF e

LEMMA PairIs ==
    ASSUME NEW d, Sound(d), NEW k \in Keys, NEW j \in Keys, d.inv[j] # None
    PROVE  LET e == Pair(d, k, d.inv[j].id) IN
           Sound(e) /\ SameRun(d, e) /\ e.inv = d.inv
<1> DEFINE id == d.inv[j].id
           P == IF Identified THEN { p \in d.pairs : p[1] # k /\ p[2] # id } \cup {<<k, id>>}
                ELSE d.pairs
           e == Pair(d, k, id)
<1>1. id \in Nat /\ d.pairs \subseteq Keys \X Nat
    BY DEF Sound, IsLedger, Rows
<1>2. e = [inv |-> d.inv, pairs |-> P, bound |-> d.bound, run |-> d.run, done |-> d.done]
    BY DEF Sound, IsLedger, Pair
<1>3. e.inv = d.inv /\ e.pairs = P /\ SameRun(d, e)
      /\ e = [inv |-> e.inv, pairs |-> e.pairs, bound |-> e.bound, run |-> e.run,
              done |-> e.done]
    BY <1>2 DEF SameRun
<1> HIDE DEF e
<1>4. IsLedger(e)
    BY <1>1, <1>3, LedgerAssumption DEF IsLedger, Sound
<1>5. Bounded(e) /\ OwnIds(e)
    BY <1>3 DEF Sound, Bounded, OwnIds
<1>6. OneToOne(e)
    <2>1. ASSUME NEW p \in P, NEW q \in P, p[1] = q[1] \/ p[2] = q[2] PROVE p = q
        BY <2>1 DEF Sound, OneToOne
    <2>2. ASSUME NEW p \in P PROVE \E i \in Keys : d.inv[i] # None /\ d.inv[i].id = p[2]
        BY <2>2 DEF Sound, OneToOne
    <2> QED BY <1>3, <2>1, <2>2 DEF OneToOne
<1> QED BY <1>3, <1>4, <1>5, <1>6 DEF Sound, e

LEMMA DroppedIs ==
    ASSUME NEW d, Sound(d), NEW k \in Keys, d.inv[k] # None
    PROVE  LET e == Dropped(d, k) IN
           /\ Sound(e) /\ SameRun(d, e) /\ e.inv[k] = None
           /\ \A j \in Keys : j # k => e.inv[j] = d.inv[j]
<1> DEFINE P == { p \in d.pairs : p[2] # d.inv[k].id }
           e == Dropped(d, k)
<1>1. d.inv \in [Keys -> Rows \cup {None}] /\ d.pairs \subseteq Keys \X Nat
    BY DEF Sound, IsLedger
<1>2. e = [inv |-> [d.inv EXCEPT ![k] = None], pairs |-> P, bound |-> d.bound,
           run |-> d.run, done |-> d.done]
    <2>1. e = [d EXCEPT !.inv[k] = None, !.pairs = P]
        BY Zenon DEF Dropped
    <2>2. d = [inv |-> d.inv, pairs |-> d.pairs, bound |-> d.bound, run |-> d.run,
               done |-> d.done]
        BY DEF Sound, IsLedger
    <2> QED BY <2>1, <2>2, <1>1
<1>3. e.inv = [d.inv EXCEPT ![k] = None] /\ e.pairs = P /\ SameRun(d, e)
      /\ e = [inv |-> e.inv, pairs |-> e.pairs, bound |-> e.bound, run |-> e.run,
              done |-> e.done]
    BY <1>2 DEF SameRun
<1> HIDE DEF e
<1>4. e.inv \in [Keys -> Rows \cup {None}] /\ e.inv[k] = None
      /\ \A j \in Keys : j # k => e.inv[j] = d.inv[j]
    BY <1>1, <1>3
<1>5. IsLedger(e)
    BY <1>1, <1>3, <1>4 DEF IsLedger
<1>6. Bounded(e) /\ OwnIds(e)
    BY <1>4 DEF Sound, Bounded, OwnIds
<1>7. OneToOne(e)
    <2>1. \A p, q \in P : p[1] = q[1] \/ p[2] = q[2] => p = q
        BY DEF Sound, OneToOne
    <2>2. ASSUME NEW p \in P PROVE \E i \in Keys : e.inv[i] # None /\ e.inv[i].id = p[2]
        <3>1. PICK i \in Keys : d.inv[i] # None /\ d.inv[i].id = p[2]
            BY DEF Sound, OneToOne
        <3> QED BY <1>4, <3>1
    <2> QED BY <1>3, <2>1, <2>2 DEF OneToOne
<1> QED BY <1>3, <1>4, <1>5, <1>6, <1>7 DEF Sound, e

-----------------------------------------------------------------------------
(***************************************************************************)
(* What the commands write                                                 *)
(***************************************************************************)
\* The row r has the stamp of the transaction.  Its evidence is that of the
\* command or of the row it continues, and only a continued row is verified.
Written(d, r, stamp, att) ==
    /\ r \in Rows /\ r # None /\ r.token = stamp
    /\ \/ r.base \in { None, att } /\ r.verified = 0
       \/ \E j \in Keys :
             /\ d.inv[j] # None /\ r.id = d.inv[j].id /\ r.verified = d.inv[j].verified
             /\ r.base \in { d.inv[j].base, att }

RowsWritten(d, e, keys, stamp, att) ==
    \A k \in Keys : \/ e.inv[k] \in { d.inv[k], None }
                    \/ k \in keys /\ Written(d, e.inv[k], stamp, att)

Wrote(d, e, keys, stamp, att) ==
    Sound(e) /\ SameRun(d, e) /\ RowsWritten(d, e, keys, stamp, att)

OpKinds == { "copy", "update", "move", "recase", "move_update", "trash", "delete", "noop" }

OpCommand(c) ==
    /\ c.type = "op" /\ c.kind \in OpKinds
    /\ c.key \in Keys /\ c.prior \in Keys
    /\ c.stat \in Stats /\ c.run \in Nat
    /\ c.att \in Attestations \cup {None}
    /\ c.kind \in { "copy", "update" } => c.att \in Attestations

LEMMA SameRunTwice ==
    ASSUME NEW d, NEW e, NEW f, SameRun(d, e), SameRun(e, f)
    PROVE  SameRun(d, f)
BY DEF SameRun

LEMMA CopyLikeWrites ==
    ASSUME NEW d, Sound(d), NEW c, OpCommand(c), c.att \in Attestations
    PROVE  Wrote(d, RecordCopyLike(d, c), { c.key }, c.run, c.att)
<1> DEFINE k == c.key
           seen == Upsert(d, k, c.stat, c.run)
           attested == Attest(seen, k, c.att)
           e == Pair(attested, k, seen.inv[k].id)
<1>1. k \in Keys /\ c.stat \in Stats \cup {None} /\ c.run \in Nat
    BY DEF OpCommand
<1>2. Sound(seen) /\ OneRow(d, seen, k, seen.inv[k]) /\ Noted(d.inv[k], seen.inv[k], c.run)
    BY <1>1, UpsertIs
<1>3. RecordCopyLike(d, c) = e
    BY DEF RecordCopyLike
<1> HIDE DEF seen
<1>4. seen.inv[k] # None
    BY <1>2 DEF Noted
<1>5. /\ Sound(attested) /\ OneRow(seen, attested, k, attested.inv[k])
      /\ attested.inv[k] \in Rows /\ attested.inv[k] # None /\ attested.inv[k].base = c.att
      /\ attested.inv[k].id = seen.inv[k].id /\ attested.inv[k].token = seen.inv[k].token
      /\ attested.inv[k].verified = seen.inv[k].verified
    BY <1>1, <1>2, <1>4, AttestIs
<1> HIDE DEF attested
<1>6. e = Pair(attested, k, attested.inv[k].id)
    BY <1>5
<1> HIDE DEF e
<1>7. Sound(e) /\ SameRun(attested, e) /\ e.inv = attested.inv
    BY <1>1, <1>5, <1>6, PairIs
<1>8. SameRun(d, e)
    BY <1>2, <1>5, <1>7, SameRunTwice DEF OneRow
<1>9. Written(d, e.inv[k], c.run, c.att)
    BY <1>1, <1>2, <1>5, <1>7 DEF Noted, Written
<1>10. \A j \in Keys : j # k => e.inv[j] = d.inv[j]
    BY <1>2, <1>5, <1>7 DEF OneRow
<1> QED BY <1>3, <1>7, <1>8, <1>9, <1>10 DEF Wrote, RowsWritten

LEMMA NoopWrites ==
    ASSUME NEW d, Sound(d), NEW c, OpCommand(c)
    PROVE  Wrote(d, RecordNoop(d, c), { c.key }, c.run, c.att)
<1> DEFINE k == c.key
           seen == Upsert(d, k, c.stat, c.run)
           e == Pair(seen, k, seen.inv[k].id)
<1>1. k \in Keys /\ c.stat \in Stats \cup {None} /\ c.run \in Nat
    BY DEF OpCommand
<1>2. Sound(seen) /\ OneRow(d, seen, k, seen.inv[k]) /\ Noted(d.inv[k], seen.inv[k], c.run)
    BY <1>1, UpsertIs
<1>3. RecordNoop(d, c) = e
    BY DEF RecordNoop
<1> HIDE DEF seen
<1>4. seen.inv[k] # None
    BY <1>2 DEF Noted
<1>5. Sound(e) /\ SameRun(seen, e) /\ e.inv = seen.inv
    BY <1>1, <1>2, <1>4, PairIs
<1> HIDE DEF e
<1>6. SameRun(d, e)
    BY <1>2, <1>5, SameRunTwice DEF OneRow
<1>7. Written(d, e.inv[k], c.run, c.att)
    BY <1>1, <1>2, <1>5 DEF Noted, Written
<1>8. \A j \in Keys : j # k => e.inv[j] = d.inv[j]
    BY <1>2, <1>5 DEF OneRow
<1> QED BY <1>3, <1>5, <1>6, <1>7, <1>8 DEF Wrote, RowsWritten

LEMMA AbsentWrites ==
    ASSUME NEW d, Sound(d), NEW c, OpCommand(c)
    PROVE  Wrote(d, RecordAbsent(d, c), { c.key }, c.run, c.att)
<1> DEFINE k == c.key
           seen == Upsert(d, k, c.stat, c.run)
           r == [seen.inv[k] EXCEPT !.presence = "missing"]
           e == [seen EXCEPT !.inv[k] = r]
<1>1. k \in Keys /\ c.stat \in Stats \cup {None} /\ c.run \in Nat
    BY DEF OpCommand
<1>2. Sound(seen) /\ OneRow(d, seen, k, seen.inv[k]) /\ Noted(d.inv[k], seen.inv[k], c.run)
    BY <1>1, UpsertIs
<1>3. RecordAbsent(d, c) = e
    BY Zenon DEF RecordAbsent
<1> HIDE DEF seen
<1>4. seen.inv[k] \in Rows /\ seen.inv[k] # None /\ IsLedger(seen)
    BY <1>2 DEF Noted, Sound
<1>5. r \in Rows
    BY <1>4, Zenon DEF Rows
<1>6. /\ r # None
      /\ r.token = seen.inv[k].token /\ r.id = seen.inv[k].id /\ r.base = seen.inv[k].base
      /\ r.verified = seen.inv[k].verified
    BY <1>4, <1>5, LedgerAssumption DEF Rows
<1> HIDE DEF r
<1>7. OneRow(seen, e, k, r)
    BY <1>1, <1>4, <1>5, RowPut
<1> HIDE DEF e
<1>8. Sound(e)
    BY <1>1, <1>2, <1>4, <1>5, <1>6, <1>7, RowKept
<1>9. SameRun(d, e)
    BY <1>2, <1>7, SameRunTwice DEF OneRow
<1>10. Written(d, e.inv[k], c.run, c.att)
    <2>1. e.inv[k] = r
        BY <1>7 DEF OneRow
    <2> QED BY <1>1, <1>2, <1>5, <1>6, <2>1 DEF Noted, Written
<1>11. \A j \in Keys : j # k => e.inv[j] = d.inv[j]
    BY <1>2, <1>7 DEF OneRow
<1> QED BY <1>3, <1>8, <1>9, <1>10, <1>11 DEF Wrote, RowsWritten

\* The row of the prior key takes the place of the one that is cleared.
LEMMA RowMoved ==
    ASSUME NEW d, Sound(d), NEW k \in Keys, NEW prior \in Keys, prior # k,
           d.inv[k] = None, d.inv[prior] # None,
           NEW r \in Rows, r # None, r.id = d.inv[prior].id,
           NEW inv, inv = [j \in Keys |-> IF j = k THEN r ELSE IF j = prior THEN None ELSE d.inv[j]]
    PROVE  LET e == [d EXCEPT !.inv = inv] IN
           Sound(e) /\ SameRun(d, e) /\ e.inv = inv
<1> DEFINE e == [d EXCEPT !.inv = inv]
<1>1. d = [inv |-> d.inv, pairs |-> d.pairs, bound |-> d.bound, run |-> d.run, done |-> d.done]
      /\ d.inv \in [Keys -> Rows \cup {None}] /\ d.pairs \subseteq Keys \X Nat
    BY DEF Sound, IsLedger
<1>2. e = [inv |-> inv, pairs |-> d.pairs, bound |-> d.bound, run |-> d.run, done |-> d.done]
    BY <1>1
<1>3. e.inv = inv /\ e.pairs = d.pairs /\ SameRun(d, e)
      /\ e = [inv |-> e.inv, pairs |-> e.pairs, bound |-> e.bound, run |-> e.run,
              done |-> e.done]
    BY <1>2 DEF SameRun
<1> HIDE DEF e
<1>4. /\ e.inv \in [Keys -> Rows \cup {None}] /\ e.inv[k] = r /\ e.inv[prior] = None
      /\ \A j \in Keys \ { k, prior } : e.inv[j] = d.inv[j]
    BY <1>1, <1>3
<1>5. IsLedger(e)
    BY <1>1, <1>3, <1>4 DEF IsLedger
<1>6. Bounded(e)
    <2>1. PICK b \in Nat : \A j \in Keys : d.inv[j] # None => d.inv[j].id <= b
        BY DEF Sound, Bounded
    <2>2. \A j \in Keys : e.inv[j] # None => e.inv[j].id <= b
        BY <1>4, <2>1
    <2> QED BY <2>2 DEF Bounded
<1>7. OwnIds(e)
    BY <1>4 DEF Sound, OwnIds
<1>8. OneToOne(e)
    <2>1. \A p, q \in e.pairs : p[1] = q[1] \/ p[2] = q[2] => p = q
        BY <1>3 DEF Sound, OneToOne
    <2>2. ASSUME NEW p \in e.pairs PROVE \E i \in Keys : e.inv[i] # None /\ e.inv[i].id = p[2]
        <3>1. PICK i \in Keys : d.inv[i] # None /\ d.inv[i].id = p[2]
            BY <1>3 DEF Sound, OneToOne
        <3>2. CASE i = prior
            BY <1>4, <3>1, <3>2
        <3>3. CASE i # prior
            BY <1>4, <3>1, <3>3
        <3> QED BY <3>2, <3>3
    <2> QED BY <2>1, <2>2 DEF OneToOne
<1> QED BY <1>3, <1>5, <1>6, <1>7, <1>8 DEF Sound, e

\* _move_target_row, without the evidence of the command.
LEMMA MoveTargetRowIs ==
    ASSUME NEW d, Sound(d), NEW c, OpCommand(c)
    PROVE  LET e == MoveTargetRow(d, c) IN
           /\ Wrote(d, e, { c.key }, c.run, None)
           /\ e.inv[c.key] # None
           /\ Written(d, e.inv[c.key], c.run, None)
<1> DEFINE k == c.key
           prior == c.prior
           old == d.inv[prior]
           dropped == prior # k /\ d.inv[k] # None
           clear == IF dropped THEN Dropped(d, k) ELSE d
           r == [old EXCEPT !.presence = "present", !.stat = c.stat, !.token = c.run,
                            !.reappeared = FALSE]
           e == MoveTargetRow(d, c)
<1>1. k \in Keys /\ prior \in Keys /\ c.stat \in Stats /\ c.stat \in Stats \cup {None}
      /\ c.run \in Nat
    BY DEF OpCommand
<1>2. /\ Sound(clear) /\ SameRun(d, clear)
      /\ \A j \in Keys : j # k => clear.inv[j] = d.inv[j]
      /\ prior # k => clear.inv[k] = None
      /\ prior = k => clear = d
    <2>1. CASE dropped
        BY <2>1, <1>1, DroppedIs
    <2>2. CASE ~ dropped
        BY <2>2, <1>1 DEF SameRun
    <2> QED BY <2>1, <2>2
<1> HIDE DEF clear
<1>3. CASE old = None
    <2>1. e = Upsert(clear, k, c.stat, c.run)
        BY <1>3, Zenon DEF MoveTargetRow, clear
    <2> HIDE DEF e
    <2>2. Sound(e) /\ OneRow(clear, e, k, e.inv[k]) /\ Noted(clear.inv[k], e.inv[k], c.run)
        BY <1>1, <1>2, <2>1, UpsertIs
    <2>3. clear.inv[k] = None
        BY <1>2, <1>3
    <2>4. e.inv[k] # None /\ Written(d, e.inv[k], c.run, None)
        BY <2>2, <2>3 DEF Noted, Written
    <2>5. \A j \in Keys : j # k => e.inv[j] = d.inv[j]
        BY <1>2, <2>2 DEF OneRow
    <2>6. SameRun(d, e)
        BY <1>2, <2>2, SameRunTwice DEF OneRow
    <2> QED BY <2>2, <2>4, <2>5, <2>6 DEF Wrote, RowsWritten, e
<1>4. CASE old # None
    <2> DEFINE inv == [j \in Keys |-> IF j = k THEN r ELSE IF j = prior THEN None
                                      ELSE clear.inv[j]]
    <2>1. e = [clear EXCEPT !.inv = inv]
        BY <1>4, Zenon DEF MoveTargetRow, clear
    <2>2. old \in Rows
        BY <1>1, <1>4 DEF Sound, IsLedger
    <2>3. r \in Rows
        BY <1>1, <2>2, Zenon DEF Rows
    <2>4. /\ r # None /\ r.token = c.run
          /\ r.id = old.id /\ r.base = old.base /\ r.verified = old.verified
        BY <2>2, <2>3, LedgerAssumption DEF Rows
    <2> HIDE DEF r
    <2>5. Sound(e) /\ SameRun(d, e) /\ e.inv = inv
        <3>1. CASE prior # k
            <4>1. clear.inv[k] = None /\ clear.inv[prior] # None
                  /\ r.id = clear.inv[prior].id
                BY <1>1, <1>2, <1>4, <2>4, <3>1
            <4> DEFINE map == inv
            <4>2. map = [j \in Keys |-> IF j = k THEN r ELSE IF j = prior THEN None
                                        ELSE clear.inv[j]]
                OBVIOUS
            <4>3. e = [clear EXCEPT !.inv = map]
                BY <2>1
            <4> HIDE DEF map, inv, e
            <4>4. Sound(e) /\ SameRun(clear, e) /\ e.inv = map
                BY <1>1, <1>2, <2>3, <2>4, <3>1, <4>1, <4>2, <4>3, RowMoved
            <4>5. SameRun(d, e)
                BY <1>2, <4>4, SameRunTwice
            <4> QED BY <4>4, <4>5 DEF map
        <3>2. CASE prior = k
            <4>1. clear = d /\ IsLedger(d)
                BY <1>2, <3>2 DEF Sound
            <4>2. d.inv \in [Keys -> Rows \cup {None}]
                BY <4>1 DEF IsLedger
            <4>3. inv = [d.inv EXCEPT ![k] = r]
                BY <1>1, <3>2, <4>1, <4>2
            <4>4. e = [d EXCEPT !.inv[k] = r]
                BY <2>1, <4>1, <4>3
            <4> HIDE DEF e, inv
            <4>5. OneRow(d, e, k, r)
                BY <1>1, <2>3, <4>1, <4>4, RowPut
            <4>6. Sound(e)
                BY <1>1, <1>4, <2>3, <2>4, <3>2, <4>5, RowKept
            <4>7. e.inv = inv
                BY <1>1, <4>1, <4>2, <4>3, <4>5, <4>4 DEF OneRow, IsLedger
            <4> QED BY <4>5, <4>6, <4>7 DEF OneRow
        <3> QED BY <3>1, <3>2
    <2> HIDE DEF e
    <2>6. e.inv[k] = r /\ \A j \in Keys : j # k => e.inv[j] \in { d.inv[j], None }
        BY <1>1, <1>2, <2>5
    <2>7. e.inv[k] # None /\ Written(d, e.inv[k], c.run, None)
        BY <1>1, <1>4, <2>3, <2>4, <2>6 DEF Written
    <2> QED BY <2>5, <2>6, <2>7 DEF Wrote, RowsWritten, e
<1> QED BY <1>3, <1>4

LEMMA MoveWrites ==
    ASSUME NEW d, Sound(d), NEW c, OpCommand(c)
    PROVE  Wrote(d, RecordMove(d, c), { c.key }, c.run, c.att)
<1> DEFINE k == c.key
           moved == MoveTargetRow(d, c)
           attested == IF c.att = None THEN moved ELSE Attest(moved, k, c.att)
           e == Pair(attested, k, moved.inv[k].id)
<1>1. k \in Keys /\ c.att \in Attestations \cup {None}
    BY DEF OpCommand
<1>2. /\ Wrote(d, moved, { k }, c.run, None)
      /\ moved.inv[k] # None /\ Written(d, moved.inv[k], c.run, None)
    BY MoveTargetRowIs
<1>3. RecordMove(d, c) = e
    BY DEF RecordMove
<1> HIDE DEF moved
<1>4. /\ Sound(attested) /\ SameRun(d, attested)
      /\ attested.inv[k] # None /\ attested.inv[k].id = moved.inv[k].id
      /\ Written(d, attested.inv[k], c.run, c.att)
      /\ \A j \in Keys : j # k => attested.inv[j] \in { d.inv[j], None }
    <2>1. CASE c.att = None
        BY <1>2, <2>1 DEF Wrote, RowsWritten
    <2>2. CASE c.att # None
        <3>1. c.att \in Attestations /\ attested = Attest(moved, k, c.att)
            BY <1>1, <2>2
        <3> HIDE DEF attested
        <3>2. /\ Sound(attested) /\ OneRow(moved, attested, k, attested.inv[k])
              /\ attested.inv[k] \in Rows /\ attested.inv[k] # None
              /\ attested.inv[k].base = c.att
              /\ attested.inv[k].id = moved.inv[k].id
              /\ attested.inv[k].token = moved.inv[k].token
              /\ attested.inv[k].verified = moved.inv[k].verified
            BY <1>1, <1>2, <3>1, AttestIs DEF Wrote, RowsWritten
        <3>3. SameRun(d, attested)
            BY <1>2, <3>2, SameRunTwice DEF OneRow, Wrote, RowsWritten
        <3>4. Written(d, attested.inv[k], c.run, c.att)
            BY <1>2, <3>2 DEF Written
        <3>5. \A j \in Keys : j # k => attested.inv[j] \in { d.inv[j], None }
            BY <1>2, <3>2 DEF OneRow, Wrote, RowsWritten
        <3> QED BY <3>2, <3>3, <3>4, <3>5
    <2> QED BY <2>1, <2>2
<1> HIDE DEF attested
<1>5. e = Pair(attested, k, attested.inv[k].id)
    BY <1>4
<1> HIDE DEF e
<1>6. Sound(e) /\ SameRun(attested, e) /\ e.inv = attested.inv
    BY <1>1, <1>4, <1>5, PairIs
<1>7. SameRun(d, e)
    BY <1>4, <1>6, SameRunTwice
<1> QED BY <1>3, <1>4, <1>6, <1>7 DEF Wrote, RowsWritten

\* An operation that is not refused writes the row of its target and no other.
LEMMA RecordedWrites ==
    ASSUME NEW d, Sound(d), NEW c, OpCommand(c), RecordedOp(d, c) # None
    PROVE  Wrote(d, RecordedOp(d, c), { c.key }, c.run, c.att)
<1>1. CASE c.kind \in { "copy", "update" }
    <2>1. RecordedOp(d, c) = RecordCopyLike(d, c)
        BY <1>1 DEF RecordedOp
    <2> QED BY <1>1, <2>1, CopyLikeWrites DEF OpCommand
<1>2. CASE c.kind \in { "move", "recase", "move_update" }
    <2>1. RecordedOp(d, c) = IF MoveRefused(d, c) THEN None ELSE RecordMove(d, c)
        BY <1>2 DEF RecordedOp
    <2>2. RecordedOp(d, c) = RecordMove(d, c)
        BY <2>1
    <2> QED BY <2>2, MoveWrites
<1>3. CASE c.kind \in { "trash", "delete" }
    <2>1. RecordedOp(d, c) = RecordAbsent(d, c)
        BY <1>3 DEF RecordedOp
    <2> QED BY <2>1, AbsentWrites
<1>4. CASE c.kind = "noop"
    <2>1. RecordedOp(d, c) = RecordNoop(d, c)
        BY <1>4 DEF RecordedOp
    <2> QED BY <2>1, NoopWrites
<1> QED BY <1>1, <1>2, <1>3, <1>4 DEF OpCommand, OpKinds

ScanCommand(c) ==
    /\ c.type = "inventory" /\ c.scope \in Nat
    /\ DOMAIN c.found \subseteq Keys
    /\ \A k \in DOMAIN c.found : c.found[k] \in Stats \cup {None}

\* A scan writes any rows, and every row it inserts has an id of its own.
LEMMA ReconcileWrites ==
    ASSUME NEW d, Sound(d), NEW c, ScanCommand(c)
    PROVE  Wrote(d, ReconcileInventory(d, c), Keys, c.scope, None)
<1> DEFINE new == { k \in DOMAIN c.found : d.inv[k] = None }
           ids == Numbered(d, new)
           At(k) == IF k \notin DOMAIN c.found
                    THEN IF c.complete THEN MarkedMissing(d.inv[k], c.scope) ELSE d.inv[k]
                    ELSE IF c.found[k] = None THEN Unsupported(d.inv[k], ids[k], c.scope)
                    ELSE Observed(d.inv[k], ids[k], c.found[k], c.scope)
           inv == [k \in Keys |-> At(k)]
           e == ReconcileInventory(d, c)
<1>1. d = [inv |-> d.inv, pairs |-> d.pairs, bound |-> d.bound, run |-> d.run, done |-> d.done]
      /\ d.inv \in [Keys -> Rows \cup {None}] /\ d.pairs \subseteq Keys \X Nat
      /\ IsLedger(d) /\ Bounded(d)
    BY DEF Sound, IsLedger
<1>2. /\ Cardinality(new) \in Nat
      /\ \A k \in new : ids[k] \in Nat /\ ids[k] >= NewId(d)
                          /\ ids[k] <= NewId(d) + Cardinality(new) - 1
      /\ \A j, k \in new : ids[j] = ids[k] => j = k
    <2>1. new \in SUBSET Keys
        BY DEF ScanCommand
    <2> HIDE DEF new
    <2> QED BY <1>1, <2>1, NumberedIs
<1>3. NewId(d) \in Nat /\ \A k \in Keys : d.inv[k] # None => d.inv[k].id < NewId(d)
    BY <1>1, NewIdIs
<1>4. e = [d EXCEPT !.inv = inv]
    BY Zenon DEF ReconcileInventory
<1>5. \A k \in Keys :
          \/ At(k) = d.inv[k]
          \/ /\ At(k) \in Rows /\ At(k) # None /\ At(k).token = c.scope
             /\ d.inv[k] = None =>
                  k \in new /\ At(k).id = ids[k] /\ At(k).base = None /\ At(k).verified = 0
             /\ d.inv[k] # None =>
                  /\ At(k).id = d.inv[k].id /\ At(k).base = d.inv[k].base
                  /\ At(k).verified = d.inv[k].verified
    <2> SUFFICES ASSUME NEW k \in Keys, At(k) # d.inv[k]
                 PROVE  /\ At(k) \in Rows /\ At(k) # None /\ At(k).token = c.scope
                        /\ d.inv[k] = None =>
                             /\ k \in new /\ At(k).id = ids[k] /\ At(k).base = None
                             /\ At(k).verified = 0
                        /\ d.inv[k] # None =>
                             /\ At(k).id = d.inv[k].id /\ At(k).base = d.inv[k].base
                             /\ At(k).verified = d.inv[k].verified
        BY Zenon
    <2> DEFINE row == d.inv[k]
               id == IF row = None THEN ids[k] ELSE 0
    <2>1. row \in Rows \cup {None} /\ c.scope \in Nat
        BY <1>1 DEF ScanCommand
    <2>2. CASE k \notin DOMAIN c.found
        <3>1. At(k) = MarkedMissing(row, c.scope)
            BY <2>2
        <3> HIDE DEF At, row
        <3>2. /\ row # None /\ At(k) \in Rows /\ At(k) # None /\ At(k).token = c.scope
              /\ At(k).id = row.id /\ At(k).base = row.base /\ At(k).verified = row.verified
            BY <2>1, <3>1, MissingIs DEF row
        <3> QED BY <3>2 DEF row
    <2>3. CASE k \in DOMAIN c.found
        <3>1. row = None => k \in new
            BY <2>3
        <3>2. id \in Nat
            BY <1>2, <3>1
        <3>3. c.found[k] \in Stats \cup {None}
            BY <2>3 DEF ScanCommand
        <3>4. At(k) = IF c.found[k] = None THEN Unsupported(row, id, c.scope)
                      ELSE Observed(row, id, c.found[k], c.scope)
            <4>1. CASE row = None
                BY <2>3, <4>1
            <4>2. CASE row # None
                BY <2>3, <4>2, Zenon DEF Unsupported, Observed
            <4> QED BY <4>1, <4>2
        <3> HIDE DEF At, row, id
        <3>5. /\ At(k) \in Rows /\ At(k) # None /\ At(k).token = c.scope
              /\ row = None => At(k).id = id /\ At(k).base = None /\ At(k).verified = 0
              /\ row # None => /\ At(k).id = row.id /\ At(k).base = row.base
                               /\ At(k).verified = row.verified
            <4>1. CASE c.found[k] = None
                <5>1. At(k) = Unsupported(row, id, c.scope)
                    BY <3>4, <4>1
                <5>2. LET r == Unsupported(row, id, c.scope) IN
                      /\ r \in Rows /\ r # None /\ r.token = c.scope
                      /\ row = None => r.id = id /\ r.base = None /\ r.verified = 0
                      /\ row # None => /\ r.id = row.id /\ r.base = row.base
                                       /\ r.verified = row.verified
                    BY <2>1, <3>2, UnsupportedIs
                <5> QED BY <5>1, <5>2
            <4>2. CASE c.found[k] # None
                <5>1. At(k) = Observed(row, id, c.found[k], c.scope)
                    BY <3>4, <4>2
                <5>2. LET r == Observed(row, id, c.found[k], c.scope) IN
                      /\ r \in Rows /\ r # None /\ r.token = c.scope
                      /\ row = None => r.id = id /\ r.base = None /\ r.verified = 0
                      /\ row # None => /\ r.id = row.id /\ r.base = row.base
                                       /\ r.verified = row.verified
                    BY <2>1, <3>2, <3>3, ObservedIs
                <5> QED BY <5>1, <5>2
            <4> QED BY <4>1, <4>2
        <3>6. row = None => id = ids[k]
            BY DEF id
        <3> QED BY <3>1, <3>5, <3>6 DEF row
    <2> QED BY <2>2, <2>3
<1> HIDE DEF At, new, ids
<1>6. e = [inv |-> inv, pairs |-> d.pairs, bound |-> d.bound, run |-> d.run, done |-> d.done]
    BY <1>1, <1>4
<1>7. e.inv = inv /\ e.pairs = d.pairs /\ SameRun(d, e)
      /\ e = [inv |-> e.inv, pairs |-> e.pairs, bound |-> e.bound, run |-> e.run,
              done |-> e.done]
    BY <1>6 DEF SameRun
<1> HIDE DEF e
<1>8. \A k \in Keys : e.inv[k] = At(k)
    BY <1>7
<1>9. IsLedger(e)
    <2>1. e.inv \in [Keys -> Rows \cup {None}]
        BY <1>1, <1>5, <1>7
    <2> QED BY <1>1, <1>7, <2>1 DEF IsLedger
<1>10. \A k \in Keys : e.inv[k] # None =>
          \/ d.inv[k] # None /\ e.inv[k].id = d.inv[k].id
          \/ k \in new /\ d.inv[k] = None /\ e.inv[k].id = ids[k]
    BY <1>5, <1>8
<1>11. \A k \in Keys : d.inv[k] # None => e.inv[k] # None /\ e.inv[k].id = d.inv[k].id
    BY <1>5, <1>8
<1>12. \A k \in Keys : d.inv[k] # None => d.inv[k].id \in Nat
    BY <1>1 DEF Rows
<1>13. Bounded(e)
    <2>1. NewId(d) + Cardinality(new) \in Nat
          /\ \A k \in Keys : e.inv[k] # None => e.inv[k].id <= NewId(d) + Cardinality(new)
        BY <1>2, <1>3, <1>10, <1>12
    <2> QED BY <2>1 DEF Bounded
<1>14. OwnIds(e)
    <2> SUFFICES ASSUME NEW j \in Keys, NEW k \in Keys, e.inv[j] # None, e.inv[k] # None,
                        e.inv[j].id = e.inv[k].id
                 PROVE  j = k
        BY DEF OwnIds
    <2>1. CASE d.inv[j] # None /\ d.inv[k] # None
        BY <1>10, <2>1 DEF Sound, OwnIds
    <2>2. CASE d.inv[j] = None /\ d.inv[k] = None
        BY <1>2, <1>10, <2>2
    <2>3. CASE d.inv[j] = None /\ d.inv[k] # None
        BY <1>2, <1>3, <1>10, <1>12, <2>3
    <2>4. CASE d.inv[j] # None /\ d.inv[k] = None
        BY <1>2, <1>3, <1>10, <1>12, <2>4
    <2> QED BY <2>1, <2>2, <2>3, <2>4
<1>15. OneToOne(e)
    BY <1>7, <1>11 DEF Sound, OneToOne
<1>16. \A k \in Keys : e.inv[k] = d.inv[k] \/ Written(d, e.inv[k], c.scope, None)
    <2> SUFFICES ASSUME NEW k \in Keys, e.inv[k] # d.inv[k]
                 PROVE  Written(d, e.inv[k], c.scope, None)
        OBVIOUS
    <2>1. CASE d.inv[k] = None
        BY <1>5, <1>8, <2>1 DEF Written
    <2>2. CASE d.inv[k] # None
        BY <1>5, <1>8, <2>2 DEF Written
    <2> QED BY <2>1, <2>2
<1> QED BY <1>7, <1>9, <1>13, <1>14, <1>15, <1>16 DEF Wrote, RowsWritten, Sound, e

(***************************************************************************)
(* Evidence from a read goes to the row that is still the one the session  *)
(* was shown; its id and its stamp stay.                                   *)
(***************************************************************************)
IntegrityCommand(c) ==
    /\ c.type = "integrity" /\ c.key \in Keys /\ c.att \in Attestations
    /\ c.advances \in BOOLEAN /\ c.clears \in BOOLEAN

Verified(d, e, c) ==
    LET row == d.inv[c.key]
        r == e.inv[c.key]
    IN  /\ r \in Rows /\ r # None /\ r.id = row.id /\ r.token = row.token
        /\ r.base = c.att
        /\ r.verified = IF c.advances THEN c.att.at ELSE row.verified
        /\ r.reappeared => row.reappeared /\ ~ c.clears

LEMMA IntegrityWrites ==
    ASSUME NEW d, Sound(d), NEW c, IntegrityCommand(c), GuardHolds(d, c)
    PROVE  LET e == ApplyIntegrity(d, c) IN
           Sound(e) /\ OneRow(d, e, c.key, e.inv[c.key]) /\ Verified(d, e, c)
<1> DEFINE k == c.key
           row == d.inv[k]
           r == Reattested(row, c)
           e == ApplyIntegrity(d, c)
<1>1. k \in Keys /\ row # None /\ row \in Rows /\ IsLedger(d)
      /\ d.inv \in [Keys -> Rows \cup {None}]
      /\ d = [inv |-> d.inv, pairs |-> d.pairs, bound |-> d.bound, run |-> d.run,
              done |-> d.done]
    BY DEF IntegrityCommand, GuardHolds, Sound, IsLedger
<1>2. c.att \in Attestations /\ c.att.at \in Nat
    BY DEF IntegrityCommand, Attestations
<1>3. r \in Rows
    <2>1. (IF c.advances THEN c.att.at ELSE row.verified) \in Nat
        BY <1>1, <1>2 DEF Rows
    <2> QED BY <1>1, <1>2, <2>1, Zenon DEF Rows, Reattested
<1>4. /\ r # None /\ r.id = row.id /\ r.token = row.token /\ r.base = c.att
      /\ r.verified = IF c.advances THEN c.att.at ELSE row.verified
    BY <1>1, <1>3, LedgerAssumption DEF Rows, Reattested
<1>5. r.reappeared => row.reappeared /\ ~ c.clears
    BY <1>1, Zenon DEF Rows, Reattested
<1>6. e = [d EXCEPT !.inv[k] = r]
    BY Zenon DEF ApplyIntegrity
<1> HIDE DEF r, e
<1>7. OneRow(d, e, k, r)
    BY <1>1, <1>3, <1>6, RowPut
<1>8. Sound(e)
    BY <1>1, <1>3, <1>4, <1>7, RowKept
<1>9. e.inv[k] = r
    BY <1>7 DEF OneRow
<1> QED BY <1>3, <1>4, <1>5, <1>7, <1>8, <1>9 DEF Verified, e

-----------------------------------------------------------------------------
(***************************************************************************)
(* The transaction of a command                                            *)
(***************************************************************************)
LEMMA KeepIs ==
    ASSUME NEW d, Sound(d), NEW c, NEW result
    PROVE  LET e == Keep(d, c, result) IN
           /\ Sound(e) /\ e.inv = d.inv /\ e.bound = d.bound /\ e.run = d.run
           /\ d.done \subseteq e.done /\ Known(e, c) # {}
<1> DEFINE D == d.done \cup {[token |-> c.token, result |-> result]}
           e == Keep(d, c, result)
<1>1. d = [inv |-> d.inv, pairs |-> d.pairs, bound |-> d.bound, run |-> d.run, done |-> d.done]
    BY DEF Sound, IsLedger
<1>2. e = [inv |-> d.inv, pairs |-> d.pairs, bound |-> d.bound, run |-> d.run, done |-> D]
    BY <1>1 DEF Keep
<1>3. e.inv = d.inv /\ e.pairs = d.pairs /\ e.bound = d.bound /\ e.run = d.run /\ e.done = D
      /\ e = [inv |-> e.inv, pairs |-> e.pairs, bound |-> e.bound, run |-> e.run,
              done |-> e.done]
    BY <1>2
<1> HIDE DEF e
<1>4. Sound(e)
    BY <1>3 DEF Sound, IsLedger, Bounded, OwnIds, OneToOne
<1>5. [token |-> c.token, result |-> result] \in Known(e, c)
    BY <1>3 DEF Known
<1> QED BY <1>3, <1>4, <1>5 DEF e

\* A transaction that leaves the run alone and forgets no token.
Transacted(d, e) == Sound(e) /\ e.run = d.run /\ d.done \subseteq e.done

\* Evidence was written, or the command was stale.
Attested(d, e, c) ==
    \/ e.inv = d.inv
    \/ /\ GuardHolds(d, c) /\ Verified(d, e, c)
       /\ \A k \in Keys : k # c.key => e.inv[k] = d.inv[k]

IsCommand(c) == OpCommand(c) \/ ScanCommand(c) \/ IntegrityCommand(c)

LEMMA AnswerWrites ==
    ASSUME NEW d, Sound(d), NEW c, IsCommand(c)
    PROVE  LET a == Answer(d, c) IN
           /\ Transacted(d, a.db)
           /\ Known(d, c) # {} => a.db = d
           /\ a.result = "applied" => Known(a.db, c) # {}
           /\ OpCommand(c) => RowsWritten(d, a.db, { c.key }, c.run, c.att)
           /\ ScanCommand(c) => RowsWritten(d, a.db, Keys, c.scope, None)
           /\ IntegrityCommand(c) => Attested(d, a.db, c)
<1> DEFINE a == Answer(d, c)
<1>1. Transacted(d, d) /\ Attested(d, d, c)
      /\ \A keys, stamp, att : RowsWritten(d, d, keys, stamp, att)
    BY DEF Transacted, Attested, RowsWritten
<1>2. CASE Known(d, c) # {}
    <2>1. a.db = d /\ a.result # "applied"
        BY <1>2 DEF Answer
    <2> HIDE DEF a
    <2> QED BY <1>1, <2>1 DEF a
<1>3. CASE Known(d, c) = {} /\ OpCommand(c)
    <2> DEFINE e == RecordedOp(d, c)
    <2>1. ~ ScanCommand(c) /\ ~ IntegrityCommand(c) /\ c.type = "op"
        BY <1>3 DEF OpCommand, ScanCommand, IntegrityCommand
    <2>2. a = IF e = None THEN [db |-> d, result |-> "error"]
              ELSE [db |-> Keep(e, c, "applied"), result |-> "applied"]
        BY <1>3, <2>1 DEF Answer
    <2>3. CASE e = None
        <3>1. a.db = d /\ a.result # "applied"
            BY <2>2, <2>3
        <3> HIDE DEF a
        <3> QED BY <1>1, <1>3, <2>1, <3>1 DEF a
    <2>4. CASE e # None
        <3>1. Wrote(d, e, { c.key }, c.run, c.att)
            BY <1>3, <2>4, RecordedWrites
        <3>2. a.db = Keep(e, c, "applied")
            BY <2>2, <2>4
        <3> HIDE DEF a, e
        <3>3. /\ Sound(a.db) /\ a.db.inv = e.inv /\ a.db.run = e.run
              /\ e.done \subseteq a.db.done /\ Known(a.db, c) # {}
            BY <3>1, <3>2, KeepIs DEF Wrote
        <3>4. Transacted(d, a.db)
            BY <3>1, <3>3 DEF Wrote, SameRun, Transacted
        <3>5. RowsWritten(d, a.db, { c.key }, c.run, c.att)
            BY <3>1, <3>3 DEF Wrote, RowsWritten
        <3> QED BY <1>3, <2>1, <3>3, <3>4, <3>5 DEF a
    <2> QED BY <2>3, <2>4
<1>4. CASE Known(d, c) = {} /\ ScanCommand(c)
    <2> DEFINE e == ReconcileInventory(d, c)
    <2>1. ~ OpCommand(c) /\ ~ IntegrityCommand(c) /\ c.type = "inventory"
        BY <1>4 DEF OpCommand, ScanCommand, IntegrityCommand
    <2>2. Wrote(d, e, Keys, c.scope, None)
        BY <1>4, ReconcileWrites
    <2>3. a = [db |-> Keep(e, c, "applied"), result |-> "applied"]
        BY <1>4, <2>1 DEF Answer
    <2>4. a.db = Keep(e, c, "applied")
        BY <2>3
    <2> HIDE DEF a, e
    <2>5. /\ Sound(a.db) /\ a.db.inv = e.inv /\ a.db.run = e.run
          /\ e.done \subseteq a.db.done /\ Known(a.db, c) # {}
        BY <2>2, <2>4, KeepIs DEF Wrote
    <2>6. Transacted(d, a.db)
        BY <2>2, <2>5 DEF Wrote, SameRun, Transacted
    <2>7. RowsWritten(d, a.db, Keys, c.scope, None)
        BY <2>2, <2>5 DEF Wrote, RowsWritten
    <2> QED BY <1>4, <2>1, <2>5, <2>6, <2>7 DEF a
<1>5. CASE Known(d, c) = {} /\ IntegrityCommand(c)
    <2>1. ~ OpCommand(c) /\ ~ ScanCommand(c) /\ c.type = "integrity"
        BY <1>5 DEF OpCommand, ScanCommand, IntegrityCommand
    <2>2. a = IF GuardHolds(d, c)
              THEN [db |-> Keep(ApplyIntegrity(d, c), c, "applied"), result |-> "applied"]
              ELSE [db |-> Keep(d, c, "stale"), result |-> "stale"]
        BY <1>5, <2>1 DEF Answer
    <2>3. CASE GuardHolds(d, c)
        <3> DEFINE e == ApplyIntegrity(d, c)
        <3>1. Sound(e) /\ OneRow(d, e, c.key, e.inv[c.key]) /\ Verified(d, e, c)
            BY <1>5, <2>3, IntegrityWrites
        <3>2. a.db = Keep(e, c, "applied")
            BY <2>2, <2>3
        <3> HIDE DEF a, e
        <3>3. /\ Sound(a.db) /\ a.db.inv = e.inv /\ a.db.run = e.run
              /\ e.done \subseteq a.db.done /\ Known(a.db, c) # {}
            BY <3>1, <3>2, KeepIs
        <3>4. Transacted(d, a.db)
            BY <3>1, <3>3 DEF OneRow, SameRun, Transacted
        <3>5. Attested(d, a.db, c)
            BY <2>3, <3>1, <3>3 DEF OneRow, Verified, Attested
        <3> QED BY <1>5, <2>1, <3>3, <3>4, <3>5 DEF a
    <2>4. CASE ~ GuardHolds(d, c)
        <3>1. a.db = Keep(d, c, "stale") /\ a.result # "applied"
            BY <2>2, <2>4
        <3> HIDE DEF a
        <3>2. /\ Sound(a.db) /\ a.db.inv = d.inv /\ a.db.run = d.run /\ d.done \subseteq a.db.done
            BY <3>1, KeepIs
        <3> QED BY <1>5, <2>1, <3>1, <3>2 DEF Transacted, Attested, a
    <2> QED BY <2>3, <2>4
<1> QED BY <1>2, <1>3, <1>4, <1>5 DEF IsCommand

\* The ledger after a transaction is the one before or the one of the answer,
\* and a command is only lost after it was applied.
LEMMA TransactIs ==
    ASSUME NEW c, NEW result, Transact(c, result)
    PROVE  /\ db' \in { db, Answer(db, c).db }
           /\ events' \in { events, events + 1 }
           /\ \/ lost' = lost
              \/ /\ lost = None /\ lost' = c
                 /\ db' = Answer(db, c).db /\ Answer(db, c).result = "applied"
BY DEF Transact, Event

\* What a command leaves of the ledger, however it was answered.
Effect(c) ==
    /\ Transacted(db, db')
    /\ OpCommand(c) => RowsWritten(db, db', { c.key }, c.run, c.att)
    /\ ScanCommand(c) => RowsWritten(db, db', Keys, c.scope, None)
    /\ IntegrityCommand(c) => Attested(db, db', c)

LEMMA EffectIs ==
    ASSUME Sound(db), NEW c, IsCommand(c), NEW result, Transact(c, result)
    PROVE  Effect(c) /\ (lost' # lost => lost = None /\ Known(db', lost') # {})
<1>1. CASE db' = db /\ lost' = lost
    BY <1>1 DEF Effect, Transacted, RowsWritten, Attested
<1>2. CASE db' = Answer(db, c).db
    <2>1. /\ Transacted(db, db')
          /\ Answer(db, c).result = "applied" => Known(db', c) # {}
          /\ OpCommand(c) => RowsWritten(db, db', { c.key }, c.run, c.att)
          /\ ScanCommand(c) => RowsWritten(db, db', Keys, c.scope, None)
          /\ IntegrityCommand(c) => Attested(db, db', c)
        BY <1>2, AnswerWrites
    <2> QED BY <2>1, TransactIs DEF Effect
<1> QED BY <1>1, <1>2, TransactIs

-----------------------------------------------------------------------------
(***************************************************************************)
(* Sessions: which items are settled                                       *)
(***************************************************************************)
IsWork(w) ==
    w = [key |-> w.key, before |-> w.before, read |-> w.read, command |-> w.command]

IsSession(s) ==
    s = [pc |-> s.pc, mode |-> s.mode, completed |-> s.completed, work |-> s.work,
         items |-> s.items]

SessionShape ==
    /\ ses = [v \in Sessions |-> ses[v]] /\ \A v \in Sessions : IsSession(ses[v])
    /\ emitted = [v \in Sessions |-> emitted[v]]
    /\ \A v \in Sessions : emitted[v] = [k \in Keys |-> emitted[v][k]]

AtWorkPc == { "read", "record" }

ActivePc == { "next", "paused" } \cup AtWorkPc

\* The outcomes of a session are those of its completed items, one for each.
Settling(v) ==
    /\ ses[v].pc \in { "idle", "done", "canceled" } \cup ActivePc
    /\ DOMAIN ses[v].items \subseteq Keys /\ ses[v].completed \subseteq DOMAIN ses[v].items
    /\ ses[v].pc = "idle" => DOMAIN ses[v].items = {}
    /\ ses[v].pc \in { "done", "canceled" } => ses[v].completed = DOMAIN ses[v].items
    /\ IsWork(ses[v].work)
    /\ ses[v].pc \in AtWorkPc => ses[v].work.key \in Pending(v)
    /\ \A k \in Keys : IF k \in ses[v].completed THEN \E o : emitted[v][k] = <<o>>
                                                 ELSE emitted[v][k] = <<>>

SettledInv == SessionShape /\ \A v \in Sessions : Settling(v)

\* A step of one session.
Alone(v) == \A w \in Sessions : w # v => ses'[w] = ses[w] /\ emitted'[w] = emitted[w]

LEMMA EmitIs ==
    ASSUME SessionShape, NEW v \in Sessions, NEW k \in Keys, NEW o, Emit(v, k, o)
    PROVE  /\ SessionShape' /\ Alone(v)
           /\ ses'[v].pc = "next" /\ ses'[v].work = NoItem
           /\ ses'[v].mode = ses[v].mode /\ ses'[v].items = ses[v].items
           /\ ses'[v].completed = ses[v].completed \cup {k}
           /\ emitted'[v][k] = Append(emitted[v][k], o)
           /\ \A j \in Keys : j # k => emitted'[v][j] = emitted[v][j]
<1>1. ses' = [w \in Sessions |-> ses'[w]] /\ \A w \in Sessions : IsSession(ses'[w])
    BY DEF Emit, IsSession, SessionShape
<1>2. \A w \in Sessions : w # v => ses'[w] = ses[w]
    BY DEF Emit, SessionShape
<1>3. /\ ses'[v].pc = "next" /\ ses'[v].work = NoItem
      /\ ses'[v].mode = ses[v].mode /\ ses'[v].items = ses[v].items
      /\ ses'[v].completed = ses[v].completed \cup {k}
    BY DEF Emit, IsSession, SessionShape
<1>4. /\ emitted' = [w \in Sessions |-> emitted'[w]]
      /\ \A w \in Sessions : w # v => emitted'[w] = emitted[w]
      /\ emitted'[v] = [emitted[v] EXCEPT ![k] = Append(emitted[v][k], o)]
    BY DEF Emit, SessionShape
<1>5. emitted[v] = [j \in Keys |-> emitted[v][j]]
    BY DEF SessionShape
<1>6. /\ emitted'[v][k] = Append(emitted[v][k], o)
      /\ \A j \in Keys : j # k => emitted'[v][j] = emitted[v][j]
      /\ emitted'[v] = [j \in Keys |-> emitted'[v][j]]
    BY <1>4, <1>5
<1>7. \A w \in Sessions : emitted'[w] = [j \in Keys |-> emitted'[w][j]]
    BY <1>4, <1>6 DEF SessionShape
<1> QED BY <1>1, <1>2, <1>3, <1>4, <1>6, <1>7 DEF SessionShape, Alone

LEMMA GotoIs ==
    ASSUME SessionShape, NEW v \in Sessions, NEW pc, NEW work, Goto(v, pc, work),
           UNCHANGED emitted
    PROVE  /\ SessionShape' /\ Alone(v)
           /\ ses'[v].pc = pc /\ ses'[v].work = work
           /\ ses'[v].mode = ses[v].mode /\ ses'[v].items = ses[v].items
           /\ ses'[v].completed = ses[v].completed
<1>1. ses' = [w \in Sessions |-> ses'[w]] /\ \A w \in Sessions : IsSession(ses'[w])
    BY DEF Goto, IsSession, SessionShape
<1>2. \A w \in Sessions : w # v => ses'[w] = ses[w]
    BY DEF Goto, SessionShape
<1>3. /\ ses'[v].pc = pc /\ ses'[v].work = work
      /\ ses'[v].mode = ses[v].mode /\ ses'[v].items = ses[v].items
      /\ ses'[v].completed = ses[v].completed
    <2>1. /\ ses = [w \in Sessions |-> ses[w]]
          /\ ses[v] = [pc |-> ses[v].pc, mode |-> ses[v].mode, completed |-> ses[v].completed,
                       work |-> ses[v].work, items |-> ses[v].items]
        BY DEF SessionShape, IsSession
    <2>2. ses' = [ses EXCEPT ![v].pc = pc, ![v].work = work]
        BY DEF Goto
    <2> QED BY <2>1, <2>2
<1> QED BY <1>1, <1>2, <1>3 DEF SessionShape, Alone

LEMMA SelectIs ==
    ASSUME SessionShape, NEW v \in Sessions, NEW mode, Select(v, mode)
    PROVE  /\ SessionShape' /\ Alone(v) /\ UNCHANGED emitted
           /\ ses[v].pc = "idle"
           /\ ses'[v].pc = "next" /\ ses'[v].mode = mode /\ ses'[v].completed = {}
           /\ ses'[v].work = NoItem
           /\ ses'[v].items = [k \in { j \in Keys : db.inv[j] # None } |-> db.inv[k]]
<1> DEFINE s == [pc |-> "next", mode |-> mode, completed |-> {}, work |-> NoItem,
                 items |-> [k \in { j \in Keys : db.inv[j] # None } |-> db.inv[k]]]
<1>1. ses' = [ses EXCEPT ![v] = s] /\ UNCHANGED emitted /\ ses[v].pc = "idle"
    BY DEF Select
<1>2. IsSession(s)
    BY DEF IsSession
<1> HIDE DEF s
<1>3. /\ ses' = [w \in Sessions |-> ses'[w]] /\ ses'[v] = s
      /\ \A w \in Sessions : w # v => ses'[w] = ses[w]
    BY <1>1 DEF SessionShape
<1>4. SessionShape' /\ Alone(v)
    BY <1>1, <1>2, <1>3 DEF SessionShape, Alone
<1> QED BY <1>1, <1>3, <1>4 DEF s

\* A session that is over.
LEMMA OverIs ==
    ASSUME SessionShape, NEW v \in Sessions, NEW pc, ses' = [ses EXCEPT ![v] = Over(v, pc)]
    PROVE  /\ ses' = [w \in Sessions |-> ses'[w]] /\ \A w \in Sessions : IsSession(ses'[w])
           /\ \A w \in Sessions : w # v => ses'[w] = ses[w]
           /\ ses'[v].pc = pc /\ ses'[v].completed = DOMAIN ses[v].items
           /\ ses'[v].work = NoItem /\ DOMAIN ses'[v].items = DOMAIN ses[v].items
<1> DEFINE s == Over(v, pc)
<1>1. /\ IsSession(s) /\ s.pc = pc /\ s.completed = DOMAIN ses[v].items
      /\ s.work = NoItem /\ DOMAIN s.items = DOMAIN ses[v].items
    BY DEF Over, IsSession
<1> HIDE DEF s
<1>2. /\ ses' = [w \in Sessions |-> ses'[w]] /\ ses'[v] = s
      /\ \A w \in Sessions : w # v => ses'[w] = ses[w]
    BY DEF SessionShape, s
<1> QED BY <1>1, <1>2 DEF SessionShape

LEMMA NoItemIsWork == IsWork(NoItem)
BY DEF IsWork, NoItem

LEMMA OthersSettle ==
    ASSUME SettledInv, NEW v \in Sessions, Alone(v), NEW w \in Sessions, w # v
    PROVE  Settling(w)'
BY DEF SettledInv, Alone, Settling, Pending

\* An outcome for a pending item settles it.
LEMMA EmitSettles ==
    ASSUME SettledInv, NEW v \in Sessions, ses[v].pc \in ActivePc, NEW k \in Pending(v), NEW o,
           Emit(v, k, o)
    PROVE  SettledInv'
<1>1. k \in Keys /\ SessionShape /\ Settling(v) /\ k \in DOMAIN ses[v].items
      /\ k \notin ses[v].completed
    BY DEF SettledInv, Settling, Pending
<1>2. /\ SessionShape' /\ Alone(v)
      /\ ses'[v].pc = "next" /\ ses'[v].work = NoItem
      /\ ses'[v].items = ses[v].items
      /\ ses'[v].completed = ses[v].completed \cup {k}
      /\ emitted'[v][k] = Append(emitted[v][k], o)
      /\ \A j \in Keys : j # k => emitted'[v][j] = emitted[v][j]
    BY <1>1, EmitIs
<1>3. emitted'[v][k] = <<o>>
    <2>1. emitted[v][k] = <<>>
        BY <1>1 DEF Settling
    <2> QED BY <1>2, <2>1
<1>4. \A j \in Keys : IF j \in ses'[v].completed THEN \E q : emitted'[v][j] = <<q>>
                                                ELSE emitted'[v][j] = <<>>
    BY <1>1, <1>2, <1>3 DEF Settling
<1>5. Settling(v)'
    BY <1>1, <1>2, <1>4, NoItemIsWork DEF Settling, Pending, ActivePc, AtWorkPc
<1> QED BY <1>2, <1>5, OthersSettle DEF SettledInv

\* A step that gives no outcome leaves its item pending.
LEMMA GotoSettles ==
    ASSUME SettledInv, NEW v \in Sessions, ses[v].pc \in ActivePc,
           NEW pc \in ActivePc, NEW work, IsWork(work),
           pc \in AtWorkPc => work.key \in Pending(v),
           Goto(v, pc, work), UNCHANGED emitted
    PROVE  SettledInv'
<1>1. SessionShape /\ Settling(v)
    BY DEF SettledInv
<1>2. /\ SessionShape' /\ Alone(v)
      /\ ses'[v].pc = pc /\ ses'[v].work = work
      /\ ses'[v].items = ses[v].items /\ ses'[v].completed = ses[v].completed
    BY <1>1, GotoIs
<1>3. Settling(v)'
    BY <1>1, <1>2 DEF Settling, Pending, ActivePc, AtWorkPc
<1> QED BY <1>2, <1>3, OthersSettle DEF SettledInv

LEMMA SettledInit == Init => SettledInv
<1> SUFFICES ASSUME Init PROVE SettledInv
    OBVIOUS
<1> DEFINE s == [pc |-> "idle", mode |-> None, completed |-> {}, work |-> NoItem,
                 items |-> [k \in {} |-> None]]
<1>1. /\ ses = [v \in Sessions |-> s]
      /\ emitted = [v \in Sessions |-> [k \in Keys |-> <<>>]]
    BY DEF Init
<1>2. /\ IsSession(s) /\ s.pc = "idle" /\ s.completed = {} /\ s.work = NoItem
      /\ DOMAIN s.items = {}
    BY DEF IsSession
<1> HIDE DEF s
<1>3. SessionShape
    BY <1>1, <1>2 DEF SessionShape
<1>4. \A v \in Sessions : Settling(v)
    BY <1>1, <1>2, NoItemIsWork DEF Settling, ActivePc, AtWorkPc
<1> QED BY <1>3, <1>4 DEF SettledInv

LEMMA SettledStep ==
    ASSUME SettledInv, [Next]_vars
    PROVE  SettledInv'
<1>1. ASSUME UNCHANGED << ses, emitted >> PROVE SettledInv'
    BY <1>1 DEF SettledInv, SessionShape, Settling, Pending
<1>2. ASSUME NEW v \in Sessions, Step(v) PROVE SettledInv'
    <2>1. Settling(v) /\ SessionShape
        BY DEF SettledInv
    <2>2. ASSUME NEW mode \in Modes, Select(v, mode) PROVE SettledInv'
        <3>1. /\ SessionShape' /\ Alone(v) /\ UNCHANGED emitted /\ ses[v].pc = "idle"
              /\ ses'[v].pc = "next" /\ ses'[v].completed = {} /\ ses'[v].work = NoItem
              /\ ses'[v].items = [k \in { j \in Keys : db.inv[j] # None } |-> db.inv[k]]
            BY <2>1, <2>2, SelectIs
        <3>2. DOMAIN ses'[v].items \subseteq Keys
            BY <3>1
        <3>3. \A k \in Keys : emitted[v][k] = <<>>
            BY <2>1, <3>1 DEF Settling
        <3>4. Settling(v)'
            BY <3>1, <3>2, <3>3, NoItemIsWork DEF Settling, ActivePc, AtWorkPc
        <3> QED BY <3>1, <3>4, OthersSettle DEF SettledInv
    <2>3. ASSUME NEW k \in Keys, Begin(v, k) PROVE SettledInv'
        <3>1. ses[v].pc \in ActivePc /\ k \in Pending(v)
            BY <2>3 DEF Begin, ActivePc
        <3>2. CASE \E o : Emit(v, k, o)
            BY <3>1, <3>2, EmitSettles
        <3> DEFINE work == [key |-> k, before |-> Live(k), read |-> <<>>, command |-> None]
        <3>3. CASE Goto(v, "read", work) /\ UNCHANGED emitted
            <4>1. IsWork(work) /\ work.key \in Pending(v)
                BY <3>1 DEF IsWork
            <4> HIDE DEF work
            <4> QED BY <3>1, <3>3, <4>1, GotoSettles DEF ActivePc, AtWorkPc
        <3> QED BY <2>3, <3>2, <3>3 DEF Begin
    <2>4. CASE Read(v)
        <3> DEFINE work == ses[v].work
                   read == Append(work.read, objs[work.before.id].data[Len(work.read) + 1])
                   new == [work EXCEPT !.read = read]
        <3>1. IsWork(work) /\ work.key \in Pending(v) /\ ses[v].pc \in ActivePc
            BY <2>1, <2>4 DEF Read, Settling, ActivePc, AtWorkPc
        <3>2. Goto(v, "read", new) /\ UNCHANGED emitted
            BY <2>4, Zenon DEF Read
        <3> HIDE DEF read
        <3>3. IsWork(new) /\ new.key = work.key
            BY <3>1 DEF IsWork
        <3> HIDE DEF new
        <3> QED BY <3>1, <3>2, <3>3, GotoSettles DEF ActivePc, AtWorkPc
    <2>5. CASE ReadFails(v)
        <3>1. ses[v].work.key \in Pending(v) /\ ses[v].pc \in ActivePc
            BY <2>1, <2>5 DEF ReadFails, Settling, ActivePc, AtWorkPc
        <3> QED BY <2>5, <3>1, EmitSettles DEF ReadFails
    <2>6. CASE Hashed(v)
        <3> DEFINE work == ses[v].work
                   new == [work EXCEPT !.command = Command(v)]
        <3>1. IsWork(work) /\ work.key \in Pending(v) /\ ses[v].pc \in ActivePc
            BY <2>1, <2>6 DEF Hashed, Settling, ActivePc, AtWorkPc
        <3>2. CASE \E o : Emit(v, work.key, o)
            BY <3>1, <3>2, EmitSettles
        <3>3. CASE Goto(v, "record", new) /\ UNCHANGED emitted
            <4>1. IsWork(new) /\ new.key = work.key
                BY <3>1 DEF IsWork
            <4> HIDE DEF new
            <4> QED BY <3>1, <3>3, <4>1, GotoSettles DEF ActivePc, AtWorkPc
        <3> QED BY <2>6, <3>2, <3>3 DEF Hashed
    <2>7. CASE Record(v)
        <3>1. ses[v].work.key \in Pending(v) /\ ses[v].pc \in ActivePc
            BY <2>1, <2>7 DEF Record, Settling, ActivePc, AtWorkPc
        <3>2. \E o : Emit(v, ses[v].work.key, o)
            BY <2>7 DEF Record
        <3> QED BY <3>1, <3>2, EmitSettles
    <2>8. CASE Done(v)
        <3>1. /\ ses' = [ses EXCEPT ![v] = Over(v, "done")] /\ UNCHANGED emitted
              /\ ses[v].completed = DOMAIN ses[v].items
            BY <2>1, <2>8 DEF Done, Settling, Pending
        <3>2. /\ ses' = [w \in Sessions |-> ses'[w]] /\ \A w \in Sessions : IsSession(ses'[w])
              /\ \A w \in Sessions : w # v => ses'[w] = ses[w]
              /\ ses'[v].pc = "done" /\ ses'[v].completed = DOMAIN ses[v].items
              /\ ses'[v].work = NoItem /\ DOMAIN ses'[v].items = DOMAIN ses[v].items
            BY <2>1, <3>1, OverIs
        <3>3. SessionShape' /\ Alone(v)
            BY <2>1, <3>1, <3>2 DEF SessionShape, Alone
        <3>4. Settling(v)'
            BY <2>1, <3>1, <3>2, NoItemIsWork DEF Settling, ActivePc, AtWorkPc
        <3> QED BY <3>3, <3>4, OthersSettle DEF SettledInv
    <2>9. CASE Pause(v)
        <3>1. ses[v].pc \in ActivePc /\ Goto(v, "paused", NoItem) /\ UNCHANGED emitted
            BY <2>9 DEF Pause, AtCheckpoint, ActivePc, AtWorkPc
        <3> QED BY <3>1, GotoSettles, NoItemIsWork DEF ActivePc, AtWorkPc
    <2>10. CASE Resume(v)
        <3>1. ses[v].pc \in ActivePc /\ Goto(v, "next", NoItem) /\ UNCHANGED emitted
            BY <2>10 DEF Resume, ActivePc, AtWorkPc
        <3> QED BY <3>1, GotoSettles, NoItemIsWork DEF ActivePc, AtWorkPc
    <2>11. CASE Cancel(v)
        <3> DEFINE new == [k \in Keys |-> IF k \in Pending(v)
                                          THEN Append(emitted[v][k], Outcome("canceled", "ok"))
                                          ELSE emitted[v][k]]
        <3>1. /\ ses' = [ses EXCEPT ![v] = Over(v, "canceled")]
              /\ emitted' = [emitted EXCEPT ![v] = new]
            BY <2>11, Zenon DEF Cancel
        <3>2. /\ ses' = [w \in Sessions |-> ses'[w]] /\ \A w \in Sessions : IsSession(ses'[w])
              /\ \A w \in Sessions : w # v => ses'[w] = ses[w]
              /\ ses'[v].pc = "canceled" /\ ses'[v].completed = DOMAIN ses[v].items
              /\ ses'[v].work = NoItem /\ DOMAIN ses'[v].items = DOMAIN ses[v].items
            BY <2>1, <3>1, OverIs
        <3>3. \A k \in Keys : IF k \in DOMAIN ses[v].items THEN \E o : new[k] = <<o>>
                                                           ELSE new[k] = <<>>
            <4> SUFFICES ASSUME NEW k \in Keys
                         PROVE  IF k \in DOMAIN ses[v].items THEN \E o : new[k] = <<o>>
                                                             ELSE new[k] = <<>>
                OBVIOUS
            <4>1. CASE k \in Pending(v)
                <5>1. emitted[v][k] = <<>> /\ k \in DOMAIN ses[v].items
                    BY <2>1, <4>1 DEF Settling, Pending
                <5> DEFINE o == Outcome("canceled", "ok")
                <5>2. new[k] = Append(emitted[v][k], o)
                    BY <4>1
                <5> HIDE DEF o, new
                <5>3. new[k] = <<o>>
                    BY <5>1, <5>2
                <5> QED BY <5>1, <5>3
            <4>2. CASE k \notin Pending(v)
                <5>1. new[k] = emitted[v][k]
                    BY <4>2
                <5>2. k \in ses[v].completed <=> k \in DOMAIN ses[v].items
                    BY <2>1, <4>2 DEF Settling, Pending
                <5> QED BY <2>1, <5>1, <5>2 DEF Settling
            <4> QED BY <4>1, <4>2
        <3>4. new = [k \in Keys |-> new[k]]
            OBVIOUS
        <3> HIDE DEF new
        <3>5. /\ emitted' = [w \in Sessions |-> emitted'[w]] /\ emitted'[v] = new
              /\ \A w \in Sessions : w # v => emitted'[w] = emitted[w]
            BY <2>1, <3>1 DEF SessionShape
        <3>6. \A w \in Sessions : emitted'[w] = [k \in Keys |-> emitted'[w][k]]
            <4> SUFFICES ASSUME NEW w \in Sessions
                         PROVE  emitted'[w] = [k \in Keys |-> emitted'[w][k]]
                OBVIOUS
            <4>1. CASE w = v
                BY <3>4, <3>5, <4>1
            <4>2. CASE w # v
                BY <2>1, <3>5, <4>2 DEF SessionShape
            <4> QED BY <4>1, <4>2
        <3>7. SessionShape' /\ Alone(v)
            BY <3>2, <3>5, <3>6 DEF SessionShape, Alone
        <3>8. Settling(v)'
            BY <2>1, <3>2, <3>3, <3>5, NoItemIsWork DEF Settling, ActivePc, AtWorkPc
        <3> QED BY <3>7, <3>8, OthersSettle DEF SettledInv
    <2> QED BY <1>2, <2>2, <2>3, <2>4, <2>5, <2>6, <2>7, <2>8, <2>9, <2>10, <2>11 DEF Step
<1> QED BY <1>1, <1>2 DEF Next, vars

(***************************************************************************)
(* However a session is paused, resumed and canceled, an item it selected  *)
(* gets one outcome: the outcomes are those of the continuation's          *)
(* completed items.  Code: _emit_and_complete, _process_item, the unwind   *)
(* of a cancellation.                                                      *)
(***************************************************************************)
THEOREM OneOutcomeEach == Spec => []SettledOnce
<1>1. SettledInv => SettledOnce
    <2> SUFFICES ASSUME SettledInv, NEW v \in Sessions, NEW k \in DOMAIN ses[v].items
                 PROVE  /\ Len(emitted[v][k]) <= 1
                        /\ ses[v].pc \in { "done", "canceled" } => Len(emitted[v][k]) = 1
        BY DEF SettledOnce
    <2>1. Settling(v) /\ k \in Keys
        BY DEF SettledInv, Settling
    <2>2. CASE k \in ses[v].completed
        <3>1. PICK o : emitted[v][k] = <<o>>
            BY <2>1, <2>2 DEF Settling
        <3>2. Len(emitted[v][k]) = 1
            BY <3>1
        <3> QED BY <3>2
    <2>3. CASE k \notin ses[v].completed
        <3>1. Len(emitted[v][k]) = 0
            BY <2>1, <2>3 DEF Settling
        <3> QED BY <2>1, <2>3, <3>1 DEF Settling
    <2> QED BY <2>2, <2>3
<1>2. SettledInv /\ [Next]_vars => SettledInv'
    BY SettledStep
<1> QED BY <1>1, <1>2, SettledInit, PTL DEF Spec

-----------------------------------------------------------------------------
(***************************************************************************)
(* The disk: identities are numbered without a gap, no stamp is ahead of   *)
(* the clock, and what a file holds now is among what files ever held.     *)
(***************************************************************************)
Contents == [mtime : Nat, data : Int \X Int]

DiskInv ==
    /\ clock \in Nat /\ events \in Nat
    /\ \E n \in Nat : DOMAIN objs = 1 .. n
    /\ objs \in [DOMAIN objs -> Contents]
    /\ tree \in [Keys -> DOMAIN objs \cup {None}]
    /\ \A i \in DOMAIN objs :
          objs[i].mtime <= clock /\ <<[id |-> i, mtime |-> objs[i].mtime], objs[i].data>> \in had

\* A step leaves a file alone, gives it a stamp no one has seen, or lets one of
\* its chunks decay.
Aged(i) ==
    /\ i \in DOMAIN objs'
    /\ \/ objs'[i] = objs[i]
       \/ objs'[i].mtime > clock
       \/ /\ objs'[i].mtime = objs[i].mtime
          /\ objs[i].data[1] # -1
          /\ objs'[i].data \in { <<-1, objs[i].data[2]>>, <<objs[i].data[1], -1>> }

Aging ==
    /\ had \subseteq had' /\ clock <= clock' /\ events <= events'
    /\ \A i \in DOMAIN objs : Aged(i)

LEMMA FreshIs ==
    ASSUME DiskInv
    PROVE  /\ Fresh \in Nat /\ Fresh \notin DOMAIN objs
           /\ \E n \in Nat : DOMAIN objs \cup {Fresh} = 1 .. n
           /\ \A i \in DOMAIN objs : i \in Nat
<1>1. PICK n \in Nat : DOMAIN objs = 1 .. n
    BY DEF DiskInv
<1>2. Cardinality(1 .. n) = n
    BY FS_Interval
<1>3. Fresh = n + 1
    BY <1>1, <1>2 DEF Fresh
<1>4. 1 .. n + 1 = (1 .. n) \cup {n + 1}
    OBVIOUS
<1> QED BY <1>1, <1>3, <1>4

\* A step that leaves every file alone.
LEMMA FilesStay ==
    ASSUME DiskInv, UNCHANGED << objs, had >>, clock' \in Nat, clock <= clock',
           events' \in Nat, events <= events', tree' \in [Keys -> DOMAIN objs \cup {None}]
    PROVE  DiskInv' /\ Aging
<1>1. \A i \in DOMAIN objs : objs[i].mtime \in Nat
    BY DEF DiskInv, Contents
<1> QED BY <1>1 DEF DiskInv, Aging, Aged

LEMMA EditAges ==
    ASSUME DiskInv, NEW k \in Keys, Edit(k)
    PROVE  DiskInv' /\ Aging
<1> DEFINE i == tree[k]
           file == [mtime |-> clock', data |-> Whole(clock')]
<1>1. /\ i \in DOMAIN objs /\ clock' = clock + 1 /\ events' = events + 1 /\ tree' = tree
      /\ objs' = [objs EXCEPT ![i] = file]
      /\ had' = had \cup {<<[id |-> i, mtime |-> clock'], Whole(clock')>>}
    BY DEF Edit, Drifted, Event, DiskInv
<1>2. file \in Contents /\ file.mtime = clock + 1 /\ file.data = Whole(clock') /\ clock \in Nat
      /\ events \in Nat
    BY <1>1 DEF DiskInv, Contents, Whole
<1> HIDE DEF file, i
<1>3. /\ DOMAIN objs' = DOMAIN objs /\ objs' \in [DOMAIN objs -> Contents]
      /\ objs'[i] = file /\ \A j \in DOMAIN objs : j # i => objs'[j] = objs[j]
    BY <1>1, <1>2 DEF DiskInv
<1>4. \A j \in DOMAIN objs : objs[j].mtime \in Nat
    BY DEF DiskInv, Contents
<1>5. \A j \in DOMAIN objs :
          /\ objs'[j].mtime <= clock'
          /\ <<[id |-> j, mtime |-> objs'[j].mtime], objs'[j].data>> \in had'
    BY <1>1, <1>2, <1>3, <1>4 DEF DiskInv
<1>6. DiskInv'
    BY <1>1, <1>2, <1>3, <1>5 DEF DiskInv
<1>7. Aging
    BY <1>1, <1>2, <1>3 DEF Aging, Aged
<1> QED BY <1>6, <1>7

LEMMA RotAges ==
    ASSUME DiskInv, NEW k \in Keys, NEW chunk \in {1, 2}, Rot(k, chunk)
    PROVE  DiskInv' /\ Aging
<1> DEFINE i == tree[k]
           data == Decayed(objs[i].data, chunk)
<1>1. /\ i \in DOMAIN objs /\ UNCHANGED << clock, tree >> /\ events' = events + 1
      /\ objs' = [objs EXCEPT ![i].data = data]
      /\ had' = had \cup {<<Live(k), objs'[i].data>>}
      /\ objs[i].data[1] # -1
    BY DEF Rot, Drifted, Event, DiskInv
<1>2. Live(k) = [id |-> i, mtime |-> objs[i].mtime]
    BY <1>1 DEF Live, Stat, Rot
<1>3. objs[i] \in Contents /\ objs \in [DOMAIN objs -> Contents] /\ clock \in Nat /\ events \in Nat
    BY <1>1 DEF DiskInv
<1>4. data \in Int \X Int /\ data \in { <<-1, objs[i].data[2]>>, <<objs[i].data[1], -1>> }
    BY <1>3 DEF Contents, Decayed
<1> HIDE DEF data, i
<1>5. /\ DOMAIN objs' = DOMAIN objs /\ objs' \in [DOMAIN objs -> Contents]
      /\ objs'[i].data = data /\ objs'[i].mtime = objs[i].mtime
      /\ \A j \in DOMAIN objs : j # i => objs'[j] = objs[j]
    BY <1>1, <1>3, <1>4 DEF Contents
<1>6. \A j \in DOMAIN objs :
          /\ objs'[j].mtime <= clock'
          /\ <<[id |-> j, mtime |-> objs'[j].mtime], objs'[j].data>> \in had'
    <2> SUFFICES ASSUME NEW j \in DOMAIN objs
                 PROVE  /\ objs'[j].mtime <= clock'
                        /\ <<[id |-> j, mtime |-> objs'[j].mtime], objs'[j].data>> \in had'
        OBVIOUS
    <2>1. CASE j = i
        <3>1. [id |-> j, mtime |-> objs'[j].mtime] = Live(k)
            BY <1>2, <1>5, <2>1
        <3>2. <<Live(k), objs'[j].data>> \in had'
            BY <1>1, <2>1
        <3>3. objs[i].mtime <= clock
            BY <1>1 DEF DiskInv
        <3>4. objs'[j].mtime <= clock'
            BY <1>1, <1>5, <2>1, <3>3
        <3> QED BY <3>1, <3>2, <3>4, Zenon
    <2>2. CASE j # i
        BY <1>1, <1>5, <2>2 DEF DiskInv
    <2> QED BY <2>1, <2>2
<1>7. DiskInv'
    BY <1>1, <1>3, <1>5, <1>6 DEF DiskInv
<1>8. Aging
    BY <1>1, <1>3, <1>4, <1>5 DEF Aging, Aged
<1> QED BY <1>7, <1>8

LEMMA PublishAges ==
    ASSUME DiskInv, NEW k \in Keys, NEW prior \in Keys, NEW kind, Publish(kind, k, prior)
    PROVE  DiskInv' /\ Aging
<1> DEFINE i == Fresh
           file == [mtime |-> 0, data |-> Whole(0)]
<1>1. /\ clock' = clock + 1 /\ events' = events + 1
      /\ tree' = [j \in Keys |-> IF j = k THEN i ELSE IF j = prior THEN None ELSE tree[j]]
      /\ objs' = [j \in DOMAIN objs \cup {i} |-> IF j = i THEN file ELSE objs[j]]
      /\ had' = had \cup {<<[id |-> i, mtime |-> 0], Whole(0)>>}
    BY DEF Publish, Executing, Event, Created
<1>2. /\ i \in Nat /\ i \notin DOMAIN objs /\ \E n \in Nat : DOMAIN objs \cup {i} = 1 .. n
    BY FreshIs
<1>3. file \in Contents /\ file.mtime = 0 /\ file.data = Whole(0) /\ clock \in Nat /\ events \in Nat
    BY DEF DiskInv, Contents, Whole
<1> HIDE DEF file, i
<1>4. /\ DOMAIN objs' = DOMAIN objs \cup {i} /\ objs' \in [DOMAIN objs' -> Contents]
      /\ objs'[i] = file /\ \A j \in DOMAIN objs : objs'[j] = objs[j]
    BY <1>1, <1>2, <1>3 DEF DiskInv
<1>5. \A j \in DOMAIN objs : objs[j].mtime \in Nat
    BY DEF DiskInv, Contents
<1>6. \A j \in DOMAIN objs' :
          /\ objs'[j].mtime <= clock'
          /\ <<[id |-> j, mtime |-> objs'[j].mtime], objs'[j].data>> \in had'
    BY <1>1, <1>3, <1>4, <1>5 DEF DiskInv
<1>7. tree' \in [Keys -> DOMAIN objs' \cup {None}]
    BY <1>1, <1>4 DEF DiskInv
<1>8. DiskInv'
    <2>1. clock' \in Nat /\ events' \in Nat /\ \E n \in Nat : DOMAIN objs' = 1 .. n
        BY <1>1, <1>2, <1>3, <1>4
    <2> QED BY <1>4, <1>6, <1>7, <2>1 DEF DiskInv
<1>9. Aging
    BY <1>1, <1>3, <1>4 DEF Aging, Aged
<1> QED BY <1>8, <1>9

LEMMA DiskInit == Init => DiskInv
<1> SUFFICES ASSUME Init PROVE DiskInv
    OBVIOUS
<1> DEFINE file == [mtime |-> 0, data |-> Whole(0)]
<1>1. /\ tree = [j \in Keys |-> IF j = First THEN 1 ELSE None]
      /\ objs = [i \in {1} |-> file]
      /\ had = {<<[id |-> 1, mtime |-> 0], Whole(0)>>}
      /\ clock = 0 /\ events = 0
    BY DEF Init, LedgerInit
<1>2. file \in Contents /\ file.mtime = 0 /\ file.data = Whole(0)
    BY DEF Contents, Whole
<1> HIDE DEF file
<1>3. DOMAIN objs = {1} /\ {1} = 1 .. 1 /\ objs \in [{1} -> Contents] /\ objs[1] = file
    BY <1>1, <1>2
<1>4. tree \in [Keys -> {1} \cup {None}]
    BY <1>1
<1> QED BY <1>1, <1>2, <1>3, <1>4 DEF DiskInv

\* Every step keeps the disk in shape and only ages its files.
LEMMA DiskStep ==
    ASSUME DiskInv, [Next]_vars
    PROVE  DiskInv' /\ Aging
<1>1. clock \in Nat /\ events \in Nat /\ tree \in [Keys -> DOMAIN objs \cup {None}]
    BY DEF DiskInv
<1>2. ASSUME UNCHANGED disk, clock' \in { clock, clock + 1 }, events' \in { events, events + 1 }
      PROVE  DiskInv' /\ Aging
    BY <1>1, <1>2, FilesStay DEF disk
<1>3. ASSUME NEW c, NEW result, Transact(c, result), UNCHANGED << disk, clock >>
      PROVE  DiskInv' /\ Aging
    BY <1>2, <1>3, TransactIs
<1>4. CASE LedgerNext
    <2>1. ASSUME NEW k \in Keys, Vanish(k) PROVE DiskInv' /\ Aging
        <3>1. UNCHANGED << objs, had, clock >> /\ events' = events + 1
              /\ tree' \in [Keys -> DOMAIN objs \cup {None}]
            BY <1>1, <2>1 DEF Vanish, Drifted, Event
        <3> QED BY <1>1, <3>1, FilesStay
    <2>2. ASSUME NEW k \in Keys, NEW i \in DOMAIN objs, Return(k, i) PROVE DiskInv' /\ Aging
        <3>1. UNCHANGED << objs, had, clock >> /\ events' = events + 1
              /\ tree' \in [Keys -> DOMAIN objs \cup {None}]
            BY <1>1, <2>2 DEF Return, Drifted, Event
        <3> QED BY <1>1, <3>1, FilesStay
    <2>3. ASSUME NEW fs \in FsTypes, BeginRun(fs) PROVE DiskInv' /\ Aging
        BY <1>2, <2>3 DEF BeginRun, Event
    <2>4. CASE Execute
        <3>1. ASSUME NEW k \in Keys, Copy(k) \/ Update(k) PROVE DiskInv' /\ Aging
            BY <3>1, PublishAges DEF Copy, Update
        <3>2. ASSUME NEW k \in Keys, NEW kind, Remove(k, kind) PROVE DiskInv' /\ Aging
            <4>1. UNCHANGED << objs, had, clock >> /\ events' = events + 1
                  /\ tree' \in [Keys -> DOMAIN objs \cup {None}]
                BY <1>1, <3>2 DEF Remove, Executing, Event
            <4> QED BY <1>1, <4>1, FilesStay
        <3>3. ASSUME NEW k \in Keys, NEW kind, Stay(k, kind) PROVE DiskInv' /\ Aging
            BY <1>2, <3>3 DEF Stay, Executing, Event
        <3>4. ASSUME NEW k \in Keys, NEW prior \in Keys, Move(k, prior) PROVE DiskInv' /\ Aging
            <4>1. UNCHANGED << objs, had, clock >> /\ events' = events + 1
                  /\ tree' \in [Keys -> DOMAIN objs \cup {None}]
                BY <1>1, <3>4 DEF Move, Executing, Event
            <4> QED BY <1>1, <4>1, FilesStay
        <3>5. ASSUME NEW k \in Keys, NEW prior \in Keys, MoveUpdate(k, prior)
              PROVE  DiskInv' /\ Aging
            BY <3>5, PublishAges DEF MoveUpdate
        <3> QED BY <2>4, <3>1, <3>2, <3>3, <3>4, <3>5 DEF Execute
    <2>5. CASE RecordOp \/ RecordInventory
        BY <1>3, <2>5 DEF RecordOp, RecordInventory
    <2>6. CASE FinishRun \/ Scan \/ Repeat
        BY <1>2, <2>6 DEF FinishRun, Scan, Repeat, Event
    <2> QED BY <1>4, <2>1, <2>2, <2>3, <2>4, <2>5, <2>6, EditAges, RotAges DEF LedgerNext
<1>5. ASSUME NEW v \in Sessions, Step(v) PROVE DiskInv' /\ Aging
    <2>1. CASE \E mode \in Modes : Select(v, mode)
        BY <1>2, <2>1 DEF Select, Event
    <2>2. CASE \/ \E k \in Keys : Begin(v, k)
               \/ Read(v) \/ ReadFails(v) \/ Done(v) \/ Resume(v) \/ Cancel(v)
        BY <1>2, <2>2 DEF Begin, Read, ReadFails, Done, Resume, Cancel, ledgerVars, disk
    <2>3. CASE Hashed(v)
        BY <1>2, <2>3 DEF Hashed
    <2>4. CASE Record(v)
        BY <1>3, <2>4 DEF Record
    <2>5. CASE Pause(v)
        BY <1>2, <2>5 DEF Pause, Event
    <2> QED BY <1>5, <2>1, <2>2, <2>3, <2>4, <2>5 DEF Step
<1>6. CASE UNCHANGED vars
    BY <1>2, <1>6 DEF vars, ledgerVars, disk
<1> QED BY <1>4, <1>5, <1>6 DEF Next

-----------------------------------------------------------------------------
(***************************************************************************)
(* The ledger: its rows, and the commands on their way to it, have         *)
(* evidence that files really had; a command whose answer was lost has     *)
(* left its token behind.                                                  *)
(***************************************************************************)
Real(att) == <<att.stat, att.data>> \in had

RowsReal == \A k \in Keys : db.inv[k] # None /\ db.inv[k].base # None => Real(db.inv[k].base)

SyncInv ==
    sync # None => OpCommand(sync)
                   /\ (sync.att # None => Real(sync.att) /\ sync.att.prov = "copy")

ScanInv == scan # None => ScanCommand(scan)

LostInv == lost # None => Known(db, lost) # {}

LedgerInv == Sound(db) /\ RowsReal /\ SyncInv /\ ScanInv /\ LostInv

LEMMA LedgerStays ==
    ASSUME LedgerInv, had \subseteq had', UNCHANGED << db, sync, scan, lost >>
    PROVE  LedgerInv'
BY DEF LedgerInv, RowsReal, SyncInv, ScanInv, LostInv, Real, Known

\* A command with real evidence writes rows with real evidence.
LEMMA RowsStayReal ==
    ASSUME RowsReal, UNCHANGED had, NEW c, Effect(c),
           \/ OpCommand(c) /\ (c.att # None => Real(c.att))
           \/ ScanCommand(c)
           \/ IntegrityCommand(c) /\ Real(c.att)
    PROVE  RowsReal'
<1> SUFFICES ASSUME NEW k \in Keys, db'.inv[k] # None, db'.inv[k].base # None
             PROVE  Real(db'.inv[k].base)
    BY DEF RowsReal, Real
<1>1. ASSUME NEW keys, NEW stamp, NEW att, RowsWritten(db, db', keys, stamp, att),
             att # None => Real(att)
      PROVE  Real(db'.inv[k].base)
    <2>1. CASE db'.inv[k] = db.inv[k]
        BY <2>1 DEF RowsReal
    <2>2. CASE Written(db, db'.inv[k], stamp, att)
        BY <1>1, <2>2 DEF RowsReal, Written
    <2> QED BY <1>1, <2>1, <2>2 DEF RowsWritten
<1>2. CASE OpCommand(c) /\ (c.att # None => Real(c.att))
    BY <1>1, <1>2 DEF Effect
<1>3. CASE ScanCommand(c)
    BY <1>1, <1>3 DEF Effect
<1>4. CASE IntegrityCommand(c) /\ Real(c.att)
    <2>1. CASE db'.inv = db.inv
        BY <2>1 DEF RowsReal
    <2>2. CASE Verified(db, db', c) /\ \A j \in Keys : j # c.key => db'.inv[j] = db.inv[j]
        BY <1>4, <2>2 DEF RowsReal, Verified
    <2> QED BY <1>4, <2>1, <2>2 DEF Effect, Attested
<1> QED BY <1>2, <1>3, <1>4

LEMMA LostStays ==
    ASSUME LedgerInv, Transacted(db, db'), lost' = lost \/ Known(db', lost') # {}
    PROVE  LostInv'
BY DEF LedgerInv, LostInv, Transacted, Known

\* Recording an operation, a scan or an attestation.
LEMMA CommandKeeps ==
    ASSUME LedgerInv, NEW c, NEW result, Transact(c, result), UNCHANGED had,
           \/ OpCommand(c) /\ (c.att # None => Real(c.att))
           \/ ScanCommand(c)
           \/ IntegrityCommand(c) /\ Real(c.att),
           sync' \in { sync, None }, scan' \in { scan, None }
    PROVE  LedgerInv' /\ Effect(c)
<1>1. Effect(c) /\ (lost' # lost => lost = None /\ Known(db', lost') # {})
    BY EffectIs DEF LedgerInv, IsCommand
<1>2. Transacted(db, db')
    BY <1>1 DEF Effect
<1>3. RowsReal'
    BY <1>1, RowsStayReal DEF LedgerInv
<1>4. LostInv'
    BY <1>1, <1>2, LostStays
<1>5. SyncInv' /\ ScanInv'
    BY DEF LedgerInv, SyncInv, ScanInv, Real
<1> QED BY <1>1, <1>2, <1>3, <1>4, <1>5 DEF LedgerInv, Transacted

\* begin_sync_run and finish_run.
LEMMA RunKeeps ==
    ASSUME LedgerInv, NEW run, NEW bound,
           \/ db' = [db EXCEPT !.run = run, !.bound = bound]
           \/ db' = [db EXCEPT !.run = run],
           UNCHANGED << had, sync, scan, lost >>
    PROVE  LedgerInv' /\ db'.inv = db.inv /\ db'.run = run
<1>1. db = [inv |-> db.inv, pairs |-> db.pairs, bound |-> db.bound, run |-> db.run,
            done |-> db.done]
    BY DEF LedgerInv, Sound, IsLedger
<1>2. /\ db'.inv = db.inv /\ db'.pairs = db.pairs /\ db'.run = run /\ db'.done = db.done
      /\ db' = [inv |-> db'.inv, pairs |-> db'.pairs, bound |-> db'.bound, run |-> db'.run,
                done |-> db'.done]
    BY <1>1
<1>3. Sound(db')
    BY <1>2 DEF LedgerInv, Sound, IsLedger, Bounded, OwnIds, OneToOne
<1>4. RowsReal' /\ SyncInv' /\ ScanInv' /\ LostInv'
    BY <1>2 DEF LedgerInv, RowsReal, SyncInv, ScanInv, LostInv, Real, Known
<1> QED BY <1>2, <1>3, <1>4 DEF LedgerInv

\* The stat of a file that is there.
LEMMA LiveIs ==
    ASSUME DiskInv, NEW k \in Keys, tree[k] # None
    PROVE  /\ Live(k) \in Stats /\ Live(k).id = tree[k] /\ Live(k).mtime = objs[tree[k]].mtime
           /\ tree[k] \in DOMAIN objs /\ tree[k] \in Nat
<1>1. tree[k] \in DOMAIN objs /\ tree[k] \in Nat
    BY FreshIs DEF DiskInv
<1>2. objs[tree[k]].mtime \in Nat
    BY <1>1 DEF DiskInv, Contents
<1> QED BY <1>1, <1>2 DEF Live, Stat, Stats

LEMMA OpIs ==
    ASSUME NEW kind \in OpKinds \ { "copy", "update" }, NEW k \in Keys, NEW prior \in Keys,
           NEW expected, NEW stat \in Stats, db.run \in Nat
    PROVE  LET c == Op(kind, k, prior, expected, stat, None) IN
           /\ OpCommand(c) /\ c.att = None /\ c.key = k /\ c.prior = prior /\ c.run = db.run
BY DEF Op, OpCommand, OpKinds

\* The evidence of a copy is that of the file it made.
LEMMA PublishIs ==
    ASSUME DiskInv, NEW kind \in OpKinds, NEW k \in Keys, NEW prior \in Keys, db.run \in Nat,
           Publish(kind, k, prior)
    PROVE  /\ OpCommand(sync') /\ sync'.key = k /\ sync'.run = db.run
           /\ Real(sync.att)' /\ sync'.att.prov = "copy"
<1> DEFINE stat == [id |-> Fresh, mtime |-> 0]
           att == CopyAttested(stat)
<1>1. sync' = Op(kind, k, prior, Live(prior), stat, att) /\ <<stat, Whole(0)>> \in had'
    BY DEF Publish
<1>2. stat \in Stats /\ clock \in Nat
    BY FreshIs DEF Stats, DiskInv
<1> HIDE DEF stat
<1>3. /\ att \in Attestations /\ att.stat = stat /\ att.data = Whole(0) /\ att.prov = "copy"
    BY <1>2 DEF CopyAttested, Attestations, Whole
<1> HIDE DEF att
<1>4. /\ sync'.type = "op" /\ sync'.kind = kind /\ sync'.key = k /\ sync'.prior = prior
      /\ sync'.stat = stat /\ sync'.run = db.run /\ sync'.att = att
    BY <1>1 DEF Op
<1> QED BY <1>1, <1>2, <1>3, <1>4 DEF OpCommand, Real

(***************************************************************************)
(* The tokens in play: none is ahead of the events; a run's operation is   *)
(* for a key its plan has come to; a scan's token is not that of a run.    *)
(***************************************************************************)
RunInv ==
    /\ db.run # None => db.run \in Nat /\ db.run <= events
    /\ sync # None => db.run # None /\ sync.run = db.run /\ sync.key \notin todo
    /\ scan # None => scan.scope <= events /\ (db.run # None => scan.scope # db.run)

\* The executor has done an operation.
Issued ==
    /\ db.run # None /\ UNCHANGED << db, scan, lost >> /\ events' = events + 1
    /\ OpCommand(sync') /\ sync'.run = db.run
    /\ sync'.key \in todo /\ todo' \subseteq todo /\ sync'.key \notin todo'
    /\ sync'.att # None => Real(sync.att)' /\ sync'.att.prov = "copy"

LEMMA ExecuteIssues ==
    ASSUME DiskInv, RunInv, Execute
    PROVE  Issued
<1>1. ASSUME NEW keys, Executing(keys)
      PROVE  /\ db.run # None /\ db.run \in Nat /\ UNCHANGED << db, scan, lost >>
             /\ events' = events + 1 /\ keys \subseteq todo /\ todo' = todo \ keys
    BY <1>1 DEF Executing, Event, RunInv
<1>2. ASSUME NEW kind \in OpKinds, NEW k \in Keys, NEW prior \in Keys, Publish(kind, k, prior)
      PROVE  Issued
    <2>1. Executing({k, prior})
        BY <1>2 DEF Publish
    <2>2. /\ OpCommand(sync') /\ sync'.key = k /\ sync'.run = db.run
          /\ Real(sync.att)' /\ sync'.att.prov = "copy"
        BY <1>1, <1>2, <2>1, PublishIs
    <2> QED BY <1>1, <2>1, <2>2 DEF Issued
<1>3. ASSUME NEW kind \in OpKinds \ { "copy", "update" }, NEW k \in Keys, NEW prior \in Keys,
             tree[prior] # None, Executing({k, prior}),
             sync' = Op(kind, k, prior, Live(prior), Live(prior), None)
      PROVE  Issued
    <2>1. Live(prior) \in Stats
        BY <1>3, LiveIs
    <2>2. /\ OpCommand(sync') /\ sync'.att = None /\ sync'.key = k /\ sync'.run = db.run
        BY <1>1, <1>3, <2>1, OpIs
    <2> QED BY <1>1, <1>3, <2>2 DEF Issued
<1>4. ASSUME NEW k \in Keys, Copy(k) \/ Update(k) PROVE Issued
    BY <1>2, <1>4 DEF Copy, Update, OpKinds
<1>5. ASSUME NEW k \in Keys, NEW kind \in { "trash", "recase", "noop" },
             Remove(k, kind) \/ Stay(k, kind)
      PROVE  Issued
    <2>1. {k} = {k, k}
        OBVIOUS
    <2>2. /\ tree[k] # None /\ Executing({k, k})
          /\ sync' = Op(kind, k, k, Live(k), Live(k), None)
        BY <1>5, <2>1 DEF Remove, Stay
    <2> QED BY <1>3, <2>2 DEF OpKinds
<1>6. ASSUME NEW k \in Keys, NEW prior \in Keys, Move(k, prior) PROVE Issued
    BY <1>3, <1>6 DEF Move, OpKinds
<1>7. ASSUME NEW k \in Keys, NEW prior \in Keys, MoveUpdate(k, prior) PROVE Issued
    BY <1>2, <1>7 DEF MoveUpdate, OpKinds
<1> QED BY <1>4, <1>5, <1>6, <1>7 DEF Execute

\* A scan reports files with the stat they have.
LEMMA ScanReports ==
    ASSUME DiskInv, Scan
    PROVE  /\ ScanCommand(scan') /\ scan'.scope = events + 1 /\ events' = events + 1
           /\ UNCHANGED << had, db, sync, todo, lost >>
<1>1. PICK report \in Reports :
          scan' = [type |-> "inventory", token |-> <<events'>>, scope |-> events',
                   found |-> report.found, complete |-> report.complete]
    BY DEF Scan
<1>2. events \in Nat /\ events' = events + 1 /\ UNCHANGED << had, db, sync, todo, lost >>
    BY DEF Scan, Event, disk, plan, DiskInv
<1>3. /\ DOMAIN report.found \subseteq Keys
      /\ \A k \in DOMAIN report.found : report.found[k] \in Stats \cup {None}
    <2>1. CASE report = [found |-> [k \in {} |-> None], complete |-> FALSE]
        BY <2>1
    <2>2. ASSUME NEW odd,
                 report = [found |-> [k \in Files |-> IF k \in odd THEN None ELSE Live(k)],
                           complete |-> TRUE]
          PROVE  /\ DOMAIN report.found \subseteq Keys
                 /\ \A k \in DOMAIN report.found : report.found[k] \in Stats \cup {None}
        <3>1. Files \subseteq Keys /\ \A k \in Files : Live(k) \in Stats
            BY LiveIs DEF Files
        <3> QED BY <2>2, <3>1
    <2> QED BY <2>1, <2>2 DEF Reports
<1>4. scan'.type = "inventory" /\ scan'.scope = events' /\ scan'.found = report.found
    BY <1>1
<1> QED BY <1>2, <1>3, <1>4 DEF ScanCommand

LEMMA LedgerStart == Init => LedgerInv /\ RunInv
<1> SUFFICES ASSUME Init PROVE LedgerInv /\ RunInv
    OBVIOUS
<1> DEFINE stat == [id |-> 1, mtime |-> 0]
           base == [stat |-> stat, data |-> Whole(0), prov |-> "copy", at |-> 0]
           row(presence) == [id |-> 1, presence |-> presence, stat |-> stat, token |-> 0,
                             base |-> base, verified |-> 0, reappeared |-> FALSE]
           inv(presence) == [j \in Keys |-> IF presence = None \/ j # First THEN None
                                            ELSE row(presence)]
<1>1. PICK presence \in { None, "present", "missing" } :
          /\ had = {<<stat, Whole(0)>>} /\ events = 0
          /\ db = [inv |-> inv(presence), pairs |-> {}, bound |-> None, run |-> None, done |-> {}]
          /\ sync = None /\ todo = {} /\ scan = None /\ lost = None
    BY Zenon DEF Init, LedgerInit
<1>2. stat \in Stats
    BY DEF Stats
<1> HIDE DEF stat
<1>3. base \in Attestations /\ Real(base)
    BY <1>1, <1>2 DEF Attestations, Whole, Real
<1> HIDE DEF base
<1>4. ASSUME presence # None
      PROVE  row(presence) \in Rows /\ row(presence).id = 1 /\ row(presence).base = base
    BY <1>2, <1>3, <1>4 DEF Rows
<1> HIDE DEF row
<1>5. /\ db.inv = [j \in Keys |-> IF presence = None \/ j # First THEN None ELSE row(presence)]
      /\ db.pairs = {} /\ db.run = None /\ IsLedger(db)
    BY <1>1, <1>4 DEF IsLedger
<1>6. Bounded(db) /\ OwnIds(db) /\ OneToOne(db) /\ RowsReal
    BY <1>3, <1>4, <1>5 DEF Bounded, OwnIds, OneToOne, RowsReal
<1> QED BY <1>1, <1>5, <1>6 DEF LedgerInv, Sound, SyncInv, ScanInv, LostInv, RunInv

\* A step of the ledger's side, other than a session's.
LEMMA LedgerNextKeeps ==
    ASSUME DiskInv, LedgerInv, RunInv, Aging, LedgerNext
    PROVE  LedgerInv' /\ RunInv'
<1>1. /\ had \subseteq had' /\ events <= events' /\ events \in Nat
      /\ db.run # None => db.run \in Nat
      /\ scan # None => scan.scope \in Nat
    BY DEF Aging, DiskInv, RunInv, LedgerInv, ScanInv, ScanCommand
<1>2. ASSUME UNCHANGED << db, sync, todo, scan, lost >>, events' \in Nat
      PROVE  LedgerInv' /\ RunInv'
    BY <1>1, <1>2, LedgerStays DEF RunInv
<1>3. CASE \/ \E k \in Keys : Edit(k) \/ Vanish(k)
           \/ \E k \in Keys, chunk \in {1, 2} : Rot(k, chunk)
           \/ \E k \in Keys, i \in DOMAIN objs : Return(k, i)
    <2>1. Drifted
        BY <1>3 DEF Edit, Vanish, Rot, Return
    <2> QED BY <1>1, <1>2, <2>1 DEF Drifted, Event, plan
<1>4. ASSUME NEW fs \in FsTypes, BeginRun(fs) PROVE LedgerInv' /\ RunInv'
    <2>1. /\ db.run = None /\ events' = events + 1
          /\ db' = [db EXCEPT !.run = events', !.bound = fs]
          /\ UNCHANGED << had, sync, scan, lost >>
        BY <1>4 DEF BeginRun, Event, RunBegun, disk
    <2>2. LedgerInv' /\ db'.run = events'
        BY <2>1, RunKeeps
    <2>3. RunInv'
        BY <1>1, <2>1, <2>2 DEF RunInv
    <2> QED BY <2>2, <2>3
<1>5. CASE Execute
    <2>1. Issued
        BY <1>5, ExecuteIssues
    <2>2. SyncInv'
        BY <2>1 DEF Issued, SyncInv
    <2>3. Sound(db') /\ RowsReal' /\ ScanInv' /\ LostInv'
        BY <1>1, <2>1 DEF Issued, LedgerInv, RowsReal, ScanInv, LostInv, Real, Known
    <2>4. RunInv'
        BY <1>1, <2>1 DEF Issued, RunInv
    <2> QED BY <2>2, <2>3, <2>4 DEF LedgerInv
<1>6. ASSUME NEW c, NEW result, Transact(c, result), UNCHANGED << had, todo >>,
             \/ c = sync /\ sync # None /\ sync' = None /\ scan' = scan
             \/ c = scan /\ scan # None /\ scan' = None /\ sync' = sync
      PROVE  LedgerInv' /\ RunInv'
    <2>1. LedgerInv' /\ Effect(c)
        BY <1>6, CommandKeeps DEF LedgerInv, SyncInv, ScanInv
    <2>2. db'.run = db.run /\ events' \in Nat
        BY <1>1, <1>6, <2>1, TransactIs DEF Effect, Transacted
    <2>3. RunInv'
        BY <1>1, <1>6, <2>2 DEF RunInv
    <2> QED BY <2>1, <2>3
<1>7. CASE RecordOp
    BY <1>6, <1>7 DEF RecordOp, disk
<1>8. CASE RecordInventory
    BY <1>6, <1>8 DEF RecordInventory, disk, plan
<1>9. CASE FinishRun
    <2>1. /\ db' = [db EXCEPT !.run = None] /\ events' = events /\ sync = None
          /\ UNCHANGED << had, sync, scan, lost >>
        BY <1>9 DEF FinishRun, disk
    <2>2. LedgerInv' /\ db'.run = None
        BY <2>1, RunKeeps
    <2>3. RunInv'
        BY <2>1, <2>2 DEF RunInv
    <2> QED BY <2>2, <2>3
<1>10. CASE Scan
    <2>1. /\ ScanCommand(scan') /\ scan'.scope = events + 1 /\ events' = events + 1
          /\ UNCHANGED << had, db, sync, todo, lost >>
        BY <1>10, ScanReports
    <2>2. LedgerInv'
        BY <2>1 DEF LedgerInv, RowsReal, SyncInv, ScanInv, LostInv, Real, Known
    <2>3. RunInv'
        BY <1>1, <2>1 DEF RunInv
    <2> QED BY <2>2, <2>3
<1>11. CASE Repeat
    <2>1. /\ Known(db, lost) # {} /\ db' = Answer(db, lost).db /\ lost' = None
          /\ UNCHANGED << had, sync, todo, scan, events >>
        BY <1>11 DEF Repeat, LedgerInv, LostInv, disk, plan
    <2>2. db' = db
        BY <2>1 DEF Answer
    <2>3. LedgerInv'
        BY <2>1, <2>2 DEF LedgerInv, RowsReal, SyncInv, ScanInv, LostInv, Real
    <2> QED BY <2>1, <2>2, <2>3 DEF RunInv
<1> QED BY <1>3, <1>4, <1>5, <1>7, <1>8, <1>9, <1>10, <1>11 DEF LedgerNext

-----------------------------------------------------------------------------
(***************************************************************************)
(* Sessions: what they were shown, what they have read, what they record   *)
(***************************************************************************)
\* The rows of an active session have real evidence.
Shown(v) ==
    ses[v].pc \in ActivePc =>
        /\ ses[v].mode \in Modes
        /\ \A k \in DOMAIN ses[v].items :
              /\ ses[v].items[k] \in Rows
              /\ ses[v].items[k].base # None => Real(ses[v].items[k].base)

\* As long as the open file has the stamp it had at first, the chunks read so
\* far are, with those to come, content it had.
HasRead(w, file, held) ==
    LET same == file.mtime = w.before.mtime IN
    \/ w.read = <<>>
    \/ \E x \in Int :
          /\ w.read = <<x>>
          /\ same => file.data[1] \in { x, -1 } /\ <<w.before, <<x, file.data[2]>>>> \in held
    \/ \E x, y \in Int : w.read = <<x, y>> /\ (same => <<w.before, <<x, y>>>> \in held)

Opened(w) ==
    w.before \in Stats /\ w.before.id \in DOMAIN objs /\ w.before.mtime <= clock

Reading(v) ==
    LET w == ses[v].work IN
    ses[v].pc = "read" =>
        /\ Opened(w) /\ HasRead(w, objs[w.before.id], had)
        /\ ses[v].mode = "baseline" => Row(v).base = None
        /\ Evidence(v, w.key) # None => Evidence(v, w.key).stat = w.before

\* A command to the ledger says what the session read and what it was shown.
Recording(v) ==
    LET c == ses[v].work.command
        evidence == Evidence(v, ses[v].work.key)
    IN
    ses[v].pc = "record" =>
        /\ IntegrityCommand(c) /\ Real(c.att) /\ c.att.prov = "verify"
        /\ c.key = ses[v].work.key /\ c.scope = Row(v).token /\ c.baseline = Row(v).base
        /\ c.clears = Row(v).reappeared
        /\ c.advances <=> evidence # None
        /\ evidence # None => c.att.data = evidence.data /\ c.att.stat = evidence.stat
        /\ ses[v].mode = "baseline" => Row(v).base = None

SessionInv(v) == Shown(v) /\ Reading(v) /\ Recording(v)

\* What a session has read stays true while files age.
LEMMA HasReadStays ==
    ASSUME DiskInv, DiskInv', Aging, NEW w, Opened(w), HasRead(w, objs[w.before.id], had)
    PROVE  /\ w.before.id \in DOMAIN objs' /\ w.before.mtime <= clock'
           /\ HasRead(w, objs'[w.before.id], had')
<1> DEFINE i == w.before.id
           old == objs[i]
           new == objs'[i]
<1>1. /\ i \in DOMAIN objs /\ i \in DOMAIN objs' /\ w.before \in Stats
      /\ w.before.mtime \in Nat /\ clock \in Nat /\ clock' \in Nat /\ clock <= clock'
      /\ w.before.mtime <= clock /\ had \subseteq had' /\ Aged(i)
    BY DEF Opened, Aging, Aged, DiskInv, Stats
<1>2. /\ old.mtime \in Nat /\ old.data \in Int \X Int /\ new.mtime \in Nat
      /\ new.data \in Int \X Int /\ <<[id |-> i, mtime |-> new.mtime], new.data>> \in had'
    BY <1>1 DEF DiskInv, Contents
<1>3. w.before = [id |-> i, mtime |-> w.before.mtime]
    BY <1>1 DEF Stats
<1>4. \/ new = old
      \/ new.mtime > clock
      \/ /\ new.mtime = old.mtime /\ old.data[1] # -1
         /\ new.data \in { <<-1, old.data[2]>>, <<old.data[1], -1>> }
    BY <1>1 DEF Aged
<1>5. new.mtime = w.before.mtime =>
          /\ old.mtime = w.before.mtime
          /\ \/ new = old
             \/ /\ old.data[1] # -1
                /\ new.data \in { <<-1, old.data[2]>>, <<old.data[1], -1>> }
    BY <1>1, <1>2, <1>4
<1>6. ASSUME new.mtime = w.before.mtime
      PROVE  <<w.before, new.data>> \in had' /\ new.data = <<new.data[1], new.data[2]>>
    BY <1>2, <1>3, <1>6
<1> HIDE DEF old, new, i
<1>7. ASSUME NEW x \in Int, w.read = <<x>>, new.mtime = w.before.mtime,
             old.mtime = w.before.mtime =>
                 old.data[1] \in { x, -1 } /\ <<w.before, <<x, old.data[2]>>>> \in had
      PROVE  new.data[1] \in { x, -1 } /\ <<w.before, <<x, new.data[2]>>>> \in had'
    <2>1. old.data[1] \in { x, -1 } /\ <<w.before, <<x, old.data[2]>>>> \in had'
        BY <1>1, <1>5, <1>7
    <2>2. CASE new = old
        BY <2>1, <2>2
    <2>3. CASE old.data[1] # -1 /\ new.data = <<-1, old.data[2]>>
        <3>1. new.data[1] = -1 /\ new.data[2] = old.data[2]
            BY <2>3
        <3> QED BY <2>1, <3>1
    <2>4. CASE old.data[1] # -1 /\ new.data = <<old.data[1], -1>>
        <3>1. new.data = <<x, new.data[2]>> /\ new.data[1] = x
            BY <2>1, <2>4
        <3> QED BY <1>6, <1>7, <3>1
    <2> QED BY <1>5, <1>7, <2>2, <2>3, <2>4
<1>9. ASSUME NEW x \in Int, w.read = <<x>>,
             old.mtime = w.before.mtime =>
                 old.data[1] \in { x, -1 } /\ <<w.before, <<x, old.data[2]>>>> \in had
      PROVE  /\ w.read = <<x>>
             /\ new.mtime = w.before.mtime =>
                    new.data[1] \in { x, -1 } /\ <<w.before, <<x, new.data[2]>>>> \in had'
    BY <1>7, <1>9
<1>10. ASSUME NEW x \in Int, NEW y \in Int, w.read = <<x, y>>,
              old.mtime = w.before.mtime => <<w.before, <<x, y>>>> \in had
       PROVE  w.read = <<x, y>> /\ (new.mtime = w.before.mtime => <<w.before, <<x, y>>>> \in had')
    BY <1>1, <1>5, <1>10
<1>11. HasRead(w, old, had)
    BY DEF old, i
<1>12. HasRead(w, new, had')
    BY <1>9, <1>10, <1>11 DEF HasRead
<1> QED BY <1>1, <1>12 DEF new, i

LEMMA SessionStays ==
    ASSUME DiskInv, DiskInv', Aging, NEW v \in Sessions, SessionInv(v), ses'[v] = ses[v]
    PROVE  SessionInv(v)'
<1>1. had \subseteq had'
    BY DEF Aging
<1>2. Shown(v)'
    BY <1>1 DEF SessionInv, Shown, Real
<1>3. Recording(v)'
    BY <1>1 DEF SessionInv, Recording, Row, Evidence, Real
<1>4. ASSUME ses[v].pc = "read" 
      PROVE  /\ Opened(ses[v].work)'
             /\ HasRead(ses'[v].work, objs'[ses'[v].work.before.id], had')
    <2>1. Opened(ses[v].work) /\ HasRead(ses[v].work, objs[ses[v].work.before.id], had)
        BY <1>4 DEF SessionInv, Reading
    <2> QED BY <2>1, HasReadStays DEF Opened
<1>5. Reading(v)'
    BY <1>4 DEF SessionInv, Reading, Row, Evidence
<1> QED BY <1>2, <1>3, <1>5 DEF SessionInv

\* A session between two items, or over, has nothing in hand.
LEMMA BetweenItems ==
    ASSUME NEW v \in Sessions, SessionInv(v), had \subseteq had',
           \/ ses'[v].pc \notin ActivePc
           \/ /\ ses'[v].pc \in ActivePc \ AtWorkPc /\ ses[v].pc \in ActivePc
              /\ ses'[v].mode = ses[v].mode /\ ses'[v].items = ses[v].items
    PROVE  SessionInv(v)'
<1>1. Shown(v)'
    BY DEF SessionInv, Shown, Real
<1>2. Reading(v)' /\ Recording(v)'
    BY DEF Reading, Recording, ActivePc, AtWorkPc
<1> QED BY <1>1, <1>2 DEF SessionInv

LEMMA EmitLeaves ==
    ASSUME SettledInv, NEW v \in Sessions, SessionInv(v), had \subseteq had',
           ses[v].pc \in ActivePc, NEW k \in Keys, NEW o, Emit(v, k, o)
    PROVE  SessionInv(v)' /\ Alone(v)
<1>1. /\ Alone(v) /\ ses'[v].pc = "next"
      /\ ses'[v].mode = ses[v].mode /\ ses'[v].items = ses[v].items
    BY EmitIs DEF SettledInv
<1> QED BY <1>1, BetweenItems DEF ActivePc, AtWorkPc

\* _process_item opens the file that the row and its evidence tell of.
LEMMA BeginKeeps ==
    ASSUME DiskInv, SettledInv, NEW v \in Sessions, SessionInv(v), NEW k \in Keys, Begin(v, k)
    PROVE  SessionInv(v)' /\ Alone(v)
<1>1. /\ ses[v].pc = "next" /\ ses[v].pc \in ActivePc /\ k \in DOMAIN ses[v].items
      /\ SessionShape /\ UNCHANGED << objs, had, clock >>
    BY DEF Begin, ActivePc, Pending, SettledInv, ledgerVars
<1>2. CASE \E o : Emit(v, k, o)
    BY <1>1, <1>2, EmitLeaves
<1> DEFINE work == [key |-> k, before |-> Live(k), read |-> <<>>, command |-> None]
<1>3. CASE /\ Goto(v, "read", work) /\ UNCHANGED emitted
           /\ tree[k] # None /\ AsExpected(v, k)
           /\ ses[v].mode = "baseline" => ses[v].items[k].base = None
    <2>1. work.key = k /\ work.before = Live(k) /\ work.read = <<>>
        OBVIOUS
    <2> HIDE DEF work
    <2>2. /\ Alone(v) /\ ses'[v].pc = "read" /\ ses'[v].work = work
          /\ ses'[v].mode = ses[v].mode /\ ses'[v].items = ses[v].items
        BY <1>1, <1>3, GotoIs
    <2>3. Shown(v)' /\ Recording(v)'
        BY <1>1, <2>2 DEF SessionInv, Shown, Recording, Real, ActivePc, AtWorkPc
    <2>4. /\ Live(k) \in Stats /\ Live(k).id \in DOMAIN objs /\ Live(k).mtime <= clock
        BY <1>3, LiveIs DEF DiskInv
    <2>5. Opened(ses[v].work)' /\ HasRead(ses'[v].work, objs'[ses'[v].work.before.id], had')
        BY <1>1, <2>1, <2>2, <2>4 DEF Opened, HasRead
    <2>6. Reading(v)'
        BY <1>3, <2>1, <2>2, <2>5 DEF Reading, Row, Evidence, AsExpected
    <2> QED BY <2>2, <2>3, <2>6 DEF SessionInv
<1> QED BY <1>2, <1>3 DEF Begin

LEMMA AppendTwo ==
    ASSUME NEW x \in Int, NEW y \in Int
    PROVE  Append(<<x>>, y) = <<x, y>>
<1> DEFINE s == Append(<<x>>, y)
           t == <<x, y>>
<1>1. s \in Seq(Int) /\ Len(s) = 2 /\ s[1] = x /\ s[2] = y
    OBVIOUS
<1>2. t \in Seq(Int) /\ Len(t) = 2 /\ t[1] = x /\ t[2] = y
    OBVIOUS
<1> HIDE DEF s, t
<1>3. \A i \in 1 .. Len(s) : s[i] = t[i]
    BY <1>1, <1>2
<1>4. s = t
    BY <1>1, <1>2, <1>3, SeqEqual
<1> QED BY <1>4 DEF s, t

\* A chunk of the open file.
LEMMA ReadKeeps ==
    ASSUME DiskInv, SettledInv, NEW v \in Sessions, SessionInv(v), Read(v)
    PROVE  SessionInv(v)' /\ Alone(v)
<1> DEFINE work == ses[v].work
           file == objs[work.before.id]
           chunk == file.data[Len(work.read) + 1]
           read == Append(work.read, chunk)
           new == [work EXCEPT !.read = read]
<1>1. /\ ses[v].pc = "read" /\ Goto(v, "read", new) /\ UNCHANGED << objs, had, clock, emitted >>
      /\ Len(work.read) < 2
    BY Zenon DEF Read, ledgerVars
<1>2. /\ Opened(work) /\ HasRead(work, file, had) /\ SessionShape /\ IsWork(work)
    BY <1>1 DEF SessionInv, Reading, SettledInv, Settling
<1>3. /\ file.data \in Int \X Int /\ work.before \in Stats
      /\ work.before.mtime = file.mtime => <<work.before, file.data>> \in had
    <2>1. work.before.id \in DOMAIN objs /\ work.before \in Stats
        BY <1>2 DEF Opened
    <2>2. /\ file.data \in Int \X Int
          /\ <<[id |-> work.before.id, mtime |-> file.mtime], file.data>> \in had
        BY <2>1 DEF DiskInv, Contents
    <2>3. work.before = [id |-> work.before.id, mtime |-> work.before.mtime]
        BY <2>1 DEF Stats
    <2> QED BY <2>1, <2>2, <2>3
<1>4. HasRead(new, file, had) /\ new.key = work.key /\ new.before = work.before
    <2>1. new.key = work.key /\ new.before = work.before /\ new.read = read
        BY <1>2 DEF IsWork
    <2>2. CASE work.read = <<>>
        <3>1. chunk = file.data[1] /\ read = <<chunk>> /\ chunk \in Int
            BY <1>3, <2>2
        <3> HIDE DEF chunk, read, new, file, work
        <3>2. file.data = <<chunk, file.data[2]>>
            BY <1>3, <3>1
        <3>3. /\ new.read = <<chunk>>
              /\ file.mtime = new.before.mtime =>
                     /\ file.data[1] \in { chunk, -1 }
                     /\ <<new.before, <<chunk, file.data[2]>>>> \in had
            BY <1>3, <2>1, <3>1, <3>2
        <3> QED BY <2>1, <3>1, <3>3 DEF HasRead
    <2>3. ASSUME NEW x \in Int, work.read = <<x>>,
                 file.mtime = work.before.mtime => <<work.before, <<x, file.data[2]>>>> \in had
          PROVE  HasRead(new, file, had)
        <3>1. Len(work.read) = 1
            BY <2>3
        <3>2. chunk = file.data[2] /\ chunk \in Int
            BY <1>3, <3>1
        <3> HIDE DEF chunk, file, work
        <3>3. read = <<x, chunk>>
            BY <2>3, <3>2, AppendTwo
        <3> HIDE DEF read, new
        <3> QED BY <2>1, <2>3, <3>2, <3>3 DEF HasRead
    <2>4. ASSUME NEW x \in Int, NEW y \in Int, work.read = <<x, y>> PROVE FALSE
        BY <1>1, <2>4
    <2> QED BY <1>2, <2>1, <2>2, <2>3, <2>4 DEF HasRead
<1> HIDE DEF new
<1>5. /\ Alone(v) /\ ses'[v].pc = "read" /\ ses'[v].work = new
      /\ ses'[v].mode = ses[v].mode /\ ses'[v].items = ses[v].items
    BY <1>1, <1>2, GotoIs
<1>6. Shown(v)' /\ Recording(v)'
    BY <1>1, <1>5 DEF SessionInv, Shown, Recording, Real, ActivePc, AtWorkPc
<1>7. Opened(ses[v].work)' /\ HasRead(ses'[v].work, objs'[ses'[v].work.before.id], had')
    BY <1>1, <1>2, <1>4, <1>5 DEF Opened
<1>8. Reading(v)'
    BY <1>1, <1>4, <1>5, <1>7 DEF SessionInv, Reading, Row, Evidence
<1> QED BY <1>5, <1>6, <1>8 DEF SessionInv

\* What a session has read when it looks at the open file for the second time,
\* and the stamp has not moved.
LEMMA WholeRead ==
    ASSUME NEW v \in Sessions, SessionInv(v), ses[v].pc = "read", Len(ses[v].work.read) = 2,
           Stat(ses[v].work.before.id) = ses[v].work.before
    PROVE  /\ ses[v].work.read \in Int \X Int /\ ses[v].work.before \in Stats
           /\ <<ses[v].work.before, ses[v].work.read>> \in had
<1> DEFINE work == ses[v].work
           file == objs[work.before.id]
<1>1. HasRead(work, file, had) /\ work.before \in Stats
    BY DEF SessionInv, Reading, Opened
<1>2. file.mtime = work.before.mtime
    BY DEF Stat
<1>3. Len(work.read) = 2
    OBVIOUS
<1> HIDE DEF file, work
<1>4. ASSUME NEW x \in Int, work.read = <<x>> PROVE FALSE
    BY <1>3, <1>4
<1>5. ASSUME work.read = <<>> PROVE FALSE
    <2>1. Len(<<>>) = 0
        OBVIOUS
    <2> QED BY <1>3, <1>5, <2>1
<1>6. PICK x \in Int, y \in Int : work.read = <<x, y>> /\ <<work.before, <<x, y>>>> \in had
    BY <1>1, <1>2, <1>4, <1>5 DEF HasRead
<1>7. work.read \in Int \X Int /\ work.before \in Stats /\ <<work.before, work.read>> \in had
    BY <1>1, <1>6
<1> QED BY <1>7 DEF work

\* The evidence of a session that has read the whole file and found it agrees.
LEMMA HashedKeeps ==
    ASSUME DiskInv, SettledInv, NEW v \in Sessions, SessionInv(v), Hashed(v)
    PROVE  SessionInv(v)' /\ Alone(v)
<1> DEFINE work == ses[v].work
           c == Command(v)
           new == [work EXCEPT !.command = c]
           evidence == Evidence(v, work.key)
<1>1. /\ ses[v].pc = "read" /\ ses[v].pc \in ActivePc /\ Len(work.read) = 2
      /\ SessionShape /\ IsWork(work) /\ work.key \in DOMAIN ses[v].items /\ work.key \in Keys
      /\ UNCHANGED << objs, had >> /\ clock \in Nat
    BY DEF Hashed, ActivePc, AtWorkPc, SettledInv, Settling, Pending, disk, DiskInv
<1>2. CASE \E o : Emit(v, work.key, o)
    BY <1>1, <1>2, EmitLeaves
<1>3. CASE /\ Goto(v, "record", new) /\ UNCHANGED emitted
           /\ Stat(work.before.id) = work.before /\ Agrees(v)
    <2>1. /\ work.read \in Int \X Int /\ work.before \in Stats
          /\ <<work.before, work.read>> \in had
        BY <1>1, <1>3, WholeRead
    <2>2. /\ new.key = work.key /\ new.command = c
        BY <1>1 DEF IsWork
    <2>3. /\ Row(v) \in Rows /\ Row(v).reappeared \in BOOLEAN
          /\ evidence # None => work.read = evidence.data /\ evidence.stat = work.before
          /\ ses[v].mode = "baseline" => Row(v).base = None
        BY <1>1, <1>3 DEF SessionInv, Shown, Reading, Row, Rows, Agrees
    <2>4. /\ c.type = "integrity" /\ c.key = work.key /\ c.scope = Row(v).token
          /\ c.baseline = Row(v).base /\ c.clears = Row(v).reappeared
          /\ c.advances = (evidence # None)
          /\ c.att = [stat |-> work.before, data |-> work.read, prov |-> "verify",
                      at |-> clock + 1]
        BY DEF Command
    <2> HIDE DEF c, new, work, evidence
    <2>5. /\ c.att.stat = work.before /\ c.att.data = work.read /\ c.att.prov = "verify"
          /\ c.att \in Attestations
        BY <1>1, <2>1, <2>4 DEF Attestations
    <2>6. IntegrityCommand(c) /\ Real(c.att)
        BY <1>1, <2>1, <2>3, <2>4, <2>5 DEF IntegrityCommand, Real
    <2>7. /\ Alone(v) /\ ses'[v].pc = "record" /\ ses'[v].work = new
          /\ ses'[v].mode = ses[v].mode /\ ses'[v].items = ses[v].items
        BY <1>1, <1>3, GotoIs
    <2>8. Shown(v)' /\ Reading(v)'
        BY <1>1, <2>7 DEF SessionInv, Shown, Reading, Real
    <2>9. Row(v)' = Row(v) /\ Evidence(v, ses[v].work.key)' = evidence
        BY <2>2, <2>7 DEF Row, Evidence, evidence, work
    <2>10. Recording(v)'
        BY <1>1, <2>2, <2>3, <2>4, <2>5, <2>6, <2>7, <2>9 DEF Recording, Real
    <2> QED BY <2>7, <2>8, <2>10 DEF SessionInv
<1> QED BY <1>2, <1>3 DEF Hashed

\* A step of one session leaves the others alone.
LEMMA StepKeeps ==
    ASSUME DiskInv, Aging, SettledInv, LedgerInv, NEW v \in Sessions, SessionInv(v), Step(v)
    PROVE  SessionInv(v)' /\ Alone(v)
<1>1. SessionInv(v) /\ SessionShape /\ Settling(v) /\ had \subseteq had'
    BY DEF SettledInv, Aging
<1>2. ASSUME NEW mode \in Modes, Select(v, mode) PROVE SessionInv(v)' /\ Alone(v)
    <2>1. /\ Alone(v) /\ ses'[v].pc = "next" /\ ses'[v].mode = mode
          /\ ses'[v].items = [k \in { j \in Keys : db.inv[j] # None } |-> db.inv[k]]
        BY <1>1, <1>2, SelectIs
    <2>2. \A k \in Keys : db.inv[k] # None =>
              db.inv[k] \in Rows /\ (db.inv[k].base # None => Real(db.inv[k].base))
        BY DEF LedgerInv, Sound, IsLedger, RowsReal
    <2>3. Shown(v)'
        BY <1>1, <2>1, <2>2 DEF Shown, Real
    <2>4. Reading(v)' /\ Recording(v)'
        BY <2>1 DEF Reading, Recording
    <2> QED BY <2>1, <2>3, <2>4 DEF SessionInv
<1>3. CASE ReadFails(v) \/ Record(v)
    <2>1. ses[v].pc \in ActivePc /\ ses[v].work.key \in Keys
        BY <1>1, <1>3 DEF ReadFails, Record, Settling, ActivePc, AtWorkPc, Pending
    <2>2. \E o : Emit(v, ses[v].work.key, o)
        BY <1>3 DEF ReadFails, Record
    <2> QED BY <1>1, <2>1, <2>2, EmitLeaves
<1>4. CASE Done(v) \/ Cancel(v)
    <2>1. PICK pc \in { "done", "canceled" } : ses' = [ses EXCEPT ![v] = Over(v, pc)]
        BY <1>4 DEF Done, Cancel
    <2>2. ses'[v].pc \notin ActivePc /\ \A w \in Sessions : w # v => ses'[w] = ses[w]
        BY <1>1, <2>1, OverIs DEF ActivePc, AtWorkPc
    <2>3. \A w \in Sessions : w # v => emitted'[w] = emitted[w]
        BY <1>1, <1>4 DEF Done, Cancel, SessionShape
    <2> QED BY <1>1, <2>2, <2>3, BetweenItems DEF Alone
<1>5. CASE Pause(v) \/ Resume(v)
    <2>1. PICK pc \in { "next", "paused" } :
              ses[v].pc \in ActivePc /\ Goto(v, pc, NoItem) /\ UNCHANGED emitted
        BY <1>5 DEF Pause, Resume, AtCheckpoint, ActivePc, AtWorkPc
    <2>2. /\ Alone(v) /\ ses'[v].pc = pc
          /\ ses'[v].mode = ses[v].mode /\ ses'[v].items = ses[v].items
        BY <1>1, <2>1, GotoIs
    <2> QED BY <1>1, <2>1, <2>2, BetweenItems DEF ActivePc, AtWorkPc
<1> QED BY <1>1, <1>2, <1>3, <1>4, <1>5, BeginKeeps, ReadKeeps, HashedKeeps DEF Step

LEMMA SessionStep ==
    ASSUME DiskInv, DiskInv', Aging, SettledInv, LedgerInv,
           \A w \in Sessions : SessionInv(w), [Next]_vars
    PROVE  \A w \in Sessions : SessionInv(w)'
<1>1. ASSUME UNCHANGED ses PROVE \A w \in Sessions : SessionInv(w)'
    BY <1>1, SessionStays
<1>2. ASSUME NEW v \in Sessions, Step(v) PROVE \A w \in Sessions : SessionInv(w)'
    BY <1>2, StepKeeps, SessionStays DEF Alone
<1> QED BY <1>1, <1>2 DEF Next, vars

-----------------------------------------------------------------------------
(***************************************************************************)
(* The inductive invariant, and what follows from it at once               *)
(***************************************************************************)
VerifierInv ==
    /\ SettledInv /\ DiskInv /\ LedgerInv /\ RunInv
    /\ \A v \in Sessions : SessionInv(v)

\* The ledger under a step of a session.
LEMMA SessionStepKeeps ==
    ASSUME VerifierInv, Aging, NEW v \in Sessions, Step(v)
    PROVE  /\ LedgerInv' /\ RunInv'
           /\ \/ UNCHANGED << db, sync, todo, scan, lost >>
              \/ /\ ses[v].pc = "record" /\ Effect(ses[v].work.command)
                 /\ UNCHANGED << sync, todo, scan >>
<1>1. /\ had \subseteq had' /\ events \in Nat
      /\ db.run # None => db.run \in Nat
      /\ scan # None => scan.scope \in Nat
    BY DEF VerifierInv, Aging, DiskInv, RunInv, LedgerInv, ScanInv, ScanCommand
<1>2. CASE UNCHANGED << db, sync, todo, scan, lost >> /\ events' \in { events, events + 1 }
    BY <1>1, <1>2, LedgerStays DEF VerifierInv, RunInv
<1>3. CASE Record(v)
    <2> DEFINE c == ses[v].work.command
    <2>1. PICK result : Transact(c, result)
        BY <1>3 DEF Record
    <2>2. /\ ses[v].pc = "record" /\ UNCHANGED << had, sync, todo, scan >>
          /\ IntegrityCommand(c) /\ Real(c.att)
        BY <1>3 DEF Record, VerifierInv, SessionInv, Recording, disk, plan
    <2>3. LedgerInv' /\ Effect(c)
        BY <2>1, <2>2, CommandKeeps DEF VerifierInv
    <2>4. db'.run = db.run /\ events' \in { events, events + 1 }
        BY <2>1, <2>3, TransactIs DEF Effect, Transacted
    <2>5. RunInv'
        BY <1>1, <2>2, <2>4 DEF VerifierInv, RunInv
    <2> QED BY <2>2, <2>3, <2>5
<1>4. CASE \/ \E mode \in Modes : Select(v, mode)
           \/ Pause(v)
    BY <1>2, <1>4 DEF Select, Pause, Event, plan
<1>5. CASE Hashed(v)
    BY <1>2, <1>5 DEF Hashed, plan
<1>6. CASE \/ \E k \in Keys : Begin(v, k)
           \/ Read(v) \/ ReadFails(v) \/ Done(v) \/ Resume(v) \/ Cancel(v)
    BY <1>2, <1>6 DEF Begin, Read, ReadFails, Done, Resume, Cancel, ledgerVars
<1> QED BY <1>3, <1>4, <1>5, <1>6 DEF Step

LEMMA VerifierStart == Init => VerifierInv
<1> SUFFICES ASSUME Init PROVE VerifierInv
    OBVIOUS
<1>1. \A v \in Sessions : ses[v].pc = "idle"
    BY DEF Init
<1>2. \A v \in Sessions : SessionInv(v)
    BY <1>1 DEF SessionInv, Shown, Reading, Recording, ActivePc, AtWorkPc
<1> QED BY <1>2, SettledInit, DiskInit, LedgerStart DEF VerifierInv

LEMMA VerifierStep ==
    ASSUME VerifierInv, [Next]_vars
    PROVE  VerifierInv' /\ Aging
<1>1. DiskInv' /\ Aging
    BY DiskStep DEF VerifierInv
<1>2. SettledInv'
    BY SettledStep DEF VerifierInv
<1>3. \A v \in Sessions : SessionInv(v)'
    BY <1>1, SessionStep DEF VerifierInv
<1>4. LedgerInv' /\ RunInv'
    <2>1. CASE LedgerNext
        BY <1>1, <2>1, LedgerNextKeeps DEF VerifierInv
    <2>2. ASSUME NEW v \in Sessions, Step(v) PROVE LedgerInv' /\ RunInv'
        BY <1>1, <2>2, SessionStepKeeps
    <2>3. CASE UNCHANGED vars
        <3>1. UNCHANGED << had, db, sync, todo, scan, lost, events >>
            BY <2>3 DEF vars, ledgerVars
        <3> QED BY <3>1, LedgerStays DEF VerifierInv, RunInv
    <2> QED BY <2>1, <2>2, <2>3 DEF Next
<1> QED BY <1>1, <1>2, <1>3, <1>4 DEF VerifierInv

(***************************************************************************)
(* The ledger never leads the disk: the evidence of a row is content a     *)
(* file had, as a whole and under its stat.  A session whose file is       *)
(* rewritten between two chunks sees it at the second stat, and one whose  *)
(* file decays has read what the file held before or after.  Code: the two *)
(* stats of _process_item, _apply_integrity, _record_copy_like.            *)
(***************************************************************************)
THEOREM EvidenceWasHad == Spec => []EvidenceReal
<1>1. VerifierInv => EvidenceReal
    BY DEF VerifierInv, LedgerInv, RowsReal, Real, EvidenceReal, Present
<1>2. VerifierInv /\ [Next]_vars => VerifierInv'
    BY VerifierStep
<1> QED BY <1>1, <1>2, VerifierStart, PTL DEF Spec

(***************************************************************************)
(* Rows have ids of their own and pairs are one to one, whatever moves     *)
(* take over the row of a path that was missing and whatever scans insert. *)
(* Code: _record_correspondence, _move_target_row, _reconcile_inventory.   *)
(***************************************************************************)
THEOREM PairsStayOneToOne == Spec => []PairsOneToOne
<1>1. VerifierInv => PairsOneToOne
    BY DEF VerifierInv, LedgerInv, Sound, OwnIds, OneToOne, PairsOneToOne, Present, Ids
<1>2. VerifierInv /\ [Next]_vars => VerifierInv'
    BY VerifierStep
<1> QED BY <1>1, <1>2, VerifierStart, PTL DEF Spec

(***************************************************************************)
(* A command that is sent again after a lost answer changes nothing: its   *)
(* token stays in the ledger, whatever is recorded in between.  Code: the  *)
(* operation tokens of _record, record_inventory and record_integrity.     *)
(***************************************************************************)
THEOREM RepeatsChangeNothing == Spec => RepeatsAreNoops
<1>1. VerifierInv /\ [Next]_vars => [lost # None /\ lost' = None => db' = db]_vars
    <2> SUFFICES ASSUME VerifierInv, [Next]_vars, lost # None, lost' = None
                 PROVE  db' = db
        OBVIOUS
    <2>1. Known(db, lost) # {} /\ lost' # lost
        BY DEF VerifierInv, LedgerInv, LostInv
    <2>2. ASSUME NEW c, NEW result, Transact(c, result) PROVE FALSE
        BY <2>1, <2>2, TransactIs
    <2>3. CASE Repeat
        BY <2>1, <2>3 DEF Repeat, Answer
    <2>4. CASE LedgerNext
        <3>1. CASE \/ \E k \in Keys : Edit(k) \/ Vanish(k)
                   \/ \E k \in Keys, chunk \in {1, 2} : Rot(k, chunk)
                   \/ \E k \in Keys, i \in DOMAIN objs : Return(k, i)
                   \/ \E fs \in FsTypes : BeginRun(fs)
                   \/ FinishRun \/ Scan
            BY <2>1, <3>1 DEF Edit, Vanish, Rot, Return, Drifted, BeginRun, FinishRun, Scan
        <3>2. CASE Execute
            BY <2>1, <3>2, ExecuteIssues DEF VerifierInv, Issued
        <3>3. CASE RecordOp \/ RecordInventory
            BY <2>2, <3>3 DEF RecordOp, RecordInventory
        <3> QED BY <2>3, <2>4, <3>1, <3>2, <3>3 DEF LedgerNext
    <2>5. ASSUME NEW v \in Sessions, Step(v) PROVE FALSE
        <3>1. CASE Record(v)
            BY <2>2, <3>1 DEF Record
        <3>2. CASE \/ \E mode \in Modes : Select(v, mode)
                   \/ \E k \in Keys : Begin(v, k)
                   \/ Read(v) \/ ReadFails(v) \/ Hashed(v) \/ Done(v)
                   \/ Pause(v) \/ Resume(v) \/ Cancel(v)
            BY <2>1, <3>2 DEF Select, Begin, Read, ReadFails, Hashed, Done, Pause, Resume,
                              Cancel, ledgerVars
        <3> QED BY <2>5, <3>1, <3>2 DEF Step
    <2> QED BY <2>1, <2>4, <2>5 DEF Next, vars, ledgerVars
<1>2. VerifierInv /\ [Next]_vars => VerifierInv'
    BY VerifierStep
<1> QED BY <1>1, <1>2, VerifierStart, PTL DEF Spec, RepeatsAreNoops

-----------------------------------------------------------------------------
(***************************************************************************)
(* A mismatch                                                              *)
(***************************************************************************)
HasDecayed(held) == \E x, y \in held : x[1] = y[1] /\ x[2] # y[2]

Mismatched(outcomes) == \E n \in DOMAIN outcomes : outcomes[n].result = "mismatched"

\* Two contents under one stat: the evidence and what the session has read.
LEMMA DisagreementIsDecay ==
    ASSUME NEW v \in Sessions, SessionInv(v), ses[v].pc = "read", Len(ses[v].work.read) = 2,
           ses[v].work.key \in DOMAIN ses[v].items,
           Stat(ses[v].work.before.id) = ses[v].work.before, ~ Agrees(v)
    PROVE  HasDecayed(had)
<1> DEFINE work == ses[v].work
           evidence == Evidence(v, work.key)
<1>1. <<work.before, work.read>> \in had
    BY WholeRead
<1>2. evidence # None /\ work.read # evidence.data
    BY DEF Agrees
<1>3. evidence = ses[v].items[work.key].base /\ evidence.stat = work.before
    BY <1>2 DEF Evidence, SessionInv, Reading
<1>4. <<evidence.stat, evidence.data>> \in had
    BY <1>2, <1>3 DEF SessionInv, Shown, ActivePc, AtWorkPc, Real
<1> HIDE DEF work, evidence
<1> DEFINE x == <<work.before, work.read>>
           y == <<evidence.stat, evidence.data>>
<1>5. x \in had /\ y \in had /\ x[1] = y[1] /\ x[2] # y[2]
    BY <1>1, <1>2, <1>3, <1>4
<1> HIDE DEF x, y
<1> QED BY <1>5 DEF HasDecayed

\* A step of a session that reports a mismatch.
LEMMA MismatchStep ==
    ASSUME VerifierInv, NEW v \in Sessions, NEW k \in Keys, Step(v),
           emitted'[v][k] # emitted[v][k], Mismatched(emitted'[v][k])
    PROVE  HasDecayed(had)
<1>1. SessionShape /\ Settling(v) /\ SessionInv(v)
    BY DEF VerifierInv, SettledInv
<1>2. ASSUME NEW j \in Pending(v), NEW o, Emit(v, j, o), o.result # "mismatched" PROVE FALSE
    <2>1. j \in Keys /\ emitted[v][j] = <<>>
        BY <1>1, <1>2 DEF Settling, Pending
    <2>2. /\ emitted'[v][j] = Append(emitted[v][j], o)
          /\ \A i \in Keys : i # j => emitted'[v][i] = emitted[v][i]
        BY <1>1, <1>2, <2>1, EmitIs
    <2>3. emitted'[v][k] = <<o>>
        BY <2>1, <2>2
    <2>4. DOMAIN <<o>> = {1} /\ <<o>>[1] = o
        OBVIOUS
    <2> QED BY <1>2, <2>3, <2>4 DEF Mismatched
<1>3. CASE Hashed(v)
    <2>1. /\ ses[v].pc = "read" /\ Len(ses[v].work.read) = 2
          /\ ses[v].work.key \in Pending(v) /\ ses[v].work.key \in DOMAIN ses[v].items
        BY <1>1, <1>3 DEF Hashed, Settling, AtWorkPc, Pending
    <2>2. CASE Emit(v, ses[v].work.key, Outcome("modified", "ok"))
        BY <1>2, <2>1, <2>2 DEF Outcome
    <2>3. CASE Stat(ses[v].work.before.id) = ses[v].work.before /\ ~ Agrees(v)
        BY <1>1, <2>1, <2>3, DisagreementIsDecay
    <2> QED BY <1>3, <2>2, <2>3 DEF Hashed
<1>4. CASE ReadFails(v)
    <2>1. ses[v].work.key \in Pending(v)
        BY <1>1, <1>4 DEF ReadFails, Settling, AtWorkPc
    <2> QED BY <1>2, <1>4, <2>1 DEF ReadFails, Outcome
<1>5. CASE Record(v)
    <2>1. ses[v].work.key \in Pending(v)
        BY <1>1, <1>5 DEF Record, Settling, AtWorkPc
    <2>2. PICK verdict, recording :
              /\ verdict \in { "verified", "baselined" }
              /\ Emit(v, ses[v].work.key, Outcome(verdict, recording))
        BY <1>5 DEF Record
    <2> QED BY <1>2, <2>1, <2>2 DEF Outcome
<1>6. ASSUME NEW j \in Keys, Begin(v, j) PROVE FALSE
    <2>1. j \in Pending(v) /\ ses[v].items[j] \in Rows
        BY <1>1, <1>6 DEF Begin, Pending, SessionInv, Shown, ActivePc
    <2>2. PICK result \in { "missing", "unsupported", "error", "modified" } :
              Emit(v, j, Outcome(result, "ok"))
        BY <1>6, <2>1 DEF Begin, Rows
    <2> QED BY <1>2, <2>1, <2>2 DEF Outcome
<1>7. ASSUME Cancel(v) PROVE FALSE
    <2> DEFINE o == Outcome("canceled", "ok")
               new == [j \in Keys |-> IF j \in Pending(v) THEN Append(emitted[v][j], o)
                                                          ELSE emitted[v][j]]
    <2>1. emitted' = [emitted EXCEPT ![v] = new]
        BY <1>7, Zenon DEF Cancel
    <2>2. emitted'[v][k] = IF k \in Pending(v) THEN Append(emitted[v][k], o)
                                               ELSE emitted[v][k]
        BY <1>1, <2>1 DEF SessionShape
    <2>3. k \in Pending(v) /\ emitted[v][k] = <<>> /\ o.result = "canceled"
        BY <1>1, <2>2 DEF Settling, Pending, Outcome
    <2> HIDE DEF o, new
    <2>4. emitted'[v][k] = <<o>>
        BY <2>2, <2>3
    <2>5. DOMAIN <<o>> = {1} /\ <<o>>[1] = o
        OBVIOUS
    <2> QED BY <2>3, <2>4, <2>5 DEF Mismatched
<1>8. CASE \/ \E mode \in Modes : Select(v, mode)
           \/ Read(v) \/ Done(v) \/ Pause(v) \/ Resume(v)
    BY <1>8 DEF Select, Read, Done, Pause, Resume
<1> QED BY <1>3, <1>4, <1>5, <1>6, <1>7, <1>8 DEF Step

(***************************************************************************)
(* A mismatch is reported only where content changed under one stat: an    *)
(* edit in the middle of the read, and one before it, are reported as      *)
(* modified.  Code: _matches_expected_stat and the second stat of          *)
(* _process_item before the digests are compared.                          *)
(***************************************************************************)
THEOREM MismatchMeansDecay == Spec => []MismatchIsDecay
<1> DEFINE Inv == VerifierInv /\ MismatchIsDecay
<1>1. Init => Inv
    <2> SUFFICES ASSUME Init PROVE MismatchIsDecay
        BY VerifierStart
    <2>1. \A v \in Sessions, k \in Keys : emitted[v][k] = <<>>
        BY DEF Init
    <2>2. DOMAIN <<>> = {}
        OBVIOUS
    <2> QED BY <2>1, <2>2 DEF MismatchIsDecay
<1>2. ASSUME Inv, [Next]_vars PROVE Inv'
    <2>1. VerifierInv' /\ had \subseteq had'
        BY <1>2, VerifierStep DEF Aging
    <2>2. \A v \in Sessions, k \in Keys : Mismatched(emitted[v][k]) => HasDecayed(had)
        BY <1>2 DEF MismatchIsDecay, Mismatched, HasDecayed
    <2>3. HasDecayed(had) => HasDecayed(had')
        BY <2>1 DEF HasDecayed
    <2>4. ASSUME NEW v \in Sessions, NEW k \in Keys, Mismatched(emitted'[v][k])
          PROVE  HasDecayed(had)
        <3>1. CASE emitted'[v][k] = emitted[v][k]
            BY <2>2, <2>4, <3>1
        <3>2. CASE emitted'[v][k] # emitted[v][k]
            <4>1. PICK w \in Sessions : Step(w)
                BY <1>2, <3>2 DEF Next, vars
            <4>2. CASE w = v
                BY <1>2, <2>4, <3>2, <4>1, <4>2, MismatchStep
            <4>3. CASE w # v
                BY <1>2, <3>2, <4>1, <4>3, StepKeeps, VerifierStep DEF VerifierInv, Alone
            <4> QED BY <4>2, <4>3
        <3> QED BY <3>1, <3>2
    <2>5. MismatchIsDecay'
        BY <2>3, <2>4 DEF MismatchIsDecay, Mismatched, HasDecayed
    <2> QED BY <2>1, <2>5
<1>3. Inv => MismatchIsDecay
    OBVIOUS
<1> QED BY <1>1, <1>2, <1>3, PTL DEF Spec

-----------------------------------------------------------------------------
(***************************************************************************)
(* Tokens.  The token of a row says which run or scan wrote it last, and a *)
(* session that is shown a row compares tokens when it records.  That is   *)
(* enough because no run and no scan writes a row twice: once a row has a  *)
(* token, nothing that is on its way to the row, or may yet be issued for  *)
(* it, has the same.                                                       *)
(***************************************************************************)
Spent(t, k) ==
    /\ t <= events
    /\ db.run # None /\ db.run = t => k \notin todo
    /\ sync # None /\ sync.run = t => k # sync.key
    /\ scan # None => scan.scope # t

RowsSpent == \A k \in Keys : db.inv[k] # None => Spent(db.inv[k].token, k)

\* A row that still has the token it was shown with has not reappeared since.
Followed(v) ==
    ses[v].pc \in ActivePc => \A k \in DOMAIN ses[v].items :
        /\ Spent(ses[v].items[k].token, k)
        /\ /\ db.inv[k] # None /\ db.inv[k].token = ses[v].items[k].token
           /\ db.inv[k].reappeared
           => ses[v].items[k].reappeared

TokenInv == RowsSpent /\ \A v \in Sessions : Followed(v)

(***************************************************************************)
(* The steps, as the ledger sees them                                      *)
(***************************************************************************)
Quiet == db'.inv = db.inv /\ db'.run = db.run /\ UNCHANGED << sync, todo, scan >>

RunStarts ==
    /\ db'.inv = db.inv /\ db'.run = events + 1 /\ events' = events + 1
    /\ sync = None /\ UNCHANGED << sync, scan >>

RunEnds == db'.inv = db.inv /\ db'.run = None /\ sync = None /\ UNCHANGED << sync, scan >>

ScanIssued ==
    /\ db'.inv = db.inv /\ db'.run = db.run /\ scan'.scope = events + 1 /\ events' = events + 1
    /\ UNCHANGED << sync, todo >>

SyncRecorded ==
    /\ sync # None /\ RowsWritten(db, db', { sync.key }, sync.run, sync.att)
    /\ db'.run = db.run /\ sync' = None /\ UNCHANGED << todo, scan >>

ScanRecorded ==
    /\ scan # None /\ RowsWritten(db, db', Keys, scan.scope, None)
    /\ db'.run = db.run /\ scan' = None /\ UNCHANGED << todo, sync >>

ReadRecorded(v) ==
    /\ ses[v].pc = "record" /\ Attested(db, db', ses[v].work.command)
    /\ db'.run = db.run /\ UNCHANGED << sync, todo, scan >>

LEMMA StepsOfLedger ==
    ASSUME VerifierInv, [Next]_vars
    PROVE  \/ Quiet \/ RunStarts \/ Issued \/ RunEnds \/ ScanIssued
           \/ SyncRecorded \/ ScanRecorded
           \/ \E v \in Sessions : ReadRecorded(v)
<1>1. CASE LedgerNext
    <2>1. CASE \/ \E k \in Keys : Edit(k) \/ Vanish(k)
               \/ \E k \in Keys, chunk \in {1, 2} : Rot(k, chunk)
               \/ \E k \in Keys, i \in DOMAIN objs : Return(k, i)
        <3>1. Drifted
            BY <2>1 DEF Edit, Vanish, Rot, Return
        <3> QED BY <3>1 DEF Drifted, plan, Quiet
    <2>2. ASSUME NEW fs \in FsTypes, BeginRun(fs) PROVE RunStarts
        <3>1. /\ db.run = None /\ events' = events + 1
              /\ db' = [db EXCEPT !.run = events', !.bound = fs]
              /\ UNCHANGED << had, sync, scan, lost >>
            BY <2>2 DEF BeginRun, Event, RunBegun, disk
        <3>2. db'.inv = db.inv /\ db'.run = events'
            BY <3>1, RunKeeps DEF VerifierInv
        <3>3. sync = None
            BY <3>1 DEF VerifierInv, RunInv
        <3> QED BY <3>1, <3>2, <3>3 DEF RunStarts
    <2>3. CASE Execute
        BY <2>3, ExecuteIssues DEF VerifierInv
    <2>4. CASE RecordOp
        <3>1. PICK result : Transact(sync, result)
            BY <2>4 DEF RecordOp
        <3>2. sync # None /\ sync' = None /\ UNCHANGED << had, todo, scan >> /\ OpCommand(sync)
            BY <2>4 DEF RecordOp, disk, VerifierInv, LedgerInv, SyncInv
        <3>3. Effect(sync)
            BY <3>1, <3>2, EffectIs DEF VerifierInv, LedgerInv, IsCommand
        <3> QED BY <3>2, <3>3 DEF SyncRecorded, Effect, Transacted
    <2>5. CASE RecordInventory
        <3>1. PICK result : Transact(scan, result)
            BY <2>5 DEF RecordInventory
        <3>2. scan # None /\ scan' = None /\ UNCHANGED << had, todo, sync >> /\ ScanCommand(scan)
            BY <2>5 DEF RecordInventory, disk, plan, VerifierInv, LedgerInv, ScanInv
        <3>3. Effect(scan)
            BY <3>1, <3>2, EffectIs DEF VerifierInv, LedgerInv, IsCommand
        <3> QED BY <3>2, <3>3 DEF ScanRecorded, Effect, Transacted
    <2>6. CASE FinishRun
        <3>1. /\ db' = [db EXCEPT !.run = None] /\ sync = None
              /\ UNCHANGED << had, sync, scan, lost >>
            BY <2>6 DEF FinishRun, disk
        <3>2. db'.inv = db.inv /\ db'.run = None
            BY <3>1, RunKeeps DEF VerifierInv
        <3> QED BY <3>1, <3>2 DEF RunEnds
    <2>7. CASE Scan
        BY <2>7, ScanReports DEF VerifierInv, ScanIssued
    <2>8. CASE Repeat
        <3>1. Known(db, lost) # {} /\ db' = Answer(db, lost).db /\ UNCHANGED << sync, todo, scan >>
            BY <2>8 DEF Repeat, VerifierInv, LedgerInv, LostInv, plan
        <3> QED BY <3>1 DEF Answer, Quiet
    <2> QED BY <1>1, <2>1, <2>2, <2>3, <2>4, <2>5, <2>6, <2>7, <2>8 DEF LedgerNext
<1>2. ASSUME NEW v \in Sessions, Step(v) PROVE Quiet \/ ReadRecorded(v)
    <2>1. Aging
        BY VerifierStep
    <2>2. \/ UNCHANGED << db, sync, todo, scan, lost >>
          \/ /\ ses[v].pc = "record" /\ Effect(ses[v].work.command)
             /\ UNCHANGED << sync, todo, scan >>
        BY <1>2, <2>1, SessionStepKeeps
    <2>3. ses[v].pc = "record" => IntegrityCommand(ses[v].work.command)
        BY DEF VerifierInv, SessionInv, Recording
    <2> QED BY <2>2, <2>3 DEF Quiet, ReadRecorded, Effect, Transacted
<1>3. CASE UNCHANGED vars
    BY <1>3 DEF vars, ledgerVars, Quiet
<1> QED BY <1>1, <1>2, <1>3 DEF Next

\* A session that is active was active with the same rows, or has just been
\* shown those of the ledger.
LEMMA RowsShown ==
    ASSUME VerifierInv, [Next]_vars, NEW v \in Sessions
    PROVE  \/ ses'[v].pc \notin ActivePc
           \/ ses[v].pc \in ActivePc /\ ses'[v].items = ses[v].items
           \/ /\ UNCHANGED << db, sync, todo, scan >>
              /\ ses'[v].items = [k \in { j \in Keys : db.inv[j] # None } |-> db.inv[k]]
<1>1. SessionShape /\ Settling(v) /\ Aging
    BY VerifierStep DEF VerifierInv, SettledInv
<1>2. CASE ses'[v] = ses[v]
    BY <1>2
<1>3. CASE Step(v)
    <2>1. ASSUME NEW mode \in Modes, Select(v, mode)
          PROVE  /\ UNCHANGED << db, sync, todo, scan >>
                 /\ ses'[v].items = [k \in { j \in Keys : db.inv[j] # None } |-> db.inv[k]]
        BY <1>1, <2>1, SelectIs DEF Select, plan
    <2>2. ASSUME NEW k \in Keys, NEW o, Emit(v, k, o) PROVE ses'[v].items = ses[v].items
        BY <1>1, <2>2, EmitIs
    <2>3. ASSUME NEW pc, NEW work, Goto(v, pc, work) PROVE ses'[v].items = ses[v].items
        <3>1. /\ ses = [w \in Sessions |-> ses[w]]
              /\ ses[v] = [pc |-> ses[v].pc, mode |-> ses[v].mode,
                           completed |-> ses[v].completed, work |-> ses[v].work,
                           items |-> ses[v].items]
            BY <1>1 DEF SessionShape, IsSession
        <3> QED BY <2>3, <3>1 DEF Goto
    <2>4. CASE Done(v) \/ Cancel(v)
        <3>1. PICK pc \in { "done", "canceled" } : ses' = [ses EXCEPT ![v] = Over(v, pc)]
            BY <2>4 DEF Done, Cancel
        <3> QED BY <1>1, <3>1, OverIs DEF ActivePc, AtWorkPc
    <2>5. ses[v].pc \in AtWorkPc => ses[v].work.key \in Keys
        BY <1>1 DEF Settling, Pending
    <2>6. ASSUME NEW k \in Keys, Begin(v, k)
          PROVE  ses[v].pc \in ActivePc /\ ses'[v].items = ses[v].items
        BY <2>2, <2>3, <2>6 DEF Begin, ActivePc
    <2>7. CASE Read(v) \/ ReadFails(v) \/ Hashed(v) \/ Record(v)
        <3>1. ses[v].pc \in ActivePc /\ ses[v].work.key \in Keys
            BY <2>5, <2>7 DEF Read, ReadFails, Hashed, Record, ActivePc, AtWorkPc
        <3>2. (\E o : Emit(v, ses[v].work.key, o)) \/ (\E pc, work : Goto(v, pc, work))
            BY <2>7 DEF Read, ReadFails, Hashed, Record
        <3> QED BY <2>2, <2>3, <3>1, <3>2
    <2>8. CASE Pause(v) \/ Resume(v)
        BY <2>3, <2>8 DEF Pause, Resume, AtCheckpoint, ActivePc, AtWorkPc
    <2> QED BY <1>3, <2>1, <2>4, <2>6, <2>7, <2>8 DEF Step
<1>4. ASSUME NEW w \in Sessions, Step(w), w # v PROVE ses'[v] = ses[v]
    BY <1>1, <1>4, StepKeeps DEF VerifierInv, Alone
<1> QED BY <1>2, <1>3, <1>4 DEF Next, vars

\* A token that is spent stays spent.
LEMMA SpentStays ==
    ASSUME VerifierInv, [Next]_vars, NEW t \in Nat, NEW k \in Keys, Spent(t, k)
    PROVE  Spent(t, k)'
<1>1. /\ events \in Nat /\ events' \in Nat /\ events <= events' /\ t <= events
    BY VerifierStep DEF VerifierInv, DiskInv, Aging, Spent
<1>2. CASE Quiet
    BY <1>1, <1>2 DEF Quiet, Spent
<1>3. CASE RunStarts
    BY <1>1, <1>3 DEF RunStarts, Spent
<1>4. CASE Issued
    BY <1>1, <1>4 DEF Issued, Spent
<1>5. CASE RunEnds
    BY <1>1, <1>5 DEF RunEnds, Spent
<1>6. CASE ScanIssued
    BY <1>1, <1>6 DEF ScanIssued, Spent
<1>7. CASE SyncRecorded \/ ScanRecorded
    BY <1>1, <1>7 DEF SyncRecorded, ScanRecorded, Spent
<1>8. ASSUME NEW v \in Sessions, ReadRecorded(v) PROVE Spent(t, k)'
    BY <1>1, <1>8 DEF ReadRecorded, Spent
<1> QED BY <1>2, <1>3, <1>4, <1>5, <1>6, <1>7, <1>8, StepsOfLedger

\* What a step does to one row.
RowStep(k) ==
    \/ db'.inv[k] \in { db.inv[k], None }
    \/ /\ sync # None /\ k = sync.key /\ db'.inv[k].token = sync.run
       /\ db'.run = db.run /\ sync' = None /\ UNCHANGED << todo, scan >>
    \/ /\ scan # None /\ db'.inv[k].token = scan.scope
       /\ db'.run = db.run /\ scan' = None /\ UNCHANGED << todo, sync >>
    \/ /\ db.inv[k] # None /\ db'.inv[k].token = db.inv[k].token
       /\ db'.inv[k].reappeared => db.inv[k].reappeared

LEMMA RowSteps ==
    ASSUME VerifierInv, [Next]_vars, NEW k \in Keys
    PROVE  RowStep(k)
<1>1. CASE Quiet \/ RunStarts \/ Issued \/ RunEnds \/ ScanIssued
    BY <1>1 DEF Quiet, RunStarts, Issued, RunEnds, ScanIssued, RowStep
<1>2. CASE SyncRecorded
    BY <1>2 DEF SyncRecorded, RowsWritten, Written, RowStep
<1>3. CASE ScanRecorded
    BY <1>3 DEF ScanRecorded, RowsWritten, Written, RowStep
<1>4. ASSUME NEW v \in Sessions, ReadRecorded(v) PROVE RowStep(k)
    <2>1. CASE db'.inv[k] = db.inv[k]
        BY <2>1 DEF RowStep
    <2>2. CASE db'.inv[k] # db.inv[k]
        <3>1. /\ k = ses[v].work.command.key /\ GuardHolds(db, ses[v].work.command)
              /\ Verified(db, db', ses[v].work.command)
            BY <1>4, <2>2 DEF ReadRecorded, Attested
        <3> QED BY <3>1 DEF GuardHolds, Verified, RowStep
    <2> QED BY <2>1, <2>2
<1> QED BY <1>1, <1>2, <1>3, <1>4, StepsOfLedger

LEMMA TokenStep ==
    ASSUME VerifierInv, TokenInv, [Next]_vars
    PROVE  TokenInv'
<1>1. /\ events \in Nat /\ events' \in Nat /\ events <= events' /\ VerifierInv'
    BY VerifierStep DEF VerifierInv, DiskInv, Aging
<1>2. \A k \in Keys : db.inv[k] # None => db.inv[k].token \in Nat
    BY DEF VerifierInv, LedgerInv, Sound, IsLedger, Rows
<1>3. RowsSpent'
    <2> SUFFICES ASSUME NEW k \in Keys, db'.inv[k] # None
                 PROVE  Spent(db.inv[k].token, k)'
        BY DEF RowsSpent
    <2>1. ASSUME db.inv[k] # None, db'.inv[k].token = db.inv[k].token
          PROVE  Spent(db.inv[k].token, k)'
        <3>1. PICK t \in Nat : t = db.inv[k].token
            BY <1>2, <2>1
        <3>2. Spent(t, k)
            BY <2>1, <3>1 DEF TokenInv, RowsSpent
        <3>3. Spent(t, k)'
            BY <3>2, SpentStays
        <3> QED BY <2>1, <3>1, <3>3 DEF Spent
    <2>2. CASE /\ sync # None /\ k = sync.key /\ db'.inv[k].token = sync.run
               /\ db'.run = db.run /\ sync' = None /\ UNCHANGED << todo, scan >>
        BY <1>1, <2>2 DEF Spent, VerifierInv, RunInv
    <2>3. CASE /\ scan # None /\ db'.inv[k].token = scan.scope
               /\ db'.run = db.run /\ scan' = None /\ UNCHANGED << todo, sync >>
        <3>1. /\ scan.scope \in Nat /\ scan.scope <= events
              /\ db.run # None => scan.scope # db.run
              /\ sync # None => db.run # None /\ sync.run = db.run
            BY <2>3 DEF VerifierInv, RunInv, LedgerInv, ScanInv, ScanCommand
        <3> QED BY <1>1, <2>3, <3>1 DEF Spent
    <2> QED BY <2>1, <2>2, <2>3, RowSteps DEF RowStep
<1>4. ASSUME NEW v \in Sessions PROVE Followed(v)'
    <2>1. CASE ses'[v].pc \notin ActivePc
        BY <2>1 DEF Followed
    <2>2. CASE ses[v].pc \in ActivePc /\ ses'[v].items = ses[v].items
        <3> SUFFICES ASSUME NEW k \in DOMAIN ses[v].items
                     PROVE  /\ Spent(ses[v].items[k].token, k)'
                            /\ /\ db'.inv[k] # None /\ db'.inv[k].token = ses[v].items[k].token
                               /\ db'.inv[k].reappeared
                               => ses[v].items[k].reappeared
            BY <2>2 DEF Followed, Spent
        <3>1. /\ k \in Keys /\ ses[v].items[k].token \in Nat /\ Spent(ses[v].items[k].token, k)
            BY <2>2 DEF VerifierInv, SettledInv, Settling, SessionInv, Shown, Rows,
                        TokenInv, Followed
        <3>2. Spent(ses[v].items[k].token, k)'
            <4>1. PICK t \in Nat : t = ses[v].items[k].token
                BY <3>1
            <4>2. Spent(t, k)'
                BY <3>1, <4>1, SpentStays
            <4> QED BY <2>2, <4>1, <4>2 DEF Spent
        <3>3. ASSUME db'.inv[k] # None, db'.inv[k].token = ses[v].items[k].token,
                     db'.inv[k].reappeared
              PROVE  ses[v].items[k].reappeared
            BY <2>2, <3>1, <3>3, RowSteps DEF RowStep, Spent, TokenInv, Followed
        <3> QED BY <3>2, <3>3
    <2>3. CASE /\ UNCHANGED << db, sync, todo, scan >>
               /\ ses'[v].items = [k \in { j \in Keys : db.inv[j] # None } |-> db.inv[k]]
        BY <1>3, <2>3 DEF Followed, RowsSpent, Spent
    <2> QED BY <2>1, <2>2, <2>3, RowsShown
<1> QED BY <1>3, <1>4 DEF TokenInv

LEMMA TokenStart == Init => TokenInv
<1> SUFFICES ASSUME Init PROVE TokenInv
    OBVIOUS
<1>1. /\ \A v \in Sessions : ses[v].pc = "idle"
      /\ events = 0 /\ sync = None /\ scan = None /\ todo = {}
    BY DEF Init, LedgerInit
<1>2. \A k \in Keys : db.inv[k] # None => db.inv[k].token = 0
    BY DEF Init, LedgerInit
<1> QED BY <1>1, <1>2 DEF TokenInv, RowsSpent, Spent, Followed, ActivePc, AtWorkPc

\* Rows a run or a scan writes have their old evidence, none, or a copy's.
LEMMA WritesDoNotRebase ==
    ASSUME OwnIds(db), NEW keys, NEW stamp, NEW att, att # None => att.prov = "copy",
           RowsWritten(db, db', keys, stamp, att), NEW j \in Keys, NEW k \in Keys
    PROVE  RebaseShown(j, k) /\ VerifiedRepeats(j, k) /\ ReadResolves(j, k)
<1> SUFFICES ASSUME Survives(j, k)
             PROVE  /\ db'.inv[k].base \in { None, db.inv[j].base, att }
                    /\ db'.inv[k].verified \in { 0, db.inv[j].verified }
    BY DEF RebaseShown, VerifiedRepeats, ReadResolves, Stored
<1>1. db.inv[j] # None /\ db'.inv[k] # None /\ db.inv[j].id = db'.inv[k].id
    BY DEF Survives, Present
<1>2. CASE db'.inv[k] = db.inv[k]
    <2>1. j = k
        BY <1>1, <1>2 DEF OwnIds
    <2> QED BY <1>2, <2>1
<1>3. CASE Written(db, db'.inv[k], stamp, att)
    BY <1>1, <1>3 DEF Written, OwnIds
<1> QED BY <1>1, <1>2, <1>3 DEF RowsWritten

\* The evidence a session records.
LEMMA ReadRebasesShown ==
    ASSUME VerifierInv, TokenInv, NEW v \in Sessions, ReadRecorded(v),
           NEW j \in Keys, NEW k \in Keys, db'.inv[k] # db.inv[k]
    PROVE  RebaseShown(j, k) /\ VerifiedRepeats(j, k) /\ ReadResolves(j, k)
<1> DEFINE c == ses[v].work.command
           row == db.inv[k]
           r == db'.inv[k]
           evidence == Evidence(v, ses[v].work.key)
<1>1. k = c.key /\ GuardHolds(db, c) /\ Verified(db, db', c)
    BY DEF ReadRecorded, Attested
<1>2. /\ IntegrityCommand(c) /\ c.att.prov = "verify" /\ c.key = ses[v].work.key
      /\ c.scope = Row(v).token /\ c.baseline = Row(v).base /\ c.clears = Row(v).reappeared
      /\ c.advances <=> evidence # None
      /\ evidence # None => c.att.data = evidence.data /\ c.att.stat = evidence.stat
      /\ ses[v].mode = "baseline" => Row(v).base = None
      /\ ses[v].mode \in Modes
    BY DEF ReadRecorded, VerifierInv, SessionInv, Recording, Shown, ActivePc, AtWorkPc
<1>3. /\ row # None /\ row.token = Row(v).token /\ row.base = Row(v).base
      /\ r # None /\ r.id = row.id /\ r.base = c.att
      /\ r.verified = IF c.advances THEN c.att.at ELSE row.verified
      /\ r.reappeared => row.reappeared /\ ~ Row(v).reappeared
    BY <1>1, <1>2 DEF GuardHolds, Verified
<1>4. evidence = IF ses[v].mode = "verify" THEN Row(v).base ELSE None
    BY DEF Evidence, Row
<1>5. ~ r.reappeared
    <2>1. k \in DOMAIN ses[v].items /\ ses[v].pc \in ActivePc /\ Row(v) = ses[v].items[k]
        BY <1>1, <1>2 DEF ReadRecorded, VerifierInv, SettledInv, Settling, Pending, ActivePc,
                          AtWorkPc, Row
    <2> QED BY <1>3, <2>1 DEF TokenInv, Followed
<1> SUFFICES ASSUME Survives(j, k)
             PROVE  RebaseShown(j, k) /\ VerifiedRepeats(j, k) /\ ReadResolves(j, k)
    BY DEF RebaseShown, VerifiedRepeats, ReadResolves, Stored
<1>6. j = k
    BY <1>3 DEF Survives, Present, VerifierInv, LedgerInv, Sound, OwnIds
<1>7. ses[v].work.key = k
    BY <1>1, <1>2
<1> HIDE DEF c, evidence, row, r
<1>8. VerifiedRepeats(j, k)
    BY <1>2, <1>3, <1>4, <1>6 DEF VerifiedRepeats, row, r
<1>9. ReadResolves(j, k)
    BY <1>5 DEF ReadResolves, r
<1>10. RebaseShown(j, k)
    <2> SUFFICES ASSUME row.base # None, r.base.data # row.base.data
                 PROVE  ses[v].mode = "rebaseline" /\ Row(v).base = row.base
        BY <1>6, <1>7 DEF RebaseShown, row, r
    <2>1. ses[v].mode # "verify"
        BY <1>2, <1>3, <1>4
    <2>2. ses[v].mode # "baseline"
        BY <1>2, <1>3
    <2> QED BY <1>2, <1>3, <2>1, <2>2, ModesAssumption
<1> QED BY <1>8, <1>9, <1>10

(***************************************************************************)
(* The evidence of a row changes only for a reason: established evidence   *)
(* is replaced by a copy or by a rebaseline that was shown it, the         *)
(* verification time advances only with the same digest, and a read        *)
(* resolves a reappearance, however late a session records and whatever    *)
(* runs and scans did meanwhile.  Code: the guards of _apply_integrity,    *)
(* the modes of _process_item; that a plan has one operation for a key     *)
(* (claimed_target_keys) is what makes the token of a run a guard.         *)
(***************************************************************************)
THEOREM RebaseHasReason == Spec => NoSilentRebase
<1> DEFINE Inv == VerifierInv /\ TokenInv
           Reasons == \A j, k \in Keys :
                          RebaseShown(j, k) /\ VerifiedRepeats(j, k) /\ ReadResolves(j, k)
<1>1. Init => Inv
    BY VerifierStart, TokenStart
<1>2. Inv /\ [Next]_vars => Inv'
    BY VerifierStep, TokenStep
<1>3. Inv /\ [Next]_vars => [Reasons]_vars
    <2> SUFFICES ASSUME Inv, [Next]_vars, NEW j \in Keys, NEW k \in Keys
                 PROVE  RebaseShown(j, k) /\ VerifiedRepeats(j, k) /\ ReadResolves(j, k)
        OBVIOUS
    <2>1. OwnIds(db)
        BY DEF VerifierInv, LedgerInv, Sound
    <2>2. CASE db'.inv = db.inv
        <3>1. RowsWritten(db, db', {}, 0, None)
            BY <2>2 DEF RowsWritten
        <3> QED BY <2>1, <3>1, WritesDoNotRebase
    <2>3. CASE SyncRecorded
        <3>1. sync.att # None => sync.att.prov = "copy"
            BY <2>3 DEF SyncRecorded, VerifierInv, LedgerInv, SyncInv
        <3> QED BY <2>1, <2>3, <3>1, WritesDoNotRebase DEF SyncRecorded
    <2>4. CASE ScanRecorded
        BY <2>1, <2>4, WritesDoNotRebase DEF ScanRecorded
    <2>5. ASSUME NEW v \in Sessions, ReadRecorded(v)
          PROVE  RebaseShown(j, k) /\ VerifiedRepeats(j, k) /\ ReadResolves(j, k)
        <3>1. CASE db'.inv[k] # db.inv[k]
            BY <2>5, <3>1, ReadRebasesShown
        <3>2. CASE db'.inv[k] = db.inv[k]
            <4>1. Survives(j, k) => j = k
                BY <2>1, <3>2 DEF Survives, Present, OwnIds
            <4> QED BY <3>2, <4>1 DEF RebaseShown, VerifiedRepeats, ReadResolves, Stored
        <3> QED BY <3>1, <3>2
    <2>6. CASE Quiet \/ RunStarts \/ Issued \/ RunEnds \/ ScanIssued
        BY <2>2, <2>6 DEF Quiet, RunStarts, Issued, RunEnds, ScanIssued
    <2> QED BY <2>3, <2>4, <2>5, <2>6, StepsOfLedger
<1> QED BY <1>1, <1>2, <1>3, PTL DEF Spec, NoSilentRebase

=============================================================================
