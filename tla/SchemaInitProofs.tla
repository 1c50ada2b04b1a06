-------------------------- MODULE SchemaInitProofs --------------------------
(***************************************************************************)
(* Theorems about SchemaInit, for any number of callers, rows, saves and   *)
(* deaths.  An invariant in five parts: where each caller is in the list   *)
(* of columns; which places are given out; that at most one caller works   *)
(* on the rows for each of the two columns; what the numbering relies on;  *)
(* and, as long as no caller died, what the work on the rows has achieved. *)
(***************************************************************************)
EXTENDS SchemaInit, FiniteSetTheorems, TLAPS

Injective == \A r, s \in Rows : rank[r] = rank[s] => r = s

(* A caller has seen to the columns before the one it looks at. *)
Positions == \A p \in Procs :
  /\ seen[p] \subseteq cols
  /\ \A k \in 1..(at[p] - 1) : ColumnOrder[k] \in cols
  /\ phase[p] \in {"select", "backfill"} => at[p] = 6 /\ "hash_version" \in cols
  /\ phase[p] = "number" => at[p] = 7 /\ "chain_seq" \in cols
  /\ phase[p] = "serving" => cols = Columns

(* No place is beyond the number of rows, and rows to come have none. *)
Bounded ==
  /\ \A r \in Rows : seq[r] <= rows
  /\ \A r \in Rows \ Stored : seq[r] = 0 /\ digest[r] = "none" /\ version[r] = 0

OneAtWork == \A p, q \in Procs :
  /\ phase[p] \in {"select", "backfill"} /\ phase[q] \in {"select", "backfill"} => p = q
  /\ phase[p] = "number" /\ phase[q] = "number" => p = q

(* Until the numbering only rows saved meanwhile have a place. *)
Unnumbered ==
  /\ "chain_seq" \notin cols => \A r \in Rows : seq[r] = 0
  /\ \A p \in Procs : phase[p] = "number" => \A r \in Rows : seq[r] # 0 => r \in early

Detecting == \E p \in Procs : phase[p] \in {"select", "backfill"}
Numbering == \E p \in Procs : phase[p] = "number"

(* Without a death the work on the rows is done, but for what the caller at
   work has still to do. *)
Progress == crashes = 0 =>
  /\ "hash_version" \in cols /\ ~Detecting => \A r \in Rows : ~FalselyTampered(r)
  /\ \A p \in Procs : phase[p] = "backfill" =>
       \A r \in Rows \ todo[p] : ~FalselyTampered(r)
  /\ "chain_seq" \in cols /\ ~Numbering => Numbered

InitInv ==
  /\ TypeOK /\ Injective /\ Positions /\ Bounded /\ OneAtWork /\ Unnumbered
  /\ VersionsTruthful /\ Progress

-----------------------------------------------------------------------------
(* The list of columns. *)
LEMMA ColumnFacts ==
  /\ Len(ColumnOrder) = 7
  /\ DOMAIN ColumnOrder = 1..7
  /\ \A k \in 1..7 : /\ ColumnOrder[k] \in Columns
                     /\ ColumnOrder[k] = "hash_version" <=> k = 6
                     /\ ColumnOrder[k] = "chain_seq" <=> k = 7
  /\ \A c \in Columns : \E k \in 1..7 : c = ColumnOrder[k]
<1>1. Len(ColumnOrder) = 7 /\ DOMAIN ColumnOrder = 1..7
  BY DEF ColumnOrder
<1>2. \A k \in 1..7 : /\ ColumnOrder[k] = "hash_version" <=> k = 6
                      /\ ColumnOrder[k] = "chain_seq" <=> k = 7
  <2> SUFFICES ASSUME NEW k \in 1..7
               PROVE  /\ ColumnOrder[k] = "hash_version" <=> k = 6
                      /\ ColumnOrder[k] = "chain_seq" <=> k = 7
    OBVIOUS
  <2>1. k = 1 \/ k = 2 \/ k = 3 \/ k = 4 \/ k = 5 \/ k = 6 \/ k = 7
    OBVIOUS
  <2> QED
    BY <2>1 DEF ColumnOrder
<1> QED
  BY <1>1, <1>2 DEF Columns

(* The stored rows are finitely many, and counting those up to a place gives
   each row a number of its own, in the order of the places. *)
LEMMA RowsCounted ==
  ASSUME rank \in [Rows -> Rows], rows \in NumRows..MaxRows, Injective
  PROVE  /\ \A r \in Stored : Cardinality(UpTo(r)) \in 1..rows
         /\ \A r, s \in Stored :
              rank[r] < rank[s] => Cardinality(UpTo(r)) < Cardinality(UpTo(s))
<1>0. rows \in Nat /\ Stored \subseteq Rows
  BY BoundsAssumption DEF Stored, Rows
<1>1. IsFiniteSet(Stored) /\ Cardinality(Stored) = rows
  BY <1>0, FS_Interval DEF Stored
<1>2. ASSUME NEW r \in Stored
      PROVE  IsFiniteSet(UpTo(r)) /\ Cardinality(UpTo(r)) \in 1..rows
  <2>1. UpTo(r) \in SUBSET Stored /\ r \in UpTo(r)
    BY <1>0 DEF UpTo, Rows
  <2>2. IsFiniteSet(UpTo(r)) /\ Cardinality(UpTo(r)) <= rows
    BY <1>1, <2>1, FS_Subset
  <2>3. Cardinality(UpTo(r)) \in Nat /\ Cardinality(UpTo(r)) # 0
    BY <2>1, <2>2, FS_CardinalityType, FS_EmptySet
  <2> QED
    BY <1>0, <2>2, <2>3
<1>3. ASSUME NEW r \in Stored, NEW s \in Stored, rank[r] < rank[s]
      PROVE  Cardinality(UpTo(r)) < Cardinality(UpTo(s))
  <2>0. \A t \in Stored : rank[t] \in Int
    BY <1>0 DEF Rows
  <2>1. UpTo(r) \in SUBSET UpTo(s) /\ s \in UpTo(s) /\ s \notin UpTo(r)
    BY <2>0, <1>3 DEF UpTo
  <2>2. Cardinality(UpTo(r)) <= Cardinality(UpTo(s)) /\ Cardinality(UpTo(r)) # Cardinality(UpTo(s))
    BY <2>1, <1>2, FS_Subset
  <2> QED
    BY <2>2, <1>2, <1>0
<1> QED
  BY <1>2, <1>3

LEMMA StoredAreRows ==
  ASSUME TypeOK
  PROVE  rows \in Nat /\ rows # 0 /\ rows <= MaxRows /\ Stored \subseteq Rows
<1>1. rows \in NumRows..MaxRows /\ NumRows \in Nat \ {0} /\ MaxRows \in Nat
  BY BoundsAssumption DEF TypeOK
<1> QED
  BY <1>1 DEF Stored, Rows

-----------------------------------------------------------------------------
LEMMA InitHolds == Init => InitInv
<1> SUFFICES ASSUME Init PROVE InitInv
  OBVIOUS
<1> USE BoundsAssumption
<1>0. PICK n \in 0..7 : cols = ColumnsUpTo(n)
  BY ColumnFacts DEF Init
<1>1. cols \in SUBSET Columns
  BY <1>0, ColumnFacts DEF ColumnsUpTo
<1>2. /\ digest \in [Rows -> Digests] /\ seq \in [Rows -> 0..NumRows]
      /\ rows = NumRows /\ crashes = 0 /\ early = {} /\ rank \in [Rows -> Rows]
  BY DEF Init
<1>3. \A d \in Digests : Detected(d) \in 0..2
  BY DEF Digests, Detected
<1>4. version = [r \in Rows |-> IF "hash_version" \in cols THEN Detected(digest[r]) ELSE 0]
  BY DEF Init
<1>5. \A r \in Rows : r > NumRows => digest[r] = "none" /\ seq[r] = 0
  <2>1. \A r \in Rows : "integrity_hash" \notin cols \/ r > NumRows => digest[r] = "none"
    BY DEF Init
  <2>2. \A r \in Rows : IF "chain_seq" \in cols /\ r <= NumRows
                         THEN seq[r] # 0 /\ \A s \in Rows : seq[r] = seq[s] => r = s
                         ELSE seq[r] = 0
    BY DEF Init
  <2>3. \A r \in Rows : r > NumRows => ~(r <= NumRows)
    BY DEF Rows
  <2> QED
    BY <2>1, <2>2, <2>3
<1>6. ("chain_seq" \in cols => Numbered) /\ ("chain_seq" \notin cols => \A r \in Rows : seq[r] = 0)
  <2>1. \A r \in Rows : IF "chain_seq" \in cols /\ r <= NumRows
                         THEN seq[r] # 0 /\ \A s \in Rows : seq[r] = seq[s] => r = s
                         ELSE seq[r] = 0
    BY DEF Init
  <2>2. ASSUME "chain_seq" \in cols PROVE Numbered
    <3>1. \A r \in Stored : r \in Rows /\ r <= NumRows
      BY <1>2 DEF Stored, Rows
    <3>2. \A r \in Stored : seq[r] # 0 /\ \A s \in Rows : seq[r] = seq[s] => r = s
      BY <2>1, <2>2, <3>1
    <3> QED
      BY <3>1, <3>2 DEF Numbered
  <2> QED
    BY <2>1, <2>2
<1>7. TypeOK
  <2>1. version \in [Rows -> 0..2]
    BY <1>2, <1>3, <1>4
  <2>2. seq \in [Rows -> 0..MaxRows] /\ rows \in NumRows..MaxRows
    BY <1>2
  <2>3. /\ phase = [p \in Procs |-> "down"] /\ at = [p \in Procs |-> 1]
        /\ seen = [p \in Procs |-> {}] /\ todo = [p \in Procs |-> {}]
    BY DEF Init
  <2>4. /\ phase \in [Procs -> {"down", "alter", "select", "backfill", "number", "serving"}]
        /\ seen \in [Procs -> SUBSET Columns] /\ todo \in [Procs -> SUBSET Rows]
    BY <2>3
  <2>5. at \in [Procs -> 1..(Len(ColumnOrder) + 1)]
    BY <2>3, ColumnFacts
  <2>6. crashes \in 0..MaxCrashes /\ early \in SUBSET Rows
    BY <1>2
  <2> QED
    BY <1>1, <1>2, <2>1, <2>2, <2>4, <2>5, <2>6 DEF TypeOK
<1>8. Injective
  BY DEF Init, Injective
<1>9. \A p \in Procs : phase[p] = "down" /\ at[p] = 1 /\ seen[p] = {}
  BY DEF Init
<1>10. Positions /\ OneAtWork /\ Unnumbered
  BY <1>6, <1>9 DEF Positions, OneAtWork, Unnumbered
<1>11. Bounded
  <2>1. \A r \in Rows : seq[r] <= rows
    BY <1>2
  <2>2. ASSUME NEW r \in Rows \ Stored PROVE seq[r] = 0 /\ digest[r] = "none" /\ version[r] = 0
    <3>1. r > NumRows
      BY <1>2 DEF Stored, Rows
    <3> QED
      BY <1>4, <1>5, <3>1 DEF Detected
  <2> QED
    BY <2>1, <2>2 DEF Bounded
<1>12. VersionsTruthful
  BY <1>4 DEF VersionsTruthful
<1>13. Progress
  <2>1. "hash_version" \in cols => \A r \in Rows : ~FalselyTampered(r)
    BY <1>4 DEF FalselyTampered, VerifiedAs, Detected
  <2> QED
    BY <1>6, <1>9, <2>1 DEF Progress
<1> QED
  BY <1>7, <1>8, <1>10, <1>11, <1>12, <1>13 DEF InitInv

-----------------------------------------------------------------------------
LEMMA PreservedTypes ==
  ASSUME InitInv, [Next]_vars
  PROVE  TypeOK'
<1> USE BoundsAssumption
<1>0. TypeOK /\ Injective /\ Positions /\ Bounded
  BY DEF InitInv
<1>1. ASSUME NEW p \in Procs, NEW to \in {"down", "serving"}, Leave(p, to)
      PROVE  /\ phase' \in [Procs -> {"down", "alter", "select", "backfill", "number", "serving"}]
             /\ at' \in [Procs -> 1..8]
             /\ seen' \in [Procs -> SUBSET Columns]
             /\ todo' \in [Procs -> SUBSET Rows]
  BY <1>0, <1>1, ColumnFacts DEF Leave, TypeOK
<1>2. CASE UNCHANGED vars
  BY <1>0, <1>2 DEF TypeOK, vars, data
<1>3. ASSUME NEW p \in Procs, Start(p) PROVE TypeOK'
  BY <1>0, <1>3, ColumnFacts DEF Start, TypeOK, data
<1>4. ASSUME NEW p \in Procs, Skip(p) PROVE TypeOK'
  BY <1>0, <1>4, ColumnFacts DEF Skip, TypeOK, data
<1>5. ASSUME NEW p \in Procs, AddColumn(p) PROVE TypeOK'
  BY <1>0, <1>5, ColumnFacts DEF AddColumn, TypeOK
<1>6. ASSUME NEW p \in Procs, DuplicateColumn(p) PROVE TypeOK'
  BY <1>0, <1>1, <1>6, ColumnFacts DEF DuplicateColumn, TypeOK, data
<1>7. ASSUME NEW p \in Procs, SelectRows(p) PROVE TypeOK'
  <2>1. Stored \subseteq Rows
    BY <1>0, StoredAreRows
  <2> QED
    BY <1>0, <1>7, <2>1 DEF SelectRows, TypeOK, data
<1>8. ASSUME NEW p \in Procs, DetectRow(p) PROVE TypeOK'
  <2>1. \A d \in Digests : Detected(d) \in 0..2
    BY DEF Digests, Detected
  <2> QED
    BY <1>0, <1>8, <2>1 DEF DetectRow, TypeOK
<1>9. ASSUME NEW p \in Procs, BackfillDone(p) PROVE TypeOK'
  <2>1. at[p] = 6
    BY <1>0, <1>9 DEF BackfillDone, Positions
  <2> QED
    BY <1>0, <1>9, <2>1, ColumnFacts DEF BackfillDone, TypeOK, data
<1>10. ASSUME NEW p \in Procs, Number(p) PROVE TypeOK'
  <2>1. at[p] = 7
    BY <1>0, <1>10 DEF Number, Positions
  <2>2. seq' \in [Rows -> 0..MaxRows]
    <3>1. \A r \in Stored : Cardinality(UpTo(r)) \in 0..MaxRows
      BY <1>0, RowsCounted DEF TypeOK
    <3>2. 0 \in 0..MaxRows
      OBVIOUS
    <3> QED
      BY <1>10, <3>1, <3>2 DEF Number
  <2> QED
    BY <1>0, <1>10, <2>1, <2>2, ColumnFacts DEF Number, TypeOK
<1>11. ASSUME NEW p \in Procs, Serve(p) \/ Stop(p) PROVE TypeOK'
  BY <1>0, <1>1, <1>11, ColumnFacts DEF Serve, Stop, TypeOK, data
<1>12. ASSUME NEW p \in Procs, Crash(p) PROVE TypeOK'
  BY <1>0, <1>1, <1>12, ColumnFacts DEF Crash, TypeOK, data
<1>13. ASSUME NEW p \in Procs, Save(p) PROVE TypeOK'
  <2>0. rows \in Nat /\ Stored \subseteq Rows
    BY <1>0, StoredAreRows
  <2>1. rows' \in Rows /\ rows' \in NumRows..MaxRows /\ rows' = rows + 1
    BY <1>0, <1>13 DEF Save, TypeOK, Rows
  <2>2. PICK last \in Stored : seq' = [seq EXCEPT ![rows'] = seq[last] + 1]
    BY <1>13 DEF Save
  <2>3. last \in Rows /\ seq[last] + 1 \in 0..MaxRows
    <3>1. last \in Rows
      BY <2>0
    <3>2. seq[last] \in Nat /\ seq[last] <= rows
      BY <1>0, <3>1 DEF TypeOK, Bounded
    <3> QED
      BY <1>13, <2>0, <3>1, <3>2 DEF Save
  <2>4. seq' \in [Rows -> 0..MaxRows]
    BY <1>0, <2>1, <2>2, <2>3 DEF TypeOK
  <2>5. digest' \in [Rows -> Digests] /\ version' \in [Rows -> 0..2] /\ early' \in SUBSET Rows
    <3>1. "v2" \in Digests
      BY DEF Digests
    <3>2. digest' = [digest EXCEPT ![rows'] = "v2"] /\ version' = [version EXCEPT ![rows'] = 2]
          /\ early' \in {early, early \cup {rows'}}
      BY <1>13 DEF Save
    <3> QED
      BY <1>0, <2>1, <3>1, <3>2 DEF TypeOK
  <2> QED
    BY <1>0, <1>13, <2>1, <2>4, <2>5 DEF Save, TypeOK
<1> QED
  BY <1>2, <1>3, <1>4, <1>5, <1>6, <1>7, <1>8, <1>9, <1>10, <1>11, <1>12, <1>13 DEF Next

LEMMA PreservedPositions ==
  ASSUME InitInv, [Next]_vars
  PROVE  Positions'
<1>0. TypeOK /\ Positions
  BY DEF InitInv
<1>1. ASSUME NEW p \in Procs, NEW to \in {"down", "serving"}, Leave(p, to),
             cols' = cols, to = "serving" => cols = Columns
      PROVE  Positions'
  BY <1>0, <1>1 DEF Leave, Positions, TypeOK
<1>2. CASE UNCHANGED vars
  BY <1>0, <1>2 DEF Positions, vars, data
<1>3. ASSUME NEW p \in Procs, Start(p) PROVE Positions'
  BY <1>0, <1>3 DEF Start, Positions, TypeOK, data
<1>4. ASSUME NEW p \in Procs, Skip(p) PROVE Positions'
  <2>1. ColumnOrder[at[p]] \in cols /\ at[p] \in 1..7
    BY <1>0, <1>4, ColumnFacts DEF Skip, Positions
  <2>2. \A k \in 1..((at[p] + 1) - 1) : ColumnOrder[k] \in cols
    BY <1>0, <2>1 DEF Positions
  <2> QED
    BY <1>0, <1>4, <2>1, <2>2 DEF Skip, Positions, TypeOK, data
<1>5. ASSUME NEW p \in Procs, AddColumn(p) PROVE Positions'
  <2>1. at[p] \in 1..7 /\ cols' = cols \cup {ColumnOrder[at[p]]} /\ cols' \subseteq Columns
    BY <1>0, <1>5, ColumnFacts DEF AddColumn, TypeOK
  <2>2. \A k \in 1..((at[p] + 1) - 1) : ColumnOrder[k] \in cols'
    BY <1>0, <2>1 DEF Positions
  <2>3. ColumnOrder[at[p]] = "hash_version" <=> at[p] = 6
    BY <2>1, ColumnFacts
  <2>4. ColumnOrder[at[p]] = "chain_seq" <=> at[p] = 7
    BY <2>1, ColumnFacts
  <2>5. /\ phase'[p] \in {"select", "backfill"} => at'[p] = 6 /\ "hash_version" \in cols'
        /\ phase'[p] = "number" => at'[p] = 7 /\ "chain_seq" \in cols'
        /\ phase'[p] # "serving" /\ seen'[p] \subseteq cols'
        /\ \A k \in 1..(at'[p] - 1) : ColumnOrder[k] \in cols'
    <3>1. CASE at[p] = 6
      BY <1>0, <1>5, <3>1, <2>1, <2>2, <2>3, <2>4 DEF AddColumn, Positions, TypeOK
    <3>2. CASE at[p] = 7
      BY <1>0, <1>5, <3>2, <2>1, <2>2, <2>3, <2>4 DEF AddColumn, Positions, TypeOK
    <3>3. CASE at[p] \notin {6, 7}
      BY <1>0, <1>5, <3>3, <2>1, <2>2, <2>3, <2>4 DEF AddColumn, Positions, TypeOK
    <3> QED
      BY <3>1, <3>2, <3>3
  <2>6. ASSUME NEW q \in Procs, q # p
        PROVE  phase'[q] = phase[q] /\ at'[q] = at[q] /\ seen'[q] = seen[q]
    BY <1>0, <1>5, <2>6 DEF AddColumn, TypeOK
  <2> QED
    BY <1>0, <2>1, <2>5, <2>6 DEF Positions
<1>6. ASSUME NEW p \in Procs, DuplicateColumn(p) PROVE Positions'
  BY <1>1, <1>6 DEF DuplicateColumn, data
<1>7. ASSUME NEW p \in Procs, SelectRows(p) PROVE Positions'
  BY <1>0, <1>7 DEF SelectRows, Positions, TypeOK, data
<1>8. ASSUME NEW p \in Procs, DetectRow(p) PROVE Positions'
  BY <1>0, <1>8 DEF DetectRow, Positions
<1>9. ASSUME NEW p \in Procs, BackfillDone(p) \/ Number(p) PROVE Positions'
  <2>1. at[p] \in 1..7 /\ ColumnOrder[at[p]] \in cols
    BY <1>0, <1>9, ColumnFacts DEF BackfillDone, Number, Positions
  <2>2. \A k \in 1..((at[p] + 1) - 1) : ColumnOrder[k] \in cols
    BY <1>0, <2>1 DEF Positions
  <2>3. /\ phase' = [phase EXCEPT ![p] = "alter"] /\ at' = [at EXCEPT ![p] = at[p] + 1]
        /\ seen' = seen /\ cols' = cols
    BY <1>9 DEF BackfillDone, Number, data
  <2>4. phase'[p] = "alter" /\ at'[p] = at[p] + 1
    BY <1>0, <2>3 DEF TypeOK
  <2>5. ASSUME NEW q \in Procs, q # p PROVE phase'[q] = phase[q] /\ at'[q] = at[q]
    BY <1>0, <2>3, <2>5 DEF TypeOK
  <2> QED
    BY <1>0, <2>2, <2>3, <2>4, <2>5 DEF Positions
<1>10. ASSUME NEW p \in Procs, Serve(p) PROVE Positions'
  <2>1. \A k \in 1..7 : ColumnOrder[k] \in cols
    BY <1>0, <1>10, ColumnFacts DEF Serve, Positions, TypeOK
  <2>2. cols = Columns
    <3>1. cols \subseteq Columns
      BY <1>0 DEF TypeOK
    <3>2. Columns \subseteq cols
      BY <2>1, ColumnFacts
    <3> QED
      BY <3>1, <3>2
  <2> QED
    BY <1>1, <1>10, <2>2 DEF Serve, data
<1>11. ASSUME NEW p \in Procs, Stop(p) \/ Crash(p) PROVE Positions'
  BY <1>1, <1>11 DEF Stop, Crash, data
<1>12. ASSUME NEW p \in Procs, Save(p) PROVE Positions'
  BY <1>0, <1>12 DEF Save, Positions
<1> QED
  BY <1>2, <1>3, <1>4, <1>5, <1>6, <1>7, <1>8, <1>9, <1>10, <1>11, <1>12 DEF Next

(* What a save does to the rows: the new one is whole, and goes to the end. *)
LEMMA SavedRow ==
  ASSUME InitInv, NEW p \in Procs, Save(p)
  PROVE  /\ rows' = rows + 1 /\ rows' \in Rows \ Stored
         /\ Stored' = Stored \cup {rows'} /\ Stored \subseteq Rows
         /\ digest'[rows'] = "v2" /\ version'[rows'] = 2
         /\ \A r \in Rows : r # rows' =>
              digest'[r] = digest[r] /\ version'[r] = version[r] /\ seq'[r] = seq[r]
         /\ \A r \in Stored : seq'[r] < seq'[rows']
         /\ seq'[rows'] \in 1..rows'
<1> USE BoundsAssumption
<1>0. TypeOK /\ Bounded
  BY DEF InitInv
<1>1. rows' = rows + 1 /\ rows' \in Rows \ Stored /\ Stored' = Stored \cup {rows'} /\ Stored \subseteq Rows
  <2>1. rows \in Nat /\ Stored \subseteq Rows /\ rows' = rows + 1 /\ rows < MaxRows
    BY <1>0, StoredAreRows DEF Save
  <2>2. rows' \in Rows \ Stored
    BY <2>1 DEF Rows, Stored
  <2>3. Stored' = Stored \cup {rows'}
    BY <2>1 DEF Stored
  <2> QED
    BY <2>1, <2>2, <2>3
<1>2. PICK last \in Stored : /\ \A r \in Stored : seq[r] <= seq[last]
                             /\ seq' = [seq EXCEPT ![rows'] = seq[last] + 1]
  BY DEF Save
<1>3. seq[last] \in Nat /\ seq[last] <= rows /\ \A r \in Stored : seq[r] \in Nat
  BY <1>0, <1>1 DEF TypeOK, Bounded
<1>4. seq'[rows'] = seq[last] + 1 /\ \A r \in Rows : r # rows' => seq'[r] = seq[r]
  BY <1>0, <1>1, <1>2 DEF TypeOK
<1>5. /\ digest'[rows'] = "v2" /\ version'[rows'] = 2
      /\ \A r \in Rows : r # rows' => digest'[r] = digest[r] /\ version'[r] = version[r]
  BY <1>0, <1>1 DEF Save, TypeOK
<1>6. \A r \in Stored : seq'[r] < seq'[rows']
  BY <1>1, <1>2, <1>3, <1>4
<1>7. seq'[rows'] \in 1..rows'
  BY <1>0, <1>1, <1>3, <1>4 DEF TypeOK
<1> QED
  BY <1>1, <1>4, <1>5, <1>6, <1>7

(* What the numbering does to them. *)
LEMMA NumberedRows ==
  ASSUME InitInv, NEW p \in Procs, Number(p)
  PROVE  /\ Stored \subseteq Rows /\ Stored' = Stored
         /\ \A r \in Stored : seq'[r] \in 1..rows
         /\ \A r \in Rows \ Stored : seq'[r] = 0
         /\ \A r, s \in Stored : rank[r] < rank[s] => seq'[r] < seq'[s]
         /\ \A r, s \in Stored : r # s => rank[r] < rank[s] \/ rank[s] < rank[r]
<1> USE BoundsAssumption
<1>0. TypeOK /\ Injective
  BY DEF InitInv
<1>1. Stored \subseteq Rows /\ Stored' = Stored
  BY <1>0 DEF Number, TypeOK, Stored, Rows
<1>2. seq' = [r \in Rows |-> IF r \in Stored THEN Cardinality(UpTo(r)) ELSE 0]
  BY DEF Number
<1>3. /\ \A r \in Stored : Cardinality(UpTo(r)) \in 1..rows
      /\ \A r, s \in Stored :
           rank[r] < rank[s] => Cardinality(UpTo(r)) < Cardinality(UpTo(s))
  BY <1>0, RowsCounted DEF TypeOK
<1>4. \A r, s \in Stored : r # s => rank[r] < rank[s] \/ rank[s] < rank[r]
  BY <1>0, <1>1 DEF TypeOK, Injective, Rows
<1> QED
  BY <1>1, <1>2, <1>3, <1>4

(* The facts about rows that no death or overlap can break. *)
LEMMA PreservedRows ==
  ASSUME InitInv, [Next]_vars
  PROVE  Injective' /\ Bounded' /\ VersionsTruthful' /\ OrderKept
<1> USE BoundsAssumption
<1>0. TypeOK /\ Injective /\ Bounded /\ VersionsTruthful /\ Unnumbered
  BY DEF InitInv
<1>f. \A r \in Rows : seq[r] \in Nat
  BY <1>0 DEF TypeOK
<1>r. Stored \subseteq Rows
  BY <1>0 DEF TypeOK, Stored, Rows
<1>1. ASSUME rows' = rows, rank' = rank, seq' = seq, digest' = digest
      PROVE  Injective' /\ OrderKept /\ Stored' = Stored
  BY <1>0, <1>1 DEF Injective, OrderKept, Stored
<1>2. CASE UNCHANGED data
  BY <1>0, <1>1, <1>2 DEF data, Bounded, VersionsTruthful
<1>3. ASSUME NEW p \in Procs, AddColumn(p)
      PROVE  Injective' /\ Bounded' /\ VersionsTruthful' /\ OrderKept
  BY <1>0, <1>1, <1>3 DEF AddColumn, Bounded, VersionsTruthful
<1>4. ASSUME NEW p \in Procs, DetectRow(p)
      PROVE  Injective' /\ Bounded' /\ VersionsTruthful' /\ OrderKept
  <2>1. Injective' /\ OrderKept /\ Stored' = Stored /\ rows' = rows /\ seq' = seq /\ digest' = digest
    BY <1>1, <1>4 DEF DetectRow
  <2>2. PICK r \in todo[p] :
           version' = [version EXCEPT ![r] = IF Detected(digest[r]) = 0 THEN @
                                                               ELSE Detected(digest[r])]
    BY <1>4 DEF DetectRow
  <2>3. r \in Rows
    BY <1>0 DEF TypeOK
  <2>4. \A s \in Rows : \/ version'[s] = version[s]
                        \/ version'[s] = Detected(digest[s]) /\ digest[s] # "none"
    <3>1. Detected("none") = 0
      BY DEF Detected
    <3>2. \A s \in Rows : s # r => version'[s] = version[s]
      BY <1>0, <2>2, <2>3 DEF TypeOK
    <3>3. version'[r] = IF Detected(digest[r]) = 0 THEN version[r] ELSE Detected(digest[r])
      BY <1>0, <2>2, <2>3 DEF TypeOK
    <3> QED
      BY <3>1, <3>2, <3>3
  <2>5. Bounded'
    BY <1>0, <2>1, <2>4 DEF Bounded, Detected
  <2> QED
    BY <1>0, <2>1, <2>4, <2>5 DEF VersionsTruthful
<1>5. ASSUME NEW p \in Procs, Number(p)
      PROVE  Injective' /\ Bounded' /\ VersionsTruthful' /\ OrderKept
  <2>1. rows' = rows /\ rank' = rank /\ digest' = digest /\ version' = version /\ phase[p] = "number"
    BY <1>5 DEF Number
  <2>2. Injective' /\ VersionsTruthful'
    BY <1>0, <2>1 DEF Injective, VersionsTruthful
  <2>3. Bounded'
    <3>1. rows \in Nat
      BY <1>0 DEF TypeOK
    <3>2. \A r \in Rows : seq'[r] <= rows
      BY <1>5, <3>1, NumberedRows
    <3> QED
      BY <1>0, <1>5, <2>1, <3>2, NumberedRows DEF Bounded
  <2>4. ASSUME NEW r \in Stored, NEW s \in Stored, seq[r] < seq[s]
        PROVE  seq'[r] < seq'[s] \/ OutOfOrder(r, s)
    <3>1. s \in early
      BY <1>0, <1>f, <1>r, <2>1, <2>4 DEF Unnumbered
    <3>2. rank[r] < rank[s] \/ rank[s] < rank[r]
      BY <1>5, <1>f, <1>r, <2>4, NumberedRows
    <3> QED
      BY <1>5, <3>1, <3>2, NumberedRows DEF OutOfOrder
  <2> QED
    BY <1>5, <2>2, <2>3, <2>4, NumberedRows DEF OrderKept
<1>6. ASSUME NEW p \in Procs, Save(p)
      PROVE  Injective' /\ Bounded' /\ VersionsTruthful' /\ OrderKept
  <2>1. /\ rows' = rows + 1 /\ rows' \in Rows \ Stored
        /\ Stored' = Stored \cup {rows'} /\ Stored \subseteq Rows
        /\ digest'[rows'] = "v2" /\ version'[rows'] = 2
        /\ \A r \in Rows : r # rows' =>
             digest'[r] = digest[r] /\ version'[r] = version[r] /\ seq'[r] = seq[r]
        /\ \A r \in Stored : seq'[r] < seq'[rows']
        /\ seq'[rows'] \in 1..rows'
    BY <1>6, SavedRow
  <2>2. Injective'
    BY <1>0, <1>6 DEF Save, Injective
  <2>3. Bounded'
    <3>1. rows \in Nat /\ \A r \in Rows : seq[r] <= rows
      BY <1>0 DEF TypeOK, Bounded
    <3>2. \A r \in Rows : seq'[r] <= rows'
      BY <1>f, <2>1, <3>1
    <3>3. \A r \in Rows \ Stored' : seq'[r] = 0 /\ digest'[r] = "none" /\ version'[r] = 0
      BY <1>0, <2>1 DEF Bounded
    <3> QED
      BY <3>2, <3>3 DEF Bounded
  <2>4. VersionsTruthful'
    BY <1>0, <2>1 DEF VersionsTruthful, Detected
  <2>5. OrderKept
    <3>1. \A r \in Stored : r \in Rows /\ r # rows'
      BY <2>1
    <3>2. \A r, s \in Stored : seq[r] < seq[s] => seq'[r] < seq'[s]
      BY <2>1, <3>1
    <3>3. \A s \in Stored' \ Stored : s = rows'
      BY <2>1
    <3> QED
      BY <2>1, <3>2, <3>3 DEF OrderKept
  <2> QED
    BY <2>2, <2>3, <2>4, <2>5
<1> QED
  BY <1>2, <1>3, <1>4, <1>5, <1>6
  DEF Next, vars, Start, Skip, DuplicateColumn, SelectRows, BackfillDone, Serve, Stop, Crash

(* Whoever adds a column adds it once, and is alone with its work. *)
LEMMA PreservedOneAtWork ==
  ASSUME InitInv, [Next]_vars
  PROVE  OneAtWork'
<1>0. TypeOK /\ Positions /\ OneAtWork
  BY DEF InitInv
<1>1. ASSUME \A q \in Procs :
               /\ phase'[q] \in {"select", "backfill"} => phase[q] \in {"select", "backfill"}
               /\ phase'[q] = "number" => phase[q] = "number"
      PROVE  OneAtWork'
  BY <1>0, <1>1 DEF OneAtWork
<1>2. CASE UNCHANGED vars
  BY <1>1, <1>2 DEF vars
<1>3. ASSUME NEW p \in Procs, NEW to \in {"down", "serving"}, Leave(p, to)
      PROVE  OneAtWork'
  BY <1>0, <1>1, <1>3 DEF Leave, TypeOK
<1>4. ASSUME NEW p \in Procs, Start(p) \/ Skip(p) \/ SelectRows(p) \/ DetectRow(p) \/ BackfillDone(p)
                              \/ Number(p) \/ Save(p)
      PROVE  OneAtWork'
  BY <1>0, <1>1, <1>4
  DEF Start, Skip, SelectRows, DetectRow, BackfillDone, Number, Save, TypeOK
<1>5. ASSUME NEW p \in Procs, AddColumn(p) PROVE OneAtWork'
  <2> DEFINE c == ColumnOrder[at[p]]
  <2>1. /\ c \notin cols
        /\ phase' = [phase EXCEPT ![p] = IF c = "hash_version" THEN "select"
                                         ELSE IF c = "chain_seq" THEN "number" ELSE "alter"]
    BY <1>5 DEF AddColumn
  <2> HIDE DEF c
  <2>2. /\ c = "hash_version" => \A q \in Procs : phase[q] \notin {"select", "backfill"}
        /\ c = "chain_seq" => \A q \in Procs : phase[q] # "number"
    BY <1>0, <2>1 DEF Positions
  <2>3. \A q \in Procs : q # p => phase'[q] = phase[q]
    BY <1>0, <2>1 DEF TypeOK
  <2>4. phase'[p] = IF c = "hash_version" THEN "select"
                    ELSE IF c = "chain_seq" THEN "number" ELSE "alter"
    BY <1>0, <2>1 DEF TypeOK
  <2> QED
    BY <1>0, <2>2, <2>3, <2>4 DEF OneAtWork
<1> QED
  BY <1>2, <1>3, <1>4, <1>5 DEF Next, DuplicateColumn, Serve, Stop, Crash

LEMMA PreservedUnnumbered ==
  ASSUME InitInv, [Next]_vars
  PROVE  Unnumbered'
<1>0. TypeOK /\ Positions /\ OneAtWork /\ Unnumbered
  BY DEF InitInv
<1>1. ASSUME seq' = seq, early' = early, "chain_seq" \in cols => "chain_seq" \in cols',
             \A q \in Procs : phase'[q] = "number" => phase[q] = "number"
      PROVE  Unnumbered'
  BY <1>0, <1>1 DEF Unnumbered
<1>2. CASE UNCHANGED vars
  BY <1>1, <1>2 DEF vars, data
<1>3. ASSUME NEW p \in Procs, NEW to \in {"down", "serving"}, Leave(p, to), UNCHANGED <<data, early>>
      PROVE  Unnumbered'
  BY <1>0, <1>1, <1>3 DEF Leave, data, TypeOK
<1>4. ASSUME NEW p \in Procs, Start(p) PROVE Unnumbered'
  BY <1>0, <1>1, <1>4 DEF Start, data, TypeOK
<1>5. ASSUME NEW p \in Procs, Skip(p) \/ SelectRows(p) \/ DetectRow(p) \/ BackfillDone(p)
      PROVE  Unnumbered'
  BY <1>0, <1>1, <1>5 DEF Skip, SelectRows, DetectRow, BackfillDone, data, TypeOK
<1>6. ASSUME NEW p \in Procs, AddColumn(p) PROVE Unnumbered'
  <2>1. CASE ColumnOrder[at[p]] = "chain_seq"
    <3>1. "chain_seq" \notin cols /\ "chain_seq" \in cols' /\ seq' = seq
      BY <1>6, <2>1 DEF AddColumn
    <3> QED
      BY <1>0, <3>1 DEF Unnumbered
  <2>2. CASE ColumnOrder[at[p]] # "chain_seq"
    <3>1. \A q \in Procs : phase'[q] = "number" => phase[q] = "number"
      BY <1>0, <1>6, <2>2 DEF AddColumn, TypeOK
    <3> QED
      BY <1>1, <1>6, <2>2, <3>1 DEF AddColumn
  <2> QED
    BY <2>1, <2>2
<1>7. ASSUME NEW p \in Procs, Number(p) PROVE Unnumbered'
  <2>1. \A q \in Procs : phase'[q] # "number"
    BY <1>0, <1>7 DEF Number, OneAtWork, TypeOK
  <2>2. "chain_seq" \in cols'
    BY <1>0, <1>7 DEF Number, Positions
  <2> QED
    BY <2>1, <2>2 DEF Unnumbered
<1>8. ASSUME NEW p \in Procs, Save(p) PROVE Unnumbered'
  <2>1. "chain_seq" \in cols' /\ phase' = phase
    BY <1>0, <1>8, ColumnFacts DEF Save, Positions
  <2>2. ASSUME NEW q \in Procs, phase[q] = "number", NEW r \in Rows, seq'[r] # 0
        PROVE  r \in early'
    <3>1. early' = early \cup {rows'}
      BY <1>8, <2>2 DEF Save
    <3>2. CASE r = rows'
      BY <3>1, <3>2
    <3>3. CASE r # rows'
      BY <1>0, <1>8, <2>2, <3>1, <3>3, SavedRow DEF Unnumbered
    <3> QED
      BY <3>2, <3>3
  <2> QED
    BY <2>1, <2>2 DEF Unnumbered
<1> QED
  BY <1>2, <1>3, <1>4, <1>5, <1>6, <1>7, <1>8 DEF Next, DuplicateColumn, Serve, Stop, Crash

-----------------------------------------------------------------------------
(* A version that detection gave is the one the audit needs. *)
LEMMA DetectedIsNotTampered ==
  ASSUME NEW r \in Rows, version[r] # 0, Detected(digest[r]) = version[r]
  PROVE  ~FalselyTampered(r)
BY DEF FalselyTampered, VerifiedAs

LEMMA PreservedProgress ==
  ASSUME InitInv, [Next]_vars
  PROVE  Progress'
<1> USE BoundsAssumption
<1>0. TypeOK /\ Positions /\ Bounded /\ OneAtWork /\ VersionsTruthful /\ Progress
  BY DEF InitInv
<1>a. CASE crashes' # 0
  BY <1>a DEF Progress
<1>b. CASE crashes' = 0
  <2>0. crashes = 0
    BY <1>0, <1>b DEF TypeOK, Next, vars, Start, Skip, AddColumn, DuplicateColumn, SelectRows,
       DetectRow, BackfillDone, Number, Serve, Save, Stop, Crash
  (* The steps that change nothing of the store, and no caller's work. *)
  <2>1. ASSUME UNCHANGED data,
               \A p \in Procs : \/ phase'[p] = phase[p] /\ todo'[p] = todo[p]
                                \/ ~AtWork(p) /\ ~AtWork(p)'
        PROVE  Progress'
    <3>1. (Detecting' <=> Detecting) /\ (Numbering' <=> Numbering)
      BY <2>1 DEF Detecting, Numbering, AtWork
    <3>2. \A r \in Rows : FalselyTampered(r)' <=> FalselyTampered(r)
      BY <2>1 DEF FalselyTampered, VerifiedAs, data
    <3>3. \A p \in Procs : phase'[p] = "backfill" => phase[p] = "backfill" /\ todo'[p] = todo[p]
      BY <2>1 DEF AtWork
    <3>4. (Numbered' <=> Numbered) /\ cols' = cols
      BY <2>1 DEF Numbered, Stored, data
    <3> QED
      BY <1>0, <2>0, <3>1, <3>2, <3>3, <3>4 DEF Progress
  <2>2. CASE UNCHANGED vars
    BY <2>1, <2>2 DEF vars
  <2>3. ASSUME NEW p \in Procs, Start(p) \/ Skip(p) PROVE Progress'
    BY <1>0, <2>1, <2>3 DEF Start, Skip, AtWork, TypeOK
  <2>4. ASSUME NEW p \in Procs, NEW to \in {"down", "serving"}, Leave(p, to), UNCHANGED data,
               phase[p] \in {"alter", "serving"}
        PROVE  Progress'
    <3>1. phase' = [phase EXCEPT ![p] = to] /\ todo' = [todo EXCEPT ![p] = {}]
      BY <2>4 DEF Leave
    <3>2. ~AtWork(p) /\ ~AtWork(p)'
      BY <1>0, <2>4, <3>1 DEF TypeOK, AtWork
    <3>3. \A q \in Procs : q # p => phase'[q] = phase[q] /\ todo'[q] = todo[q]
      BY <1>0, <3>1 DEF TypeOK
    <3>4. \A q \in Procs : \/ phase'[q] = phase[q] /\ todo'[q] = todo[q]
                           \/ ~AtWork(q) /\ ~AtWork(q)'
      BY <3>2, <3>3
    <3> QED
      BY <2>1, <2>4, <3>4
  <2>5. ASSUME NEW p \in Procs, DuplicateColumn(p) \/ Serve(p) \/ Stop(p) PROVE Progress'
    BY <2>4, <2>5 DEF DuplicateColumn, Serve, Stop
  <2>6. ASSUME NEW p \in Procs, Crash(p) PROVE Progress'
    BY <1>b, <2>0, <2>6 DEF Crash
  <2>7. ASSUME NEW p \in Procs, AddColumn(p) PROVE Progress'
    <3> DEFINE c == ColumnOrder[at[p]]
    <3>1. /\ c \notin cols /\ cols' = cols \cup {c} /\ phase[p] = "alter"
          /\ phase' = [phase EXCEPT ![p] = IF c = "hash_version" THEN "select"
                                           ELSE IF c = "chain_seq" THEN "number" ELSE "alter"]
          /\ todo' = todo /\ version' = version /\ digest' = digest /\ seq' = seq /\ rows' = rows
      BY <2>7 DEF AddColumn
    <3> HIDE DEF c
    <3>2. /\ phase'[p] = IF c = "hash_version" THEN "select"
                          ELSE IF c = "chain_seq" THEN "number" ELSE "alter"
          /\ \A q \in Procs : q # p => phase'[q] = phase[q] /\ todo'[q] = todo[q]
      BY <1>0, <3>1 DEF TypeOK
    <3>3. \A r \in Rows : FalselyTampered(r)' <=> FalselyTampered(r)
      BY <3>1 DEF FalselyTampered, VerifiedAs
    <3>4. Numbered' <=> Numbered
      BY <3>1 DEF Numbered, Stored
    <3>5. (Detecting' <=> Detecting \/ c = "hash_version")
          /\ (Numbering' <=> Numbering \/ c = "chain_seq")
      BY <3>1, <3>2 DEF Detecting, Numbering
    <3>6. \A q \in Procs : phase'[q] = "backfill" => phase[q] = "backfill" /\ todo'[q] = todo[q]
      BY <3>1, <3>2
    <3> QED
      BY <1>0, <2>0, <3>1, <3>3, <3>4, <3>5, <3>6 DEF Progress
  <2>8. ASSUME NEW p \in Procs, SelectRows(p) \/ DetectRow(p) \/ BackfillDone(p)
        PROVE  Progress'
    <3>1. /\ phase[p] \in {"select", "backfill"} /\ cols' = cols /\ seq' = seq /\ digest' = digest
          /\ rows' = rows
          /\ phase' = [phase EXCEPT ![p] = phase'[p]] /\ phase'[p] \in {"backfill", "alter"}
          /\ todo' = [todo EXCEPT ![p] = todo'[p]]
      BY <1>0, <2>8 DEF SelectRows, DetectRow, BackfillDone, TypeOK, data
    <3>2. \A q \in Procs : q # p => phase'[q] = phase[q] /\ todo'[q] = todo[q]
      BY <1>0, <3>1 DEF TypeOK
    <3>3. \A q \in Procs : q # p => phase'[q] \notin {"select", "backfill"}
      BY <1>0, <3>1, <3>2 DEF OneAtWork
    <3>4. (Numbering' <=> Numbering) /\ (Numbered' <=> Numbered)
      BY <3>1, <3>2 DEF Numbering, Numbered, Stored
    <3>5. \A r \in Rows : r \notin todo'[p] \/ phase'[p] = "alter" => ~FalselyTampered(r)'
      <4>1. CASE SelectRows(p)
        <5>1. version' = version /\ todo'[p] = {r \in Stored : version[r] = 0 /\ digest[r] # "none"}
              /\ phase'[p] = "backfill"
          BY <1>0, <4>1 DEF SelectRows, TypeOK, data
        <5>2. ASSUME NEW r \in Rows, r \notin todo'[p] PROVE ~FalselyTampered(r)
          <6>1. CASE version[r] # 0
            BY <1>0, <6>1, DetectedIsNotTampered DEF VersionsTruthful
          <6>2. CASE digest[r] = "none"
            BY <6>2 DEF FalselyTampered
          <6> QED
            BY <1>0, <5>1, <5>2, <6>1, <6>2 DEF Bounded
        <5> QED
          BY <3>1, <5>1, <5>2 DEF FalselyTampered, VerifiedAs
      <4>2. CASE DetectRow(p)
        <5>1. PICK r \in todo[p] :
                 /\ todo' = [todo EXCEPT ![p] = @ \ {r}]
                 /\ version' = [version EXCEPT ![r] = IF Detected(digest[r]) = 0 THEN @
                                                                     ELSE Detected(digest[r])]
          BY <4>2 DEF DetectRow
        <5>2. r \in Rows /\ todo'[p] = todo[p] \ {r}
          BY <1>0, <5>1 DEF TypeOK
        <5>3. \A s \in Rows \ todo[p] : ~FalselyTampered(s)
          BY <1>0, <2>0, <4>2 DEF Progress, DetectRow
        <5>4. \A s \in Rows : s # r => version'[s] = version[s]
          BY <1>0, <5>1 DEF TypeOK
        <5>5. ~FalselyTampered(r)'
          <6>1. CASE Detected(digest[r]) = 0
            BY <3>1, <6>1 DEF FalselyTampered, Detected
          <6>2. CASE Detected(digest[r]) # 0
            <7>1. version'[r] = Detected(digest[r])
              BY <1>0, <5>1, <5>2, <6>2 DEF TypeOK
            <7> QED
              BY <3>1, <6>2, <7>1 DEF FalselyTampered, VerifiedAs
          <6> QED
            BY <6>1, <6>2
        <5>6. phase'[p] = "backfill"
          BY <4>2 DEF DetectRow
        <5> QED
          BY <3>1, <5>2, <5>3, <5>4, <5>5, <5>6 DEF FalselyTampered, VerifiedAs
      <4>3. CASE BackfillDone(p)
        <5>1. todo[p] = {} /\ version' = version /\ phase[p] = "backfill"
          BY <4>3 DEF BackfillDone, data
        <5>2. \A r \in Rows : ~FalselyTampered(r)
          BY <1>0, <2>0, <5>1 DEF Progress
        <5> QED
          BY <3>1, <5>1, <5>2 DEF FalselyTampered, VerifiedAs
      <4> QED
        BY <2>8, <4>1, <4>2, <4>3
    <3>6. ~Detecting' => phase'[p] = "alter"
      BY <3>1 DEF Detecting
    <3>7. \A q \in Procs : phase'[q] = "backfill" => q = p
      BY <3>3
    <3>8. "chain_seq" \in cols' /\ ~Numbering' => Numbered'
      BY <1>0, <2>0, <3>1, <3>4 DEF Progress
    <3> QED
      BY <3>5, <3>6, <3>7, <3>8 DEF Progress
  <2>9. ASSUME NEW p \in Procs, Number(p) PROVE Progress'
    <3>1. /\ phase[p] = "number" /\ phase' = [phase EXCEPT ![p] = "alter"]
          /\ todo' = todo /\ version' = version /\ digest' = digest /\ cols' = cols
      BY <2>9 DEF Number
    <3>2. phase'[p] = "alter" /\ \A q \in Procs : q # p => phase'[q] = phase[q]
      BY <1>0, <3>1 DEF TypeOK
    <3>3. Detecting' <=> Detecting
      BY <3>1, <3>2 DEF Detecting
    <3>4. \A r \in Rows : FalselyTampered(r)' <=> FalselyTampered(r)
      BY <3>1 DEF FalselyTampered, VerifiedAs
    <3>5. \A q \in Procs : phase'[q] = "backfill" => phase[q] = "backfill" /\ todo'[q] = todo[q]
      BY <3>1, <3>2
    <3>6. Numbered'
      <4>1. /\ Stored' = Stored
            /\ \A r \in Stored : seq'[r] \in 1..rows
            /\ \A r, s \in Stored : r # s => seq'[r] < seq'[s] \/ seq'[s] < seq'[r]
        BY <2>9, NumberedRows
      <4> QED
        BY <4>1 DEF Numbered
    <3> QED
      BY <1>0, <2>0, <3>1, <3>3, <3>4, <3>5, <3>6 DEF Progress
  <2>10. ASSUME NEW p \in Procs, Save(p) PROVE Progress'
    <3>1. phase' = phase /\ todo' = todo /\ cols' = cols
      BY <2>10 DEF Save
    <3>2. (Detecting' <=> Detecting) /\ (Numbering' <=> Numbering)
      BY <3>1 DEF Detecting, Numbering
    <3>4. \A r \in Rows : ~FalselyTampered(r) => ~FalselyTampered(r)'
      <4>1. \A r \in Rows : r # rows' => digest'[r] = digest[r] /\ version'[r] = version[r]
        BY <2>10, SavedRow
      <4>2. \A r \in Rows : digest'[r] = "v2" /\ version'[r] = 2 => ~FalselyTampered(r)'
        BY DEF FalselyTampered, VerifiedAs, Detected
      <4>3. digest'[rows'] = "v2" /\ version'[rows'] = 2
        BY <2>10, SavedRow
      <4> QED
        BY <4>1, <4>2, <4>3 DEF FalselyTampered, VerifiedAs
    <3>5. Numbered => Numbered'
      <4>1. /\ Stored' = Stored \cup {rows'} /\ Stored \subseteq Rows /\ rows' \notin Stored
            /\ \A r \in Rows : r # rows' => seq'[r] = seq[r]
            /\ \A r \in Stored : seq'[r] < seq'[rows']
            /\ seq'[rows'] \in 1..rows'
        BY <2>10, SavedRow
      <4>2. \A r \in Stored : seq'[r] = seq[r] /\ seq[r] \in Nat /\ seq[r] # seq'[rows']
        BY <1>0, <4>1 DEF TypeOK
      <4>3. seq'[rows'] # 0
        BY <4>1
      <4> QED
        BY <4>1, <4>2, <4>3 DEF Numbered
    <3> QED
      BY <1>0, <2>0, <3>1, <3>2, <3>4, <3>5 DEF Progress
  <2> QED
    BY <2>2, <2>3, <2>5, <2>6, <2>7, <2>8, <2>9, <2>10 DEF Next
<1> QED
  BY <1>a, <1>b

-----------------------------------------------------------------------------
LEMMA InitInvHolds == Spec => []InitInv
<1>1. InitInv /\ [Next]_vars => InitInv'
  BY PreservedTypes, PreservedPositions, PreservedRows, PreservedOneAtWork, PreservedUnnumbered,
     PreservedProgress
  DEF InitInv
<1> QED
  BY InitHolds, <1>1, PTL DEF Spec

(* The variables of init_db always have their types. *)
THEOREM TypeCorrect == Spec => []TypeOK
<1>1. InitInv => TypeOK
  BY DEF InitInv
<1> QED
  BY InitInvHolds, <1>1, PTL

(* No row is ever given a hash_version its hash does not match, whatever
   crashed or overlapped. *)
THEOREM VersionsStayTruthful == Spec => []VersionsTruthful
<1>1. InitInv => VersionsTruthful
  BY DEF InitInv
<1> QED
  BY InitInvHolds, <1>1, PTL

(* A run that is saved goes behind all others, and no startup, save or death
   changes the order of two runs, but for an import saved during the numbering
   whose created_at is before that of a run already stored. *)
THEOREM OrderIsKept == Spec => OrderNeverRedone
<1>1. InitInv /\ [Next]_vars => [OrderKept]_vars
  BY PreservedRows
<1> QED
  BY InitInvHolds, <1>1, PTL DEF Spec, OrderNeverRedone

(* As long as no init_db was cut short by a death, and whoever else migrates
   or saves, a store that is served has every column, untouched rows that
   verify and a chain with an order, except while another caller is at work
   on the rows. *)
THEOREM SafeUntilADeath == Spec => []SafeWithoutDeaths
<1>1. InitInv => SafeWithoutDeaths
  <2> SUFFICES ASSUME InitInv, crashes = 0, \A q \in Procs : ~AtWork(q),
                      NEW p \in Procs, phase[p] = "serving"
               PROVE  Migrated
    BY DEF SafeWithoutDeaths, SafeOnEveryStartup
  <2>1. cols = Columns
    BY DEF InitInv, Positions
  <2>2. "hash_version" \in Columns /\ "chain_seq" \in Columns
    BY ColumnFacts
  <2>3. ~Detecting /\ ~Numbering
    BY DEF AtWork, Detecting, Numbering
  <2>4. Stored \subseteq Rows
    BY BoundsAssumption DEF InitInv, TypeOK, Stored, Rows
  <2> QED
    BY <2>1, <2>2, <2>3, <2>4 DEF InitInv, Progress, Migrated
<1> QED
  BY InitInvHolds, <1>1, PTL
=============================================================================
