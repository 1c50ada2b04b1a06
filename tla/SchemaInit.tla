----------------------------- MODULE SchemaInit -----------------------------
(***************************************************************************)
(* init_db of app/services/database.py: at every startup, and after every  *)
(* unlock, the columns the schema gained over time are added to            *)
(* return_runs if they are missing.  Two of them come with work on the     *)
(* rows: hash_version with a detection of the hash algorithm of each row,  *)
(* chain_seq with a numbering of the rows in created_at order.  The        *)
(* connection is in autocommit mode, so every statement is a transaction   *)
(* of its own, and a process may die, another one start, or one that       *)
(* serves already save a run, between any two of them.                     *)
(***************************************************************************)
EXTENDS Integers, Sequences, FiniteSets

CONSTANTS Procs,       \* callers of init_db: server processes, unlock requests
          NumRows,     \* rows written before, with rowids 1..NumRows
          MaxRows,     \* bound on the rows, those saved meanwhile included
          MaxCrashes   \* bound on the deaths of processes inside init_db

ASSUME BoundsAssumption ==
  /\ NumRows \in Nat \ {0}
  /\ MaxRows \in Nat /\ NumRows <= MaxRows
  /\ MaxCrashes \in Nat

Rows == 1..MaxRows

\* the columns in the order init_db looks at them
ColumnOrder == <<"state_outputs_json", "tags", "notes", "integrity_hash",
                 "previous_hash", "hash_version", "chain_seq">>
Columns == {ColumnOrder[k] : k \in DOMAIN ColumnOrder}
ColumnsUpTo(n) == {ColumnOrder[k] : k \in 1..n}

VARIABLES
  cols,      \* the columns return_runs has
  rows,      \* the number of rows it has
  rank,      \* rank[r]: place of row r by (created_at, rowid), any for an import
  digest,    \* what the stored integrity_hash of a row matches
  version,   \* the hash_version column
  seq,       \* the chain_seq column
  phase,     \* what each caller of init_db is doing
  at,        \* the column it looks at
  seen,      \* the columns PRAGMA table_info told it
  todo,      \* the rows its backfill still has to look at
  crashes,   \* history: deaths so far
  early      \* history: rows saved between another caller's ALTER TABLE ADD
             \* COLUMN chain_seq and its numbering

data == <<cols, rows, rank, digest, version, seq>>
vars == <<data, phase, at, seen, todo, crashes, early>>

Stored == 1..rows

(* The hash matches algorithm 1 or 2, or neither because the row was edited;
   a corrupted blob cannot be parsed at all; rows older than the column have
   no hash, and nor have those still to come. *)
Digests == {"v1", "v2", "edited", "corrupt", "none"}

\* _backfill_hash_versions tries v2, then v1, and leaves the rest at 0
Detected(d) == CASE d = "v2" -> 2 [] d = "v1" -> 1 [] OTHER -> 0

(* Any earlier release: its columns are the first ones of the list, its work
   on the rows is complete.  Once there is a chain_seq, imported runs have one
   that is not their place by created_at. *)
Init ==
  /\ \E n \in 0..Len(ColumnOrder) : cols = ColumnsUpTo(n)
  /\ rows = NumRows
  /\ rank \in {f \in [Rows -> Rows] : \A r, s \in Rows : f[r] = f[s] => r = s}
  /\ digest \in {f \in [Rows -> Digests] :
       \A r \in Rows : "integrity_hash" \notin cols \/ r > NumRows => f[r] = "none"}
  /\ version = [r \in Rows |-> IF "hash_version" \in cols THEN Detected(digest[r]) ELSE 0]
  /\ seq \in {f \in [Rows -> 0..NumRows] :
       \A r \in Rows : IF "chain_seq" \in cols /\ r <= NumRows
                         THEN f[r] # 0 /\ \A s \in Rows : f[r] = f[s] => r = s
                         ELSE f[r] = 0}
  /\ phase = [p \in Procs |-> "down"]
  /\ at = [p \in Procs |-> 1]
  /\ seen = [p \in Procs |-> {}]
  /\ todo = [p \in Procs |-> {}]
  /\ crashes = 0
  /\ early = {}

InInit(p) == phase[p] \notin {"down", "serving"}

-----------------------------------------------------------------------------
(* CREATE TABLE IF NOT EXISTS, then PRAGMA table_info. *)
Start(p) ==
  /\ phase[p] = "down"
  /\ phase' = [phase EXCEPT ![p] = "alter"]
  /\ at' = [at EXCEPT ![p] = 1]
  /\ seen' = [seen EXCEPT ![p] = cols]
  /\ UNCHANGED <<data, todo, crashes, early>>

(* The locals of a caller that is done, or gone. *)
Leave(p, to) ==
  /\ phase' = [phase EXCEPT ![p] = to]
  /\ at' = [at EXCEPT ![p] = 1]
  /\ seen' = [seen EXCEPT ![p] = {}]
  /\ todo' = [todo EXCEPT ![p] = {}]

\* bug: the rows are numbered at every startup
SkipButNumber(p) ==
  /\ phase[p] = "alter"
  /\ at[p] \in DOMAIN ColumnOrder
  /\ ColumnOrder[at[p]] \in seen[p]
  /\ IF ColumnOrder[at[p]] = "chain_seq"
       THEN phase' = [phase EXCEPT ![p] = "number"] /\ UNCHANGED at
       ELSE at' = [at EXCEPT ![p] = @ + 1] /\ UNCHANGED phase
  /\ UNCHANGED <<data, seen, todo, crashes, early>>

(* The column is in the list read at the start. *)
Skip(p) ==
  /\ phase[p] = "alter"
  /\ at[p] \in DOMAIN ColumnOrder
  /\ ColumnOrder[at[p]] \in seen[p]
  /\ at' = [at EXCEPT ![p] = @ + 1]
  /\ UNCHANGED <<data, phase, seen, todo, crashes, early>>

(* ALTER TABLE ADD COLUMN commits by itself; the rows get the default. *)
AddColumn(p) ==
  LET c == ColumnOrder[at[p]]
  IN /\ phase[p] = "alter"
     /\ at[p] \in DOMAIN ColumnOrder
     /\ c \notin seen[p] \cup cols
     /\ cols' = cols \cup {c}
     /\ phase' = [phase EXCEPT ![p] = CASE c = "hash_version" -> "select"
                                        [] c = "chain_seq" -> "number"
                                        [] OTHER -> "alter"]
     /\ at' = [at EXCEPT ![p] = IF c \in {"hash_version", "chain_seq"} THEN @ ELSE @ + 1]
     /\ UNCHANGED <<rows, rank, digest, version, seq, seen, todo, crashes, early>>

(* Somebody else added it since: "duplicate column name", and startup fails. *)
DuplicateColumn(p) ==
  /\ phase[p] = "alter"
  /\ at[p] \in DOMAIN ColumnOrder
  /\ ColumnOrder[at[p]] \in cols \ seen[p]
  /\ Leave(p, "down")
  /\ UNCHANGED <<data, crashes, early>>

(* WHERE hash_version = 0 AND integrity_hash != '' *)
SelectRows(p) ==
  /\ phase[p] = "select"
  /\ phase' = [phase EXCEPT ![p] = "backfill"]
  /\ todo' = [todo EXCEPT ![p] = {r \in Stored : version[r] = 0 /\ digest[r] # "none"}]
  /\ UNCHANGED <<data, at, seen, crashes, early>>

\* bug: what is not v2 is taken for v1 without recomputing the hash
DetectRowUnchecked(p) ==
  /\ phase[p] = "backfill"
  /\ \E r \in todo[p] :
       /\ \A s \in todo[p] : r <= s
       /\ todo' = [todo EXCEPT ![p] = @ \ {r}]
       /\ version' = [version EXCEPT ![r] = IF digest[r] = "v2" THEN 2 ELSE 1]
  /\ UNCHANGED <<cols, rows, rank, digest, seq, phase, at, seen, crashes, early>>

(* One row of the backfill, in rowid order. *)
DetectRow(p) ==
  /\ phase[p] = "backfill"
  /\ \E r \in todo[p] :
       /\ \A s \in todo[p] : r <= s
       /\ todo' = [todo EXCEPT ![p] = @ \ {r}]
       /\ version' = [version EXCEPT ![r] = IF Detected(digest[r]) = 0 THEN @
                                                                     ELSE Detected(digest[r])]
  /\ UNCHANGED <<cols, rows, rank, digest, seq, phase, at, seen, crashes, early>>

\* bug: the backfill stops at the first row it cannot parse
BackfillStops(p) ==
  /\ phase[p] = "backfill"
  /\ todo[p] = {} \/ \E r \in todo[p] : digest[r] = "corrupt" /\ \A s \in todo[p] : r <= s
  /\ phase' = [phase EXCEPT ![p] = "alter"]
  /\ at' = [at EXCEPT ![p] = @ + 1]
  /\ todo' = [todo EXCEPT ![p] = {}]
  /\ UNCHANGED <<data, seen, crashes, early>>

BackfillDone(p) ==
  /\ phase[p] = "backfill"
  /\ todo[p] = {}
  /\ phase' = [phase EXCEPT ![p] = "alter"]
  /\ at' = [at EXCEPT ![p] = @ + 1]
  /\ UNCHANGED <<data, seen, todo, crashes, early>>

\* the rows up to this one by (created_at, rowid), itself included
UpTo(r) == {s \in Stored : rank[s] <= rank[r]}

\* bug: a row counts itself twice
NumberOffByOne(p) ==
  /\ phase[p] = "number"
  /\ seq' = [r \in Rows |-> IF r \in Stored THEN Cardinality(UpTo(r)) + 1 ELSE 0]
  /\ phase' = [phase EXCEPT ![p] = "alter"]
  /\ at' = [at EXCEPT ![p] = @ + 1]
  /\ UNCHANGED <<cols, rows, rank, digest, version, seen, todo, crashes, early>>

(* UPDATE return_runs SET chain_seq = (the rows up to this one), in one go. *)
Number(p) ==
  /\ phase[p] = "number"
  /\ seq' = [r \in Rows |-> IF r \in Stored THEN Cardinality(UpTo(r)) ELSE 0]
  /\ phase' = [phase EXCEPT ![p] = "alter"]
  /\ at' = [at EXCEPT ![p] = @ + 1]
  /\ UNCHANGED <<cols, rows, rank, digest, version, seen, todo, crashes, early>>

(* PRAGMA user_version, and the routes are served. *)
Serve(p) ==
  /\ phase[p] = "alter"
  /\ at[p] > Len(ColumnOrder)
  /\ Leave(p, "serving")
  /\ UNCHANGED <<data, crashes, early>>

(* save_return_run of a process that serves: the run goes to the end of the
   chain, whatever its created_at is; an import keeps its own. *)
Save(p) ==
  /\ phase[p] = "serving"
  /\ rows < MaxRows
  /\ rows' = rows + 1
  /\ digest' = [digest EXCEPT ![rows'] = "v2"]
  /\ version' = [version EXCEPT ![rows'] = 2]
  /\ \E last \in Stored :
       /\ \A r \in Stored : seq[r] <= seq[last]
       /\ seq' = [seq EXCEPT ![rows'] = seq[last] + 1]
  /\ early' = IF \E q \in Procs : phase[q] = "number" THEN early \cup {rows'} ELSE early
  /\ UNCHANGED <<cols, rank, phase, at, seen, todo, crashes>>

(* A serving process stops, and will be started again. *)
Stop(p) ==
  /\ phase[p] = "serving"
  /\ Leave(p, "down")
  /\ UNCHANGED <<data, crashes, early>>

Crash(p) ==
  /\ InInit(p)
  /\ crashes < MaxCrashes
  /\ crashes' = crashes + 1
  /\ Leave(p, "down")
  /\ UNCHANGED <<data, early>>

Next == \E p \in Procs :
  \/ Start(p) \/ Skip(p) \/ AddColumn(p) \/ DuplicateColumn(p)
  \/ SelectRows(p) \/ DetectRow(p) \/ BackfillDone(p) \/ Number(p)
  \/ Serve(p) \/ Save(p) \/ Stop(p) \/ Crash(p)

Spec == Init /\ [][Next]_vars

-----------------------------------------------------------------------------
(* Types of the variables. *)
TypeOK ==
  /\ cols \in SUBSET Columns
  /\ rows \in NumRows..MaxRows
  /\ rank \in [Rows -> Rows]
  /\ digest \in [Rows -> Digests]
  /\ version \in [Rows -> 0..2]
  /\ seq \in [Rows -> 0..MaxRows]
  /\ phase \in [Procs -> {"down", "alter", "select", "backfill", "number", "serving"}]
  /\ at \in [Procs -> 1..(Len(ColumnOrder) + 1)]
  /\ seen \in [Procs -> SUBSET Columns]
  /\ todo \in [Procs -> SUBSET Rows]
  /\ crashes \in 0..MaxCrashes
  /\ early \in SUBSET Rows

\* verify_chain takes hash_version 0 for version 2
VerifiedAs(r) == IF version[r] = 0 THEN 2 ELSE version[r]
FalselyTampered(r) == digest[r] \in {"v1", "v2"} /\ Detected(digest[r]) # VerifiedAs(r)

\* chain_seq is what the chain's walk and the next save need
Numbered == \A r, s \in Stored : seq[r] # 0 /\ (r # s => seq[r] # seq[s])

Migrated == Columns = cols /\ Numbered /\ \A r \in Stored : ~FalselyTampered(r)

(* "Safe to call on every startup" (init_db): a server that serves has a store
   whose untouched rows verify and whose chain has an order. *)
SafeOnEveryStartup == (\E p \in Procs : phase[p] = "serving") => Migrated

(* Between adding a column and the end of the work that belongs to it. *)
AtWork(p) == phase[p] \in {"select", "backfill", "number"}

(* What of it the code achieves: as long as no init_db was cut short by a
   death, and whoever else migrates or saves meanwhile, a server serves a
   migrated store, except while another caller is still at work on the rows. *)
SafeWithoutDeaths ==
  crashes = 0 /\ (\A p \in Procs : ~AtWork(p)) => SafeOnEveryStartup

(* An edited or unreadable row is never given a version under which the audit
   would try to accept it, whatever crashed or overlapped. *)
VersionsTruthful ==
  \A r \in Rows : version[r] # 0 => Detected(digest[r]) = version[r]

(* "The integrity chain is ordered by insertion, not created_at" (init_db): a
   run that is saved goes behind all others, and no later startup or save
   changes the order of two runs.  The code does change it for one kind of
   row, which is left out: an import that another process saved between a
   caller's ALTER TABLE ADD COLUMN chain_seq and its UPDATE, and whose
   created_at is before that of a run already stored. *)
OutOfOrder(r, s) == s \in early /\ rank[s] < rank[r]
OrderKept ==
  /\ \A r, s \in Stored : seq[r] < seq[s] => seq'[r] < seq'[s] \/ OutOfOrder(r, s)
  /\ \A r \in Stored, s \in Stored' \ Stored : seq'[r] < seq'[s]
OrderNeverRedone == [][OrderKept]_vars
=============================================================================
