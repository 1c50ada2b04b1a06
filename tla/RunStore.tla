------------------------------ MODULE RunStore ------------------------------
(***************************************************************************)
(* The return_runs table of app/services/database.py and the integrity     *)
(* chain threaded through it, written by several server processes over one *)
(* SQLite file.  Every process runs one writing request at a time (the     *)
(* handlers that write are coroutines of one event loop that do not await  *)
(* between BEGIN and COMMIT); the processes interleave at every statement, *)
(* and SQLite's write lock is what keeps their transactions apart.         *)
(*                                                                         *)
(* A run's body stands for the eleven fields the v2 hash covers other than *)
(* the id; SHA-256 over them is taken to be injective, so the hash is the  *)
(* pair itself.  Its annotation (tags and notes) is outside the hash.      *)
(***************************************************************************)
EXTENDS Integers

CONSTANTS Clients,   \* server processes
          Ids,       \* run identifiers
          Bodies,    \* what the program can compute, or an import can hold
          Corrupt,   \* a stored blob that is no longer JSON
          Notes,     \* annotations
          NoNotes,   \* the annotation of a freshly calculated run
          NoHash,    \* '' in integrity_hash / previous_hash
          NoClient,  \* nobody holds the write lock
          Absent,    \* no row under this id
          MaxSeq     \* chain_seq of the last row the disk has room for

Hash(i, b) == <<i, b>>
Hashes == Ids \X Bodies
Row == [body : Bodies \cup {Corrupt}, notes : Notes,
        hash : Hashes, prev : Hashes \cup {NoHash}, seq : 1..MaxSeq]

Content == [body : Bodies \cup {Corrupt}, notes : Notes]

ASSUME SentinelAssumption ==
  /\ Corrupt \notin Bodies
  /\ NoHash \notin Hashes
  /\ NoClient \notin Clients
  /\ Absent \notin Row \cup Content
  /\ NoNotes \in Notes
  /\ Ids # {} /\ Bodies # {}

ASSUME SeqAssumption == MaxSeq \in Nat \ {0}

VARIABLES
  table,   \* the committed rows: table[i] is a row, or Absent
  draft,   \* the rows as the open write transaction sees them
  writer,  \* the process inside BEGIN IMMEDIATE .. COMMIT, or NoClient
  pc,      \* the statement each process executes next
  req,     \* the run each process saves, or the id it deletes
  link,    \* previous_hash and next_seq read from the tail of the chain
  issued   \* the ids ever used, which uuid4 never returns again

vars == <<table, draft, writer, pc, req, link, issued>>

SaveSteps == {"begin_save", "read_tail", "insert"}
DeleteSteps == {"begin_delete", "relink", "delete_row"}
Steps == {"idle", "commit"} \cup SaveSteps \cup DeleteSteps
InTransaction == Steps \ {"idle", "begin_save", "begin_delete"}

Saved(t) == {i \in Ids : t[i] # Absent}

\* bug: any row passes for the tail
AnyRowIsTail(t, k) == k \in Saved(t)

\* ORDER BY chain_seq DESC LIMIT 1
IsTail(t, k) == k \in Saved(t) /\ \A j \in Saved(t) : t[j].seq <= t[k].seq

\* WHERE chain_seq > row.chain_seq ORDER BY chain_seq ASC LIMIT 1
Later(t, i) == {j \in Saved(t) : t[j].seq > t[i].seq}
IsNext(t, i, k) == k \in Later(t, i) /\ \A j \in Later(t, i) : t[k].seq <= t[j].seq

\* bug: the chain is numbered from 0
FirstLinkZero == [prev |-> NoHash, seq |-> 0]

\* the chain's first row: previous_hash '' and next_seq 1
FirstLink == [prev |-> NoHash, seq |-> 1]

\* what stands in req while there is no request
NoRequest == [id |-> CHOOSE i \in Ids : TRUE, body |-> CHOOSE b \in Bodies : TRUE,
              notes |-> NoNotes]

Init ==
  /\ table = [i \in Ids |-> Absent]
  /\ draft = table
  /\ writer = NoClient
  /\ pc = [c \in Clients |-> "idle"]
  /\ req = [c \in Clients |-> NoRequest]
  /\ link = [c \in Clients |-> FirstLink]
  /\ issued = {}

-----------------------------------------------------------------------------
(* Requests reaching a process. *)

Ask(c, step, i, b, n) ==
  /\ pc[c] = "idle"
  /\ pc' = [pc EXCEPT ![c] = step]
  /\ req' = [req EXCEPT ![c] = [id |-> i, body |-> b, notes |-> n]]
  /\ UNCHANGED <<table, draft, writer, link>>

(* A calculation ends with a run under a fresh uuid4 to be saved. *)
Calculate(c, i, b) ==
  /\ i \notin issued
  /\ issued' = issued \cup {i}
  /\ Ask(c, "begin_save", i, b, NoNotes)

(* An entry of an import file keeps its id, and may have been exported from
   a run deleted since; it is skipped when get_return_run finds the id. *)
ImportEntry(c, i, b, n) ==
  /\ i \notin Saved(table)
  /\ issued' = issued \cup {i}
  /\ Ask(c, "begin_save", i, b, n)

AskDelete(c, i) ==
  /\ Ask(c, "begin_delete", i, req[c].body, req[c].notes)
  /\ UNCHANGED issued

-----------------------------------------------------------------------------
(* The write transaction.  Leaving it makes the draft the committed table
   (COMMIT) or the committed table the draft (ROLLBACK, or a crash). *)

Goto(c, step) == pc' = [pc EXCEPT ![c] = step]

\* the handler returns, and its locals are gone
Return(c) ==
  /\ Goto(c, "idle")
  /\ link' = [link EXCEPT ![c] = FirstLink]
  /\ req' = [req EXCEPT ![c] = NoRequest]

\* bug: without a busy timeout a request waits for the lock for ever
WaitForLock(c) == FALSE /\ UNCHANGED vars

\* bug: INSERT OR REPLACE
InsertOrReplace(c) ==
  /\ pc[c] = "insert"
  /\ link[c].seq <= MaxSeq
  /\ draft' = [draft EXCEPT ![req[c].id] =
       [body |-> req[c].body, notes |-> req[c].notes,
        hash |-> Hash(req[c].id, req[c].body),
        prev |-> link[c].prev, seq |-> link[c].seq]]
  /\ Goto(c, "commit")
  /\ UNCHANGED <<table, writer, req, link, issued>>

\* bug: the chain is not relinked around the deleted row
NoRelink(c) ==
  /\ pc[c] = "relink"
  /\ req[c].id \in Saved(draft)
  /\ Goto(c, "delete_row")
  /\ UNCHANGED <<table, draft, writer, req, link, issued>>

\* bug: ORDER BY chain_seq ASC is missing where the successor is looked up
RelinkAnyLater(c) ==
  LET i == req[c].id
  IN /\ pc[c] = "relink"
     /\ i \in Saved(draft)
     /\ \/ Later(draft, i) = {} /\ draft' = draft
        \/ \E k \in Later(draft, i) : draft' = [draft EXCEPT ![k].prev = draft[i].prev]
     /\ Goto(c, "delete_row")
     /\ UNCHANGED <<table, writer, req, link, issued>>

(* BEGIN IMMEDIATE takes the write lock at once. *)
Begin(c, from, step) ==
  /\ pc[c] = from
  /\ writer = NoClient
  /\ writer' = c
  /\ draft' = table
  /\ Goto(c, step)
  /\ UNCHANGED <<table, req, link, issued>>

BeginSave(c) == Begin(c, "begin_save", "read_tail")
BeginDelete(c) == Begin(c, "begin_delete", "relink")

(* busy_timeout runs out while another process holds the lock: the request
   fails with OperationalError before its transaction starts. *)
Busy(c) ==
  /\ pc[c] \in {"begin_save", "begin_delete"}
  /\ writer # NoClient
  /\ Return(c)
  /\ UNCHANGED <<table, draft, writer, issued>>

ReadTail(c) ==
  /\ pc[c] = "read_tail"
  /\ \/ /\ Saved(draft) = {}
        /\ link' = [link EXCEPT ![c] = FirstLink]
     \/ \E k \in Saved(draft) :
          /\ IsTail(draft, k)
          /\ link' = [link EXCEPT ![c] = [prev |-> draft[k].hash, seq |-> draft[k].seq + 1]]
  /\ Goto(c, "insert")
  /\ UNCHANGED <<table, draft, writer, req, issued>>

(* The primary key refuses an id that is there: see Rollback. *)
Insert(c) ==
  /\ pc[c] = "insert"
  /\ req[c].id \notin Saved(draft)
  /\ link[c].seq <= MaxSeq
  /\ draft' = [draft EXCEPT ![req[c].id] =
       [body |-> req[c].body, notes |-> req[c].notes,
        hash |-> Hash(req[c].id, req[c].body),
        prev |-> link[c].prev, seq |-> link[c].seq]]
  /\ Goto(c, "commit")
  /\ UNCHANGED <<table, writer, req, link, issued>>

(* The row that follows the one to delete takes over its previous_hash. *)
Relink(c) ==
  LET i == req[c].id
  IN /\ pc[c] = "relink"
     /\ i \in Saved(draft)
     /\ \/ Later(draft, i) = {} /\ draft' = draft
        \/ \E k \in Saved(draft) :
             /\ IsNext(draft, i, k)
             /\ draft' = [draft EXCEPT ![k].prev = draft[i].prev]
     /\ Goto(c, "delete_row")
     /\ UNCHANGED <<table, writer, req, link, issued>>

(* No such row: the transaction commits with nothing done. *)
DeleteMissing(c) ==
  /\ pc[c] = "relink"
  /\ req[c].id \notin Saved(draft)
  /\ Goto(c, "commit")
  /\ UNCHANGED <<table, draft, writer, req, link, issued>>

DeleteRow(c) ==
  /\ pc[c] = "delete_row"
  /\ draft' = [draft EXCEPT ![req[c].id] = Absent]
  /\ Goto(c, "commit")
  /\ UNCHANGED <<table, writer, req, link, issued>>

Commit(c) ==
  /\ pc[c] = "commit"
  /\ table' = draft
  /\ writer' = NoClient
  /\ Return(c)
  /\ UNCHANGED <<draft, issued>>

(* Any statement may fail (a full disk, an I/O error, the primary key): the
   except clause rolls back and raises. *)
Rollback(c) ==
  /\ pc[c] \in InTransaction
  /\ draft' = table
  /\ writer' = NoClient
  /\ Return(c)
  /\ UNCHANGED <<table, issued>>

(* The process dies and is started again; SQLite discards its transaction. *)
Crash(c) ==
  /\ pc[c] # "idle"
  /\ IF writer = c THEN draft' = table /\ writer' = NoClient
                   ELSE UNCHANGED <<draft, writer>>
  /\ Return(c)
  /\ UNCHANGED <<table, issued>>

-----------------------------------------------------------------------------
(* Single statements in autocommit mode: they need the write lock too. *)

\* bug: an annotation written in the middle of another process's transaction
OverwriteUnlocked(i, row) ==
  /\ i \in Saved(table)
  /\ table' = [table EXCEPT ![i] = row]
  /\ draft' = IF writer = NoClient THEN table' ELSE draft
  /\ UNCHANGED <<writer, pc, req, link, issued>>

Overwrite(i, row) ==
  /\ i \in Saved(table)
  /\ writer = NoClient
  /\ table' = [table EXCEPT ![i] = row]
  /\ draft' = table'
  /\ UNCHANGED <<writer, pc, req, link, issued>>

Annotate(c, i, n) ==
  /\ pc[c] = "idle"
  /\ Overwrite(i, [table[i] EXCEPT !.notes = n])

(* Somebody edits a blob of the database file with another tool. *)
Tamper(i, b) == Overwrite(i, [table[i] EXCEPT !.body = b])

-----------------------------------------------------------------------------
Statement(c) ==
  \/ BeginSave(c) \/ BeginDelete(c) \/ Busy(c)
  \/ ReadTail(c) \/ Insert(c)
  \/ Relink(c) \/ DeleteMissing(c) \/ DeleteRow(c)
  \/ Commit(c) \/ Rollback(c)

Request(c) ==
  \E i \in Ids :
    \/ AskDelete(c, i)
    \/ \E b \in Bodies : Calculate(c, i, b) \/ \E n \in Notes : ImportEntry(c, i, b, n)
    \/ \E n \in Notes : Annotate(c, i, n)

Next ==
  \/ \E c \in Clients : Request(c) \/ Statement(c) \/ Crash(c)
  \/ \E i \in Ids, b \in Bodies \cup {Corrupt} : Tamper(i, b)

Spec == Init /\ [][Next]_vars

(* A started request goes on executing its statements. *)
Fairness == \A c \in Clients : WF_vars(Statement(c))
FairSpec == Spec /\ Fairness

-----------------------------------------------------------------------------
(* verify_chain: what the audit page says of a table.  Walking the rows by
   chain_seq with the stored hash of the row before is, for each row, a
   comparison with the row it directly follows. *)

ChainBreak(t, i) ==
  IF \E j \in Saved(t) : t[j].seq < t[i].seq
    THEN ~ \E j \in Saved(t) : IsNext(t, j, i) /\ t[i].prev = t[j].hash
    ELSE t[i].prev # NoHash

VerifyChain(t) ==
  {<<i, "chain_break">> : i \in {k \in Saved(t) : ChainBreak(t, k)}}
  \cup {<<i, "corrupted">> : i \in {k \in Saved(t) : t[k].body = Corrupt}}
  \cup {<<i, "tampered">> : i \in {k \in Saved(t) :
          t[k].body # Corrupt /\ t[k].hash # Hash(k, t[k].body)}}

-----------------------------------------------------------------------------
(* The types of the variables. *)
TypeOK ==
  /\ table \in [Ids -> Row \cup {Absent}]
  /\ draft \in [Ids -> Row \cup {Absent}]
  /\ writer \in Clients \cup {NoClient}
  /\ pc \in [Clients -> Steps]
  /\ req \in [Clients -> [id : Ids, body : Bodies, notes : Notes]]
  /\ link \in [Clients -> [prev : Hashes \cup {NoHash}, seq : 1..(MaxSeq + 1)]]
  /\ issued \in SUBSET Ids

(* Whatever was saved, deleted, imported, annotated or edited, in whatever
   interleaving, and wherever a process died, the audit of the committed table
   reports no chain_break: one would be "indistinguishable from tampering"
   (delete_return_run). *)
ChainIntact == \A i \in Ids : <<i, "chain_break">> \notin VerifyChain(table)

(* No two runs follow the same run: "Atomic read-then-insert prevents
   concurrent saves from duplicating previous_hash" (save_return_run); and the
   order of the chain is never a matter of the rowid tie-break. *)
NoFork ==
  \A i, j \in Saved(table) : i # j =>
    /\ table[i].prev # table[j].prev
    /\ table[i].seq # table[j].seq

(* A saved run keeps its hash and its place for as long as it is stored, and
   only the deletion of the run it directly follows changes its previous_hash. *)
KeepsPlaces(t, u) ==
  \A i \in Saved(t) \cap Saved(u) :
    /\ u[i].hash = t[i].hash
    /\ u[i].seq = t[i].seq
    /\ u[i].prev # t[i].prev =>
         \E d \in Saved(t) \ Saved(u) : IsNext(t, d, i) /\ u[i].prev = t[d].prev
ChainOnlyRelinked == [][KeepsPlaces(table, table')]_vars

(* Every request ends, even when another process holds the write lock or its
   own statement fails. *)
RequestsEnd == \A c \in Clients : pc[c] # "idle" ~> pc[c] = "idle"

(* The store is a ledger: seen through SELECT ... ORDER BY chain_seq, a commit
   appends one run or removes one run, and all other steps are invisible or
   change one run's annotation or body. *)
Shown(t) == [i \in Ids |-> IF t[i] = Absent THEN Absent
                          ELSE [body |-> t[i].body, notes |-> t[i].notes]]
Order(t) == {p \in Saved(t) \X Saved(t) : t[p[1]].seq < t[p[2]].seq}

Ledger == INSTANCE RunLedger WITH
  Contents <- Content, None <- Absent, runs <- Shown(table), before <- Order(table)
ImplementsLedger == Ledger!Spec

-----------------------------------------------------------------------------
(* Why these hold: what is true between the statements of a transaction. *)

Without(t, i) == [t EXCEPT ![i] = Absent]

Sound(t) ==
  /\ \A i \in Saved(t) : ~ChainBreak(t, i) /\ t[i].hash[1] = i
  /\ \A i, j \in Saved(t) : t[i].seq = t[j].seq => i = j

\* the row to insert continues the chain
FitsTail(t, l) ==
  \/ Saved(t) = {} /\ l.prev = NoHash
  \/ \E k \in Saved(t) : IsTail(t, k) /\ l.prev = t[k].hash /\ l.seq = t[k].seq + 1

(* The write lock is held by the process inside the transaction, the committed
   table is sound at every moment, and the draft becomes sound again exactly
   when the transaction is ready to commit. *)
LockOK ==
  /\ \A c \in Clients : pc[c] \in InTransaction <=> writer = c
  /\ writer = NoClient => draft = table

DraftOK(c) ==
  /\ pc[c] \in {"read_tail", "insert", "relink"} => draft = table
  /\ pc[c] = "insert" => FitsTail(draft, link[c])
  /\ pc[c] = "delete_row" =>
       /\ req[c].id \in Saved(draft)
       /\ Sound(Without(draft, req[c].id))
       /\ KeepsPlaces(table, Without(draft, req[c].id))
  /\ pc[c] = "commit" => Sound(draft) /\ KeepsPlaces(table, draft)

StoreInv ==
  /\ TypeOK
  /\ LockOK
  /\ Sound(table)
  /\ \A c \in Clients : DraftOK(c)
=============================================================================
