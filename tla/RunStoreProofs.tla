--------------------------- MODULE RunStoreProofs ---------------------------
(***************************************************************************)
(* Theorems about RunStore.  The first part is about tables alone: what an *)
(* insertion at the tail and a deletion with its relink do to a chain.  The *)
(* second part carries them through the statements of a transaction.  The  *)
(* third shows that RunStore implements RunLedger: at its commit a         *)
(* transaction is one run away from the committed table, and what users    *)
(* see of that is one step of the ledger.                                  *)
(***************************************************************************)
EXTENDS RunStore, TLAPS

Tables == [Ids -> Row \cup {Absent}]

LEMMA AbsentNoRow == \A r \in Row : r # Absent
BY SentinelAssumption

(* A present row is a row, and its chain_seq an integer. *)
LEMMA SavedRows ==
  ASSUME NEW t \in Tables, NEW i \in Saved(t)
  PROVE  i \in Ids /\ t[i] \in Row /\ t[i].seq \in Int
BY SeqAssumption DEF Tables, Saved, Row

(* Inserting after the tail keeps the chain sound and every place. *)
LEMMA InsertSound ==
  ASSUME NEW t \in Tables, Sound(t), NEW i \in Ids \ Saved(t), NEW r \in Row,
         r.hash[1] = i, FitsTail(t, r)
  PROVE  LET u == [t EXCEPT ![i] = r] IN Sound(u) /\ KeepsPlaces(t, u)
<1> DEFINE u == [t EXCEPT ![i] = r]
<1>1. u \in Tables /\ Saved(u) = Saved(t) \cup {i} /\ u[i] = r
  BY AbsentNoRow DEF Tables, Saved
<1>2. \A j \in Saved(t) : u[j] = t[j] /\ j # i
  BY DEF Tables, Saved
<1> HIDE DEF u
<1>a. \A j \in Saved(t) : t[j].seq \in Int /\ u[j].seq \in Int
  BY <1>2, SavedRows
<1>b. r.seq \in Int
  BY SeqAssumption DEF Row
<1>3. \A j \in Saved(t) : t[j].seq < r.seq
  <2>1. Saved(t) = {} \/ \E k \in Saved(t) : IsTail(t, k) /\ r.seq = t[k].seq + 1
    BY DEF FitsTail
  <2> QED
    BY <2>1, <1>a, <1>b DEF IsTail
<1>4. KeepsPlaces(t, u)
  BY <1>1, <1>2 DEF KeepsPlaces
<1>5. \A j, k \in Saved(t) : IsNext(u, j, k) <=> IsNext(t, j, k)
  BY <1>1, <1>2, <1>3, <1>a, <1>b DEF IsNext, Later
<1>6. ASSUME NEW j \in Saved(t) PROVE ~ChainBreak(u, j)
  <2>1. ~ChainBreak(t, j)
    BY DEF Sound
  <2>2. u[j] = t[j] /\ ~(u[i].seq < u[j].seq)
    BY <1>1, <1>2, <1>3, <1>a, <1>b DEF Row
  <2>3. \A k \in Saved(t) : u[k].seq < u[j].seq <=> t[k].seq < t[j].seq
    BY <1>2
  <2> QED
    BY <2>1, <2>2, <2>3, <1>1, <1>2, <1>5 DEF ChainBreak
<1>7. ~ChainBreak(u, i)
  <2>1. CASE Saved(t) = {} /\ r.prev = NoHash
    <3>1. \A j \in Saved(u) : ~(u[j].seq < u[i].seq)
      BY <2>1, <1>1, <1>a, <1>b
    <3> QED
      BY <3>1, <2>1, <1>1 DEF ChainBreak
  <2>2. ASSUME NEW k \in Saved(t), IsTail(t, k), r.prev = t[k].hash
        PROVE  ~ChainBreak(u, i)
    <3>2. Later(u, k) = {i}
      BY <1>1, <1>2, <1>3, <2>2, <1>a, <1>b DEF Later, IsTail
    <3>3. IsNext(u, k, i)
      BY <3>2, <1>1, <1>a, <1>b DEF IsNext
    <3> QED
      BY <2>2, <3>3, <1>1, <1>2, <1>3 DEF ChainBreak
  <2> QED
    BY <2>1, <2>2 DEF FitsTail
<1>8. \A j \in Saved(u) : u[j].hash[1] = j
  BY <1>1, <1>2 DEF Sound
<1>9. \A j, k \in Saved(u) : u[j].seq = u[k].seq => j = k
  BY <1>1, <1>2, <1>3, <1>a, <1>b DEF Sound
<1> QED
  BY <1>1, <1>4, <1>6, <1>7, <1>8, <1>9 DEF Sound, u

(* Deleting a run keeps the chain sound, once the run that followed it has
   taken over its previous_hash; nothing else about the chain changes. *)
LEMMA DeleteSound ==
  ASSUME NEW t \in Tables, Sound(t), NEW i \in Saved(t), NEW d \in Tables,
         \/ Later(t, i) = {} /\ d = t
         \/ \E k \in Saved(t) : IsNext(t, i, k) /\ d = [t EXCEPT ![k].prev = t[i].prev]
  PROVE  LET u == Without(d, i)
         IN u \in Tables /\ i \in Saved(d) /\ Sound(u) /\ KeepsPlaces(t, u)
<1> DEFINE u == Without(d, i)
<1>a. \A j \in Saved(t) : j \in Ids /\ t[j] \in Row /\ t[j].seq \in Int
  BY SavedRows
<1>b. \A j, k \in Saved(t) : t[j].seq = t[k].seq => j = k
  BY DEF Sound
<1>1. /\ Saved(d) = Saved(t)
      /\ \A j \in Saved(t) :
           /\ d[j].hash = t[j].hash /\ d[j].seq = t[j].seq
           /\ d[j].prev = IF IsNext(t, i, j) THEN t[i].prev ELSE t[j].prev
  <2>1. CASE Later(t, i) = {} /\ d = t
    BY <2>1 DEF IsNext
  <2>2. ASSUME NEW k \in Saved(t), IsNext(t, i, k), d = [t EXCEPT ![k].prev = t[i].prev]
        PROVE  <1>1
    <3>1. /\ d[k] = [t[k] EXCEPT !.prev = t[i].prev]
          /\ \A j \in Ids \ {k} : d[j] = t[j]
      BY <2>2, <1>a DEF Tables
    <3>2. /\ d[k].hash = t[k].hash /\ d[k].seq = t[k].seq /\ d[k].prev = t[i].prev
          /\ d[k] \in Row
      BY <3>1, <1>a DEF Row
    <3>3. Saved(d) = Saved(t)
      BY <3>1, <3>2, <1>a, AbsentNoRow DEF Saved
    <3>4. \A j \in Saved(t) : IsNext(t, i, j) <=> j = k
      BY <2>2, <1>a, <1>b DEF IsNext, Later
    <3> QED
      BY <3>1, <3>2, <3>3, <3>4, <1>a
  <2> QED
    BY <2>1, <2>2
<1>2. /\ u \in Tables /\ Saved(u) = Saved(t) \ {i}
      /\ \A j \in Saved(u) : u[j] = d[j]
  BY <1>1 DEF Without, Tables, Saved
<1> HIDE DEF u
<1>3. \A j \in Saved(u) :
        /\ j \in Saved(t)
        /\ u[j].hash = t[j].hash /\ u[j].seq = t[j].seq
        /\ u[j].prev = IF IsNext(t, i, j) THEN t[i].prev ELSE t[j].prev
  BY <1>1, <1>2
<1>4. KeepsPlaces(t, u)
  BY <1>2, <1>3 DEF KeepsPlaces
<1>5. \A a \in Saved(u) : Later(u, a) = Later(t, a) \ {i}
  BY <1>2, <1>3 DEF Later
<1>6. ASSUME NEW j \in Saved(u), IsNext(t, i, j) PROVE ~ChainBreak(u, j)
  <2>1. u[j].prev = t[i].prev
    BY <1>3, <1>6
  <2>2. \A x \in Saved(u) : u[x].seq < u[j].seq => t[x].seq < t[i].seq
    BY <1>2, <1>3, <1>6, <1>a, <1>b DEF IsNext, Later
  <2>3. CASE \E a \in Saved(t) : IsNext(t, a, i) /\ t[i].prev = t[a].hash
    <3> PICK a \in Saved(t) : IsNext(t, a, i) /\ t[i].prev = t[a].hash
      BY <2>3
    <3>1. a \in Saved(u) /\ t[a].seq < t[i].seq /\ t[i].seq < t[j].seq
      BY <1>2, <1>6, <1>a DEF IsNext, Later
    <3>2. IsNext(u, a, j)
      <4>1. j \in Later(u, a)
        BY <3>1, <1>3, <1>a DEF Later
      <4>2. \A x \in Later(u, a) : t[j].seq <= t[x].seq
        <5> SUFFICES ASSUME NEW x \in Later(t, a), x # i
                     PROVE  t[j].seq <= t[x].seq
          BY <3>1, <1>5
        <5>1. x \in Saved(t) /\ t[i].seq <= t[x].seq /\ t[i].seq # t[x].seq
          BY <1>b DEF IsNext, Later
        <5> QED
          BY <5>1, <1>6, <1>a DEF IsNext, Later
      <4> QED
        BY <4>1, <4>2, <1>3 DEF IsNext, Later
    <3>3. u[a].seq < u[j].seq /\ u[j].prev = u[a].hash
      BY <2>1, <3>1, <1>3, <1>a
    <3> QED
      BY <3>1, <3>2, <3>3 DEF ChainBreak
  <2>4. CASE ~ \E a \in Saved(t) : IsNext(t, a, i) /\ t[i].prev = t[a].hash
    <3>1. t[i].prev = NoHash /\ ~ \E x \in Saved(t) : t[x].seq < t[i].seq
      BY <2>4 DEF Sound, ChainBreak
    <3> QED
      BY <2>1, <2>2, <3>1, <1>3 DEF ChainBreak
  <2> QED
    BY <2>3, <2>4
<1>7. ASSUME NEW j \in Saved(u), ~IsNext(t, i, j) PROVE ~ChainBreak(u, j)
  <2>1. u[j].prev = t[j].prev /\ ~ChainBreak(t, j)
    BY <1>3, <1>7 DEF Sound
  <2>2. CASE \E x \in Saved(t) : t[x].seq < t[j].seq
    <3> PICK a \in Saved(t) : IsNext(t, a, j) /\ t[j].prev = t[a].hash
      BY <2>1, <2>2 DEF ChainBreak
    <3>1. a \in Saved(u)
      BY <1>2, <1>7
    <3>2. IsNext(u, a, j) /\ u[a].seq < u[j].seq
      BY <3>1, <1>2, <1>3, <1>5 DEF IsNext, Later
    <3> QED
      BY <2>1, <3>1, <3>2, <1>3 DEF ChainBreak
  <2>3. CASE ~ \E x \in Saved(t) : t[x].seq < t[j].seq
    BY <2>1, <2>3, <1>3 DEF ChainBreak
  <2> QED
    BY <2>2, <2>3
<1>8. /\ \A j \in Saved(u) : u[j].hash[1] = j
      /\ \A j, k \in Saved(u) : u[j].seq = u[k].seq => j = k
  BY <1>3 DEF Sound
<1> QED
  BY <1>1, <1>2, <1>4, <1>6, <1>7, <1>8 DEF Sound, u

(* Annotations and bodies are not part of the chain. *)
LEMMA SameChainSound ==
  ASSUME NEW t \in Tables, Sound(t), NEW i \in Saved(t), NEW r \in Row,
         r.hash = t[i].hash, r.prev = t[i].prev, r.seq = t[i].seq
  PROVE  LET u == [t EXCEPT ![i] = r] IN Sound(u) /\ KeepsPlaces(t, u)
<1> DEFINE u == [t EXCEPT ![i] = r]
<1>1. /\ Saved(u) = Saved(t)
      /\ \A j \in Saved(t) :
           u[j].hash = t[j].hash /\ u[j].prev = t[j].prev /\ u[j].seq = t[j].seq
  BY AbsentNoRow DEF Tables, Saved
<1> HIDE DEF u
<1>2. \A j, k \in Saved(t) : IsNext(u, j, k) <=> IsNext(t, j, k)
  BY <1>1 DEF IsNext, Later
<1>3. \A j \in Saved(u) : ~ChainBreak(u, j)
  BY <1>1, <1>2 DEF Sound, ChainBreak
<1>4. Sound(u) /\ KeepsPlaces(t, u)
  BY <1>1, <1>3 DEF Sound, KeepsPlaces
<1> QED
  BY <1>4 DEF u

(* A sound chain has no fork. *)
LEMMA SoundNoFork ==
  ASSUME NEW t \in Tables, Sound(t), NEW i \in Saved(t), NEW j \in Saved(t), i # j
  PROVE  t[i].prev # t[j].prev /\ t[i].seq # t[j].seq
<1>a. \A k \in Saved(t) : t[k].seq \in Int /\ t[k].hash \in Hashes
  BY SavedRows DEF Row
<1>1. t[i].seq # t[j].seq
  BY DEF Sound
<1>2. ASSUME NEW k \in Saved(t), NEW l \in Saved(t), t[k].seq < t[l].seq
      PROVE  t[k].prev # t[l].prev
  <2> PICK b \in Saved(t) : IsNext(t, b, l) /\ t[l].prev = t[b].hash
    BY <1>2 DEF Sound, ChainBreak
  <2>1. CASE \E x \in Saved(t) : t[x].seq < t[k].seq
    <3> PICK a \in Saved(t) : IsNext(t, a, k) /\ t[k].prev = t[a].hash
      BY <2>1 DEF Sound, ChainBreak
    <3>1. a # b
      BY <1>2, <1>a DEF IsNext, Later
    <3> QED
      BY <3>1 DEF Sound
  <2>2. CASE ~ \E x \in Saved(t) : t[x].seq < t[k].seq
    BY <2>2, <1>a, SentinelAssumption DEF Sound, ChainBreak
  <2> QED
    BY <2>1, <2>2
<1> QED
  BY <1>1, <1>2, <1>a
-----------------------------------------------------------------------------
(* From tables to behaviours. *)

LEMMA NoRequestType == NoRequest \in [id : Ids, body : Bodies, notes : Notes]
<1>1. (CHOOSE i \in Ids : TRUE) \in Ids /\ (CHOOSE b \in Bodies : TRUE) \in Bodies
  BY SentinelAssumption
<1> QED
  BY <1>1, SentinelAssumption DEF NoRequest

LEMMA InitType == Init => TypeOK
BY NoRequestType, SentinelAssumption, SeqAssumption DEF Init, TypeOK, FirstLink, Steps

LEMMA NextType == TypeOK /\ [Next]_vars => TypeOK'
<1> SUFFICES ASSUME TypeOK, [Next]_vars PROVE TypeOK'
  OBVIOUS
<1> USE DEF TypeOK
<1>0. FirstLink \in [prev : Hashes \cup {NoHash}, seq : 1..(MaxSeq + 1)]
  BY SeqAssumption DEF FirstLink
<1>1. ASSUME NEW c \in Clients, Request(c) PROVE TypeOK'
  <2>1. ASSUME NEW i \in Ids, AskDelete(c, i) PROVE TypeOK'
    BY <2>1 DEF AskDelete, Ask, Steps, DeleteSteps
  <2>2. ASSUME NEW i \in Ids, NEW b \in Bodies, Calculate(c, i, b) PROVE TypeOK'
    BY <2>2, SentinelAssumption DEF Calculate, Ask, Steps, SaveSteps
  <2>3. ASSUME NEW i \in Ids, NEW b \in Bodies, NEW n \in Notes, ImportEntry(c, i, b, n)
        PROVE  TypeOK'
    BY <2>3 DEF ImportEntry, Ask, Steps, SaveSteps
  <2>4. ASSUME NEW i \in Ids, NEW n \in Notes, Annotate(c, i, n) PROVE TypeOK'
    <3>1. [table[i] EXCEPT !.notes = n] \in Row
      BY <2>4 DEF Annotate, Overwrite, Saved, Row
    <3> QED
      BY <2>4, <3>1 DEF Annotate, Overwrite
  <2> QED
    BY <1>1, <2>1, <2>2, <2>3, <2>4 DEF Request
<1>2. ASSUME NEW c \in Clients, Statement(c) PROVE TypeOK'
  <2>1. CASE BeginSave(c) \/ BeginDelete(c)
    BY <2>1 DEF BeginSave, BeginDelete, Begin, Goto, Steps, SaveSteps, DeleteSteps
  <2>2. CASE Busy(c)
    BY <2>2, <1>0, NoRequestType DEF Busy, Return, Goto, Steps
  <2>3. CASE ReadTail(c)
    <3>1. ASSUME NEW k \in Saved(draft)
          PROVE  [prev |-> draft[k].hash, seq |-> draft[k].seq + 1]
                   \in [prev : Hashes \cup {NoHash}, seq : 1..(MaxSeq + 1)]
      <4>1. draft[k] \in Row
        BY DEF Saved
      <4> QED
        BY <4>1, SeqAssumption DEF Row
    <3> QED
      BY <2>3, <1>0, <3>1 DEF ReadTail, Goto, Steps, SaveSteps
  <2>4. CASE Insert(c)
    <3>1. [body |-> req[c].body, notes |-> req[c].notes, hash |-> Hash(req[c].id, req[c].body),
           prev |-> link[c].prev, seq |-> link[c].seq] \in Row
      BY <2>4, SeqAssumption DEF Insert, Row, Hash, Hashes
    <3> QED
      BY <2>4, <3>1 DEF Insert, Goto, Steps
  <2>5. CASE Relink(c)
    <3>1. ASSUME NEW i \in Saved(draft), NEW k \in Saved(draft)
          PROVE  [draft[k] EXCEPT !.prev = draft[i].prev] \in Row
      <4>1. draft[i] \in Row /\ draft[k] \in Row
        BY DEF Saved
      <4> QED
        BY <4>1 DEF Row
    <3> QED
      BY <2>5, <3>1, SMTT(30) DEF Relink, Goto, Steps, DeleteSteps
  <2>6. CASE DeleteMissing(c)
    BY <2>6 DEF DeleteMissing, Goto, Steps
  <2>7. CASE DeleteRow(c)
    BY <2>7 DEF DeleteRow, Goto, Steps
  <2>8. CASE Commit(c) \/ Rollback(c)
    <3>1. Return(c) /\ table' \in {table, draft} /\ draft' \in {table, draft}
          /\ writer' = NoClient /\ issued' = issued
      BY <2>8 DEF Commit, Rollback
    <3>2. "idle" \in Steps
      BY DEF Steps
    <3> QED
      BY <3>1, <3>2, <1>0, NoRequestType DEF Return, Goto
  <2> QED
    BY <1>2, <2>1, <2>2, <2>3, <2>4, <2>5, <2>6, <2>7, <2>8 DEF Statement
<1>3. ASSUME NEW c \in Clients, Crash(c) PROVE TypeOK'
  BY <1>3, <1>0, NoRequestType DEF Crash, Return, Goto, Steps
<1>4. ASSUME NEW i \in Ids, NEW b \in Bodies \cup {Corrupt}, Tamper(i, b) PROVE TypeOK'
  <2>1. [table[i] EXCEPT !.body = b] \in Row
    BY <1>4 DEF Tamper, Overwrite, Saved, Row
  <2> QED
    BY <1>4, <2>1 DEF Tamper, Overwrite
<1>5. CASE UNCHANGED vars
  BY <1>5 DEF vars
<1> QED
  BY <1>1, <1>2, <1>3, <1>4, <1>5 DEF Next

(* Every reachable state is well typed. *)
THEOREM TypeCorrect == Spec => []TypeOK
<1>1. Init => TypeOK
  BY InitType
<1>2. TypeOK /\ [Next]_vars => TypeOK'
  BY NextType
<1> QED
  BY <1>1, <1>2, PTL DEF Spec

(* Tables are what TypeOK says they are. *)
LEMMA TypedTables == TypeOK => table \in Tables /\ draft \in Tables
BY DEF TypeOK, Tables

(* The first and the unchanged table. *)
LEMMA TrivialTables ==
  ASSUME NEW t \in Tables
  PROVE  KeepsPlaces(t, t) /\ (Saved(t) = {} => Sound(t))
BY DEF KeepsPlaces, Sound

LEMMA InitStore == Init => StoreInv
<1> SUFFICES ASSUME Init PROVE StoreInv
  OBVIOUS
<1>1. TypeOK /\ Sound(table)
  <2>1. TypeOK
    BY InitType
  <2>2. Saved(table) = {}
    BY DEF Init, Saved
  <2> QED
    BY <2>1, <2>2, TypedTables, TrivialTables
<1>2. LockOK /\ \A c \in Clients : DraftOK(c)
  BY SentinelAssumption DEF Init, LockOK, DraftOK, InTransaction
<1> QED
  BY <1>1, <1>2 DEF StoreInv

(* A step of c that leaves the rows, the lock and the others alone. *)
LEMMA OutsideTransaction ==
  ASSUME StoreInv, NEW c \in Clients, NEW step \in Steps \ InTransaction,
         pc[c] \notin InTransaction, pc' = [pc EXCEPT ![c] = step],
         UNCHANGED <<table, draft, writer>>,
         \A d \in Clients \ {c} : req'[d] = req[d] /\ link'[d] = link[d], TypeOK'
  PROVE  StoreInv'
<1> USE DEF StoreInv
<1>1. \A d \in Clients \ {c} : pc'[d] = pc[d]
  BY DEF TypeOK
<1>2. pc'[c] = step
  BY DEF TypeOK
<1>3. LockOK'
  BY <1>1, <1>2 DEF LockOK
<1>4. Sound(table)'
  BY DEF Sound, Saved, ChainBreak, IsNext, Later
<1>5. ASSUME NEW d \in Clients PROVE DraftOK(d)'
  <2>1. CASE d = c
    BY <2>1, <1>2 DEF DraftOK, InTransaction, Steps
  <2>2. CASE d # c
    <3>1. req'[d] = req[d] /\ link'[d] = link[d] /\ pc'[d] = pc[d] /\ DraftOK(d)
      BY <2>2, <1>1
    <3> QED
      BY <3>1 DEF DraftOK
  <2> QED
    BY <2>1, <2>2
<1> QED
  BY <1>3, <1>4, <1>5

(* A step of c inside its transaction: the others are all outside theirs. *)
LEMMA InsideTransaction ==
  ASSUME StoreInv, NEW c \in Clients, NEW step \in InTransaction,
         pc' = [pc EXCEPT ![c] = step], writer' = c, writer \in {c, NoClient},
         UNCHANGED table, DraftOK(c)', TypeOK'
  PROVE  StoreInv'
<1> USE DEF StoreInv
<1>1. pc'[c] = step /\ \A d \in Clients \ {c} : pc'[d] = pc[d]
  BY DEF TypeOK
<1>2. \A d \in Clients \ {c} : pc'[d] \notin InTransaction
  BY <1>1, SentinelAssumption DEF LockOK
<1>3. LockOK'
  BY <1>1, <1>2, SentinelAssumption DEF LockOK
<1>4. Sound(table)'
  BY DEF Sound, Saved, ChainBreak, IsNext, Later
<1>5. ASSUME NEW d \in Clients PROVE DraftOK(d)'
  BY <1>2 DEF DraftOK, InTransaction, Steps, SaveSteps, DeleteSteps
<1> QED
  BY <1>3, <1>4, <1>5

(* When nobody is in a transaction any more. *)
LEMMA NoTransaction ==
  ASSUME StoreInv, writer' = NoClient, draft' = table', Sound(table'), TypeOK',
         \A c \in Clients : pc'[c] \notin InTransaction
  PROVE  StoreInv'
<1>1. LockOK'
  BY SentinelAssumption DEF LockOK
<1>2. ASSUME NEW d \in Clients PROVE DraftOK(d)'
  BY DEF DraftOK, InTransaction, Steps, SaveSteps, DeleteSteps
<1>3. Sound(table)'
  OBVIOUS
<1> QED
  BY <1>1, <1>2, <1>3 DEF StoreInv

LEMMA StepsSplit ==
  /\ InTransaction = {"read_tail", "insert", "relink", "delete_row", "commit"}
  /\ Steps \ InTransaction = {"idle", "begin_save", "begin_delete"}
BY DEF InTransaction, Steps, SaveSteps, DeleteSteps

(* The statements of the transaction, one by one. *)
LEMMA StatementStore ==
  ASSUME StoreInv, TypeOK', NEW c \in Clients, Statement(c)
  PROVE  StoreInv' /\ KeepsPlaces(table, table')
<1> USE StepsSplit, TypedTables DEF StoreInv
<1>a. pc'[c] \in Steps /\ table \in Tables /\ draft \in Tables
  BY DEF TypeOK
<1>b. KeepsPlaces(table, table)
  BY <1>a, TrivialTables
<1>c. pc[c] \in InTransaction => writer = c
  BY DEF LockOK
<1>1. CASE BeginSave(c) \/ BeginDelete(c)
  <2>1. DraftOK(c)'
    BY <1>1, <1>a DEF BeginSave, BeginDelete, Begin, Goto, DraftOK, TypeOK
  <2> QED
    BY <1>1, <1>b, <2>1, InsideTransaction DEF BeginSave, BeginDelete, Begin, Goto
<1>2. CASE Busy(c)
  BY <1>2, <1>b, OutsideTransaction DEF Busy, Return, Goto, TypeOK
<1>3. CASE ReadTail(c)
  <2>1. draft = table
    BY <1>3 DEF ReadTail, DraftOK
  <2>2. FitsTail(draft, link'[c])
    <3>1. CASE Saved(draft) = {} /\ link' = [link EXCEPT ![c] = FirstLink]
      BY <3>1 DEF FitsTail, FirstLink, TypeOK
    <3>2. ASSUME NEW k \in Saved(draft), IsTail(draft, k),
                 link' = [link EXCEPT ![c] = [prev |-> draft[k].hash, seq |-> draft[k].seq + 1]]
          PROVE  FitsTail(draft, link'[c])
      BY <3>2 DEF FitsTail, TypeOK
    <3> QED
      BY <1>3, <3>1, <3>2 DEF ReadTail
  <2>3. pc'[c] = "insert" /\ UNCHANGED <<table, draft>>
    BY <1>3 DEF ReadTail, Goto, TypeOK
  <2>4. DraftOK(c)'
    BY <2>1, <2>2, <2>3 DEF DraftOK, FitsTail, IsTail, Saved
  <2> QED
    BY <1>3, <1>b, <1>c, <2>4, InsideTransaction DEF ReadTail, Goto
<1>4. CASE Insert(c)
  <2> DEFINE r == [body |-> req[c].body, notes |-> req[c].notes,
                   hash |-> Hash(req[c].id, req[c].body),
                   prev |-> link[c].prev, seq |-> link[c].seq]
  <2>1. r \in Row /\ r.hash[1] = req[c].id /\ req[c].id \in Ids \ Saved(draft)
    BY <1>4, SeqAssumption DEF Insert, Row, Hash, Hashes, TypeOK
  <2>2. draft = table /\ FitsTail(draft, r)
    BY <1>4 DEF Insert, DraftOK, FitsTail
  <2>3. draft' = [draft EXCEPT ![req[c].id] = r] /\ pc'[c] = "commit" /\ table' = table
    BY <1>4 DEF Insert, Goto, TypeOK
  <2> HIDE DEF r
  <2>4. Sound(draft') /\ KeepsPlaces(table, draft')
    BY <2>1, <2>2, <2>3, <1>a, InsertSound
  <2>5. DraftOK(c)'
    BY <2>3, <2>4 DEF DraftOK, Sound, Saved, ChainBreak, IsNext, Later, KeepsPlaces
  <2> QED
    BY <1>4, <1>b, <1>c, <2>5, InsideTransaction DEF Insert, Goto
<1>5. CASE Relink(c)
  <2> DEFINE i == req[c].id
             u == Without(draft', i)
  <2>1. /\ draft = table /\ i \in Saved(draft)
        /\ pc'[c] = "delete_row" /\ table' = table /\ req' = req
        /\ draft' \in Tables
    BY <1>5 DEF Relink, Goto, DraftOK, TypeOK, Tables
  <2>2. i \in Saved(draft') /\ Sound(u) /\ KeepsPlaces(table, u)
    BY <1>5, <1>a, <2>1, DeleteSound DEF Relink
  <2>3. DraftOK(c)'
    BY <2>1, <2>2
    DEF DraftOK, Sound, Saved, ChainBreak, IsNext, Later, KeepsPlaces, Without
  <2> QED
    BY <1>5, <1>b, <1>c, <2>3, InsideTransaction DEF Relink, Goto
<1>6. CASE DeleteMissing(c)
  <2>1. draft = table /\ pc'[c] = "commit" /\ UNCHANGED <<table, draft>>
    BY <1>6 DEF DeleteMissing, Goto, DraftOK, TypeOK
  <2>2. DraftOK(c)'
    BY <2>1, <1>b DEF DraftOK, Sound, Saved, ChainBreak, IsNext, Later, KeepsPlaces
  <2> QED
    BY <1>6, <1>b, <1>c, <2>2, InsideTransaction DEF DeleteMissing, Goto
<1>7. CASE DeleteRow(c)
  <2>1. /\ draft' = Without(draft, req[c].id) /\ pc'[c] = "commit" /\ table' = table
        /\ Sound(draft') /\ KeepsPlaces(table, draft')
    BY <1>7 DEF DeleteRow, Goto, DraftOK, TypeOK, Without
  <2>2. DraftOK(c)'
    BY <2>1 DEF DraftOK
  <2> QED
    BY <1>7, <1>b, <1>c, <2>2, InsideTransaction DEF DeleteRow, Goto
<1>8. CASE Commit(c) \/ Rollback(c)
  <2>1. /\ draft' = table' /\ writer' = NoClient
        /\ Sound(table') /\ KeepsPlaces(table, table')
    BY <1>8, <1>b DEF Commit, Rollback, DraftOK
  <2>2. \A d \in Clients : pc'[d] \notin InTransaction
    BY <1>8, <1>c DEF Commit, Rollback, Return, Goto, LockOK, TypeOK
  <2> QED
    BY <2>1, <2>2, NoTransaction
<1> QED
  BY <1>1, <1>2, <1>3, <1>4, <1>5, <1>6, <1>7, <1>8 DEF Statement

(* An overwritten body or annotation. *)
LEMMA OverwriteStore ==
  ASSUME StoreInv, TypeOK', NEW i \in Ids, NEW r, Overwrite(i, r),
         r.hash = table[i].hash, r.prev = table[i].prev, r.seq = table[i].seq, r \in Row
  PROVE  StoreInv' /\ KeepsPlaces(table, table')
<1>1. table \in Tables /\ Sound(table) /\ i \in Saved(table)
  BY TypedTables DEF StoreInv, Overwrite
<1>2. table' = [table EXCEPT ![i] = r] /\ draft' = table' /\ writer' = NoClient /\ pc' = pc
  BY DEF Overwrite
<1>3. Sound(table') /\ KeepsPlaces(table, table')
  BY <1>1, <1>2, SameChainSound
<1>4. \A c \in Clients : pc'[c] \notin InTransaction
  BY <1>2, SentinelAssumption DEF StoreInv, LockOK, Overwrite
<1> QED
  BY <1>2, <1>3, <1>4, NoTransaction

LEMMA NextStore == StoreInv /\ [Next]_vars => StoreInv' /\ KeepsPlaces(table, table')
<1> SUFFICES ASSUME StoreInv, [Next]_vars PROVE StoreInv' /\ KeepsPlaces(table, table')
  OBVIOUS
<1>t. TypeOK /\ TypeOK'
  BY NextType DEF StoreInv
<1>k. KeepsPlaces(table, table)
  BY <1>t, TypedTables, TrivialTables
<1>1. ASSUME NEW c \in Clients, Request(c) PROVE StoreInv' /\ KeepsPlaces(table, table')
  <2>1. ASSUME NEW i \in Ids, NEW b, NEW n,
               Ask(c, "begin_save", i, b, n) \/ Ask(c, "begin_delete", i, b, n)
        PROVE  StoreInv' /\ KeepsPlaces(table, table')
    <3>1. StoreInv'
      BY <2>1, <1>t, StepsSplit, OutsideTransaction DEF Ask, TypeOK
    <3> QED
      BY <3>1, <2>1, <1>k DEF Ask
  <2>2. ASSUME NEW i \in Ids, NEW n \in Notes, Annotate(c, i, n)
        PROVE  StoreInv' /\ KeepsPlaces(table, table')
    <3>1. i \in Saved(table) /\ table[i] \in Row
      BY <2>2, <1>t DEF Annotate, Overwrite, Saved, TypeOK
    <3> DEFINE r == [table[i] EXCEPT !.notes = n]
    <3>2. r \in Row /\ r.hash = table[i].hash /\ r.prev = table[i].prev /\ r.seq = table[i].seq
      BY <3>1 DEF Row
    <3> QED
      BY <2>2, <3>2, <1>t, OverwriteStore DEF Annotate
  <2> QED
    BY <1>1, <2>1, <2>2 DEF Request, AskDelete, Calculate, ImportEntry
<1>2. ASSUME NEW c \in Clients, Statement(c) PROVE StoreInv' /\ KeepsPlaces(table, table')
  BY <1>2, <1>t, StatementStore
<1>3. ASSUME NEW c \in Clients, Crash(c) PROVE StoreInv' /\ KeepsPlaces(table, table')
  <2>1. CASE writer = c
    <3>1. draft' = table' /\ table' = table /\ writer' = NoClient /\ Sound(table')
      BY <1>3, <2>1 DEF Crash, StoreInv
    <3>2. \A d \in Clients : pc'[d] \notin InTransaction
      BY <1>3, <2>1, <1>t, StepsSplit DEF Crash, Return, Goto, StoreInv, LockOK, TypeOK
    <3> QED
      BY <3>1, <3>2, <1>t, <1>k, NoTransaction
  <2>2. CASE writer # c
    <3>1. pc[c] \notin InTransaction
      BY <2>2 DEF StoreInv, LockOK
    <3>2. StoreInv'
      BY <1>3, <2>2, <3>1, <1>t, StepsSplit, OutsideTransaction
      DEF Crash, Return, Goto, TypeOK
    <3> QED
      BY <3>2, <1>3, <1>k DEF Crash
  <2> QED
    BY <2>1, <2>2
<1>4. ASSUME NEW i \in Ids, NEW b \in Bodies \cup {Corrupt}, Tamper(i, b)
      PROVE  StoreInv' /\ KeepsPlaces(table, table')
  <2>1. i \in Saved(table) /\ table[i] \in Row
    BY <1>4, <1>t DEF Tamper, Overwrite, Saved, TypeOK
  <2> DEFINE r == [table[i] EXCEPT !.body = b]
  <2>2. r \in Row /\ r.hash = table[i].hash /\ r.prev = table[i].prev /\ r.seq = table[i].seq
    BY <2>1 DEF Row
  <2> QED
    BY <1>4, <2>2, <1>t, OverwriteStore DEF Tamper
<1>5. CASE UNCHANGED vars
  <2>1. StoreInv'
    BY <1>5, <1>t DEF vars, StoreInv, LockOK, DraftOK, Sound, Saved, ChainBreak,
      IsNext, Later, IsTail, FitsTail, KeepsPlaces, Without
  <2> QED
    BY <2>1, <1>5, <1>k DEF vars
<1> QED
  BY <1>1, <1>2, <1>3, <1>4, <1>5 DEF Next

(* The strengthened invariant, for any number of processes, runs and bodies. *)
THEOREM StoreInvariant == Spec => []StoreInv
<1>1. Init => StoreInv
  BY InitStore
<1>2. StoreInv /\ [Next]_vars => StoreInv'
  BY NextStore
<1> QED
  BY <1>1, <1>2, PTL DEF Spec

(* The audit never reports a chain_break that no edit of a link caused. *)
THEOREM ChainAlwaysIntact == Spec => []ChainIntact
<1>1. StoreInv => ChainIntact
  <2> SUFFICES ASSUME StoreInv, NEW i \in Ids PROVE <<i, "chain_break">> \notin VerifyChain(table)
    BY DEF ChainIntact
  <2>1. \A k \in Saved(table) : ~ChainBreak(table, k)
    BY DEF StoreInv, Sound
  <2> QED
    BY <2>1 DEF VerifyChain
<1> QED
  BY <1>1, StoreInvariant, PTL

(* Concurrent saves never duplicate previous_hash or chain_seq. *)
THEOREM NeverForks == Spec => []NoFork
<1>1. StoreInv => NoFork
  BY TypedTables, SoundNoFork DEF StoreInv, NoFork
<1> QED
  BY <1>1, StoreInvariant, PTL

(* Saved runs keep their hash and place; only a deletion next to them relinks. *)
THEOREM OnlyRelinked == Spec => ChainOnlyRelinked
<1>1. StoreInv /\ [Next]_vars => [KeepsPlaces(table, table')]_vars
  BY NextStore
<1> QED
  BY <1>1, StoreInvariant, PTL DEF Spec, ChainOnlyRelinked

-----------------------------------------------------------------------------
(* The refinement of RunLedger. *)

SameRun(t, u, i) ==
  t[i].body = u[i].body /\ t[i].notes = u[i].notes /\ t[i].seq = u[i].seq

\* u differs from t, as users see it, by one run at most
OneRunApart(t, u) ==
  /\ \A i \in Saved(t) \cap Saved(u) : SameRun(t, u, i)
  /\ \/ Saved(u) = Saved(t)
     \/ \E i \in Saved(t) : Saved(u) = Saved(t) \ {i}
     \/ \E i \in Ids \ Saved(t) :
          /\ Saved(u) = Saved(t) \cup {i}
          /\ \A j \in Saved(t) : t[j].seq < u[i].seq

CommitOK(c) ==
  /\ pc[c] = "delete_row" => OneRunApart(table, Without(draft, req[c].id))
  /\ pc[c] = "commit" => OneRunApart(table, draft)

LedgerInv == StoreInv /\ \A c \in Clients : CommitOK(c)

-----------------------------------------------------------------------------
(* What users see of tables one run apart is one step of the ledger. *)

LEMMA ShownFacts ==
  ASSUME NEW t \in Tables
  PROVE  /\ {i \in Ids : Shown(t)[i] # Absent} = Saved(t)
         /\ \A i \in Saved(t) : /\ Shown(t)[i] = [body |-> t[i].body, notes |-> t[i].notes]
                                /\ Shown(t)[i] \in Content
         /\ \A i \in Ids \ Saved(t) : Shown(t)[i] = Absent
<1>1. \A i \in Saved(t) : [body |-> t[i].body, notes |-> t[i].notes] \in Content
  BY SavedRows DEF Row, Content
<1> QED
  BY <1>1, SentinelAssumption DEF Shown, Saved

LEMMA ApartIsLedgerStep ==
  ASSUME NEW t \in Tables, NEW u \in Tables, OneRunApart(t, u)
  PROVE  \/ Shown(u) = Shown(t) /\ Order(u) = Order(t)
         \/ \E i \in Saved(t) :
              /\ Shown(u) = [Shown(t) EXCEPT ![i] = Absent]
              /\ Order(u) = {p \in Order(t) : i \notin {p[1], p[2]}}
         \/ \E i \in Ids \ Saved(t) :
              /\ i \in Saved(u)
              /\ Shown(u) = [Shown(t) EXCEPT ![i] = Shown(u)[i]]
              /\ Order(u) = Order(t) \cup (Saved(t) \X {i})
<1>s. ASSUME NEW i \in Saved(t) \cap Saved(u)
      PROVE  Shown(u)[i] = Shown(t)[i] /\ u[i].seq = t[i].seq
  <2>1. SameRun(t, u, i)
    BY DEF OneRunApart
  <2>2. /\ Shown(t)[i] = [body |-> t[i].body, notes |-> t[i].notes]
        /\ Shown(u)[i] = [body |-> u[i].body, notes |-> u[i].notes]
    BY ShownFacts
  <2> QED
    BY <2>1, <2>2 DEF SameRun
<1>d. Shown(t) \in [Ids -> Content \cup {Absent}] /\ Shown(u) \in [Ids -> Content \cup {Absent}]
  BY ShownFacts DEF Shown
<1>i. /\ \A j \in Saved(t) : j \in Ids /\ t[j].seq \in Int
      /\ \A j \in Saved(u) : j \in Ids /\ u[j].seq \in Int
  BY SavedRows
<1>1. CASE Saved(u) = Saved(t)
  <2>1. \A i \in Ids : Shown(u)[i] = Shown(t)[i]
    BY <1>1, <1>s, ShownFacts
  <2>2. Order(u) = Order(t)
    BY <1>1, <1>s DEF Order
  <2> QED
    BY <2>1, <2>2, <1>d
<1>2. ASSUME NEW i \in Saved(t), Saved(u) = Saved(t) \ {i}
      PROVE  /\ Shown(u) = [Shown(t) EXCEPT ![i] = Absent]
             /\ Order(u) = {p \in Order(t) : i \notin {p[1], p[2]}}
  <2>1. \A j \in Ids : Shown(u)[j] = IF j = i THEN Absent ELSE Shown(t)[j]
    BY <1>2, <1>s, <1>i, ShownFacts
  <2>2. Order(u) = {p \in Order(t) : i \notin {p[1], p[2]}}
    BY <1>2, <1>s DEF Order
  <2> QED
    BY <2>1, <2>2, <1>d
<1>3. ASSUME NEW i \in Ids \ Saved(t), Saved(u) = Saved(t) \cup {i},
             \A j \in Saved(t) : t[j].seq < u[i].seq
      PROVE  /\ i \in Saved(u)
             /\ Shown(u) = [Shown(t) EXCEPT ![i] = Shown(u)[i]]
             /\ Order(u) = Order(t) \cup (Saved(t) \X {i})
  <2>1. \A j \in Ids : Shown(u)[j] = IF j = i THEN Shown(u)[i] ELSE Shown(t)[j]
    BY <1>3, <1>s, <1>i, ShownFacts
  <2>2. ASSUME NEW j \in Saved(u), NEW k \in Saved(u)
        PROVE  u[j].seq < u[k].seq <=>
                 \/ j \in Saved(t) /\ k \in Saved(t) /\ t[j].seq < t[k].seq
                 \/ j \in Saved(t) /\ k = i
    BY <1>3, <1>s, <1>i
  <2>3. Order(u) = Order(t) \cup (Saved(t) \X {i})
    BY <1>3, <2>2 DEF Order
  <2> QED
    BY <2>1, <2>3, <1>3, <1>d
<1> QED
  BY <1>1, <1>2, <1>3 DEF OneRunApart

-----------------------------------------------------------------------------
(* One run apart, statement by statement. *)

LEMMA InsertApart ==
  ASSUME NEW t \in Tables, NEW i \in Ids \ Saved(t), NEW r \in Row, FitsTail(t, r)
  PROVE  OneRunApart(t, [t EXCEPT ![i] = r])
<1> DEFINE u == [t EXCEPT ![i] = r]
<1>1. Saved(u) = Saved(t) \cup {i} /\ u[i] = r /\ \A j \in Saved(t) : u[j] = t[j]
  BY AbsentNoRow DEF Tables, Saved
<1>2. r.seq \in Int /\ \A j \in Saved(t) : t[j].seq \in Int
  BY SavedRows, SeqAssumption DEF Row
<1>3. Saved(t) = {} \/ \E k \in Saved(t) : IsTail(t, k) /\ r.seq = t[k].seq + 1
  BY DEF FitsTail
<1>4. \A j \in Saved(t) : t[j].seq < r.seq
  BY <1>2, <1>3 DEF IsTail
<1> QED
  BY <1>1, <1>4 DEF OneRunApart, SameRun

LEMMA DeleteApart ==
  ASSUME NEW t \in Tables, NEW i \in Saved(t), NEW d \in Tables,
         \/ d = t
         \/ \E k \in Saved(t) : d = [t EXCEPT ![k].prev = t[i].prev]
  PROVE  OneRunApart(t, Without(d, i))
<1>1. Saved(d) = Saved(t) /\ \A j \in Saved(t) : SameRun(t, d, j)
  <2>1. CASE d = t
    BY <2>1 DEF SameRun
  <2>2. ASSUME NEW k \in Saved(t), d = [t EXCEPT ![k].prev = t[i].prev]
        PROVE  <1>1
    <3>1. /\ d[k] = [t[k] EXCEPT !.prev = t[i].prev]
          /\ \A j \in Ids \ {k} : d[j] = t[j]
          /\ t[k] \in Row /\ t[i] \in Row /\ k \in Ids
      BY <2>2, SavedRows DEF Tables
    <3>2. SameRun(t, d, k) /\ d[k] \in Row
      BY <3>1 DEF Row, SameRun
    <3>3. \A j \in Ids : d[j] # Absent <=> t[j] # Absent
      BY <3>1, <3>2, AbsentNoRow
    <3>4. \A j \in Saved(t) : j \in Ids /\ (j # k => d[j] = t[j])
      BY <3>1 DEF Saved
    <3> QED
      BY <3>2, <3>3, <3>4 DEF Saved, SameRun
  <2> QED
    BY <2>1, <2>2
<1>2. /\ Saved(Without(d, i)) = Saved(t) \ {i}
      /\ \A j \in Saved(t) \ {i} : Without(d, i)[j] = d[j]
  BY <1>1 DEF Without, Tables, Saved
<1> QED
  BY <1>1, <1>2 DEF OneRunApart, SameRun

(* The process that acts is the one in the transaction. *)
LEMMA StatementApart ==
  ASSUME LedgerInv, TypeOK', NEW c \in Clients, Statement(c)
  PROVE  CommitOK(c)' /\ OneRunApart(table, table')
<1>t. TypeOK /\ table \in Tables /\ draft \in Tables /\ draft' \in Tables
  BY TypedTables, TypedTables DEF LedgerInv, StoreInv, TypeOK, Tables
<1>o. OneRunApart(table, table)
  BY DEF OneRunApart, SameRun
<1>d. DraftOK(c) /\ CommitOK(c)
  BY DEF LedgerInv, StoreInv
<1>1. CASE BeginSave(c) \/ BeginDelete(c) \/ Busy(c) \/ ReadTail(c)
  <2>1. table' = table /\ pc'[c] \notin {"delete_row", "commit"}
    BY <1>1, <1>t DEF BeginSave, BeginDelete, Begin, Busy, ReadTail, Return, Goto, TypeOK
  <2> QED
    BY <2>1, <1>o DEF CommitOK
<1>2. CASE Insert(c)
  <2> DEFINE r == [body |-> req[c].body, notes |-> req[c].notes,
                   hash |-> Hash(req[c].id, req[c].body),
                   prev |-> link[c].prev, seq |-> link[c].seq]
  <2>1. r \in Row /\ req[c].id \in Ids \ Saved(draft)
    BY <1>2, <1>t, SeqAssumption DEF Insert, Row, Hash, Hashes, TypeOK
  <2>2. draft = table /\ FitsTail(draft, r)
    BY <1>2, <1>d DEF Insert, DraftOK, FitsTail
  <2>3. draft' = [draft EXCEPT ![req[c].id] = r] /\ pc'[c] = "commit" /\ table' = table
    BY <1>2, <1>t DEF Insert, Goto, TypeOK
  <2> HIDE DEF r
  <2>4. OneRunApart(table, draft')
    BY <2>1, <2>2, <2>3, <1>t, InsertApart
  <2> QED
    BY <2>3, <2>4, <1>o DEF CommitOK, OneRunApart, Saved, SameRun
<1>3. CASE Relink(c)
  <2>1. /\ draft = table /\ req[c].id \in Saved(draft)
        /\ pc'[c] = "delete_row" /\ table' = table /\ req' = req
    BY <1>3, <1>t, <1>d DEF Relink, Goto, DraftOK, TypeOK
  <2>2. OneRunApart(table, Without(draft', req[c].id))
    BY <1>3, <1>t, <2>1, DeleteApart DEF Relink
  <2> QED
    BY <2>1, <2>2, <1>o DEF CommitOK, OneRunApart, Saved, SameRun, Without
<1>4. CASE DeleteMissing(c)
  <2>1. draft' = table' /\ table' = table /\ pc'[c] = "commit"
    BY <1>4, <1>t, <1>d DEF DeleteMissing, Goto, DraftOK, TypeOK
  <2> QED
    BY <2>1, <1>o DEF CommitOK, OneRunApart, Saved, SameRun
<1>5. CASE DeleteRow(c)
  <2>1. /\ draft' = Without(draft, req[c].id) /\ table' = table /\ pc'[c] = "commit"
        /\ OneRunApart(table, draft')
    BY <1>5, <1>t, <1>d DEF DeleteRow, Goto, CommitOK, TypeOK, Without
  <2> QED
    BY <2>1, <1>o DEF CommitOK, OneRunApart, Saved, SameRun
<1>6. CASE Commit(c) \/ Rollback(c)
  <2>1. pc'[c] = "idle" /\ (table' = table \/ (pc[c] = "commit" /\ table' = draft))
    BY <1>6, <1>t DEF Commit, Rollback, Return, Goto, TypeOK
  <2> QED
    BY <2>1, <1>d, <1>o DEF CommitOK
<1> QED
  BY <1>1, <1>2, <1>3, <1>4, <1>5, <1>6 DEF Statement

(* Overwriting a body or an annotation is the ledger's Change. *)
LEMMA OverwriteLedger ==
  ASSUME TypeOK, NEW i \in Ids, NEW r \in Row, Overwrite(i, r), r.seq = table[i].seq
  PROVE  \E x \in Content : Ledger!Change(i, x)
<1>1. table \in Tables /\ table' = [table EXCEPT ![i] = r] /\ i \in Saved(table)
  BY TypedTables DEF Overwrite
<1>2. table' \in Tables
  BY <1>1 DEF Tables
<1>3. Saved(table') = Saved(table) /\ \A j \in Ids : j # i => table'[j] = table[j]
  BY <1>1, AbsentNoRow DEF Tables, Saved
<1>4. table'[i] = r /\ \A j \in Saved(table) : table'[j].seq = table[j].seq
  BY <1>1 DEF Tables
<1>5. Order(table)' = Order(table)
  BY <1>3, <1>4 DEF Order
<1> DEFINE x == [body |-> r.body, notes |-> r.notes]
<1>6. x \in Content
  BY DEF Row, Content
<1>7. i \in Ledger!Recorded
  BY <1>1, ShownFacts DEF Ledger!Recorded, Saved
<1>8. Shown(table)' = [Shown(table) EXCEPT ![i] = x]
  BY <1>1, <1>3, <1>4, AbsentNoRow DEF Shown, Tables, Saved
<1> QED
  BY <1>5, <1>6, <1>7, <1>8 DEF Ledger!Change

(* A committed transaction is a step of the ledger, or invisible. *)
LEMMA ApartLedger ==
  ASSUME TypeOK, TypeOK', OneRunApart(table, table')
  PROVE  [Ledger!Next]_(Ledger!vars)
<1>t. table \in Tables /\ table' \in Tables
  BY TypedTables DEF TypeOK, Tables
<1>p. Shown(table)' = Shown(table') /\ Order(table)' = Order(table')
  BY DEF Shown, Order, Saved
<1>r. Ledger!Recorded = Saved(table)
  BY <1>t, ShownFacts DEF Ledger!Recorded
<1>1. CASE Shown(table') = Shown(table) /\ Order(table') = Order(table)
  BY <1>1, <1>p DEF Ledger!vars
<1>2. ASSUME NEW i \in Saved(table),
             Shown(table') = [Shown(table) EXCEPT ![i] = Absent],
             Order(table') = {p \in Order(table) : i \notin {p[1], p[2]}}
      PROVE  Ledger!Remove(i)
  BY <1>2, <1>p, <1>r DEF Ledger!Remove
<1>3. ASSUME NEW i \in Ids \ Saved(table), i \in Saved(table'),
             Shown(table') = [Shown(table) EXCEPT ![i] = Shown(table')[i]],
             Order(table') = Order(table) \cup (Saved(table) \X {i})
      PROVE  \E x \in Content : Ledger!Append(i, x)
  <2>1. Shown(table')[i] \in Content
    BY <1>3, <1>t, ShownFacts
  <2> QED
    BY <1>3, <2>1, <1>p, <1>r DEF Ledger!Append
<1> QED
  BY <1>1, <1>2, <1>3, <1>t, ApartIsLedgerStep DEF Ledger!Next, Saved

LEMMA NextLedger == LedgerInv /\ [Next]_vars => LedgerInv' /\ [Ledger!Next]_(Ledger!vars)
<1> SUFFICES ASSUME LedgerInv, [Next]_vars
             PROVE  LedgerInv' /\ [Ledger!Next]_(Ledger!vars)
  OBVIOUS
<1>t. TypeOK /\ TypeOK' /\ StoreInv /\ StoreInv'
  BY NextStore DEF LedgerInv, StoreInv
<1>o. table' = table => OneRunApart(table, table')
  BY DEF OneRunApart, SameRun
\* a process that does not act is outside its transaction, or sees nothing change
<1>u. ASSUME NEW d \in Clients, pc'[d] = pc[d], req'[d] = req[d],
             UNCHANGED <<table, draft>> \/ pc[d] \notin {"delete_row", "commit"}
      PROVE  CommitOK(d)'
  <2>1. CASE pc[d] \notin {"delete_row", "commit"}
    BY <2>1, <1>u DEF CommitOK
  <2>2. CASE UNCHANGED <<table, draft>>
    <3>1. CommitOK(d)
      BY DEF LedgerInv
    <3> QED
      BY <2>2, <3>1, <1>u DEF CommitOK, OneRunApart, Saved, SameRun, Without
  <2> QED
    BY <1>u, <2>1, <2>2
<1>w. ASSUME NEW d \in Clients, pc[d] \in {"delete_row", "commit"}
      PROVE  writer = d /\ writer # NoClient
  BY <1>t, <1>w, StepsSplit, SentinelAssumption DEF StoreInv, LockOK
<1>1. ASSUME NEW i \in Ids, NEW r \in Row, Overwrite(i, r), r.seq = table[i].seq
      PROVE  LedgerInv' /\ [Ledger!Next]_(Ledger!vars)
  <2>1. [Ledger!Next]_(Ledger!vars)
    BY <1>1, <1>t, OverwriteLedger DEF Ledger!Next
  <2>2. ASSUME NEW d \in Clients PROVE CommitOK(d)'
    BY <1>1, <1>u, <1>w DEF Overwrite
  <2> QED
    BY <2>1, <2>2, <1>t DEF LedgerInv
<1>2. ASSUME NEW c \in Clients, table' = table, UNCHANGED draft \/ writer = c,
             pc'[c] \in {"idle", "begin_save", "begin_delete"},
             \A d \in Clients \ {c} : pc'[d] = pc[d] /\ req'[d] = req[d]
      PROVE  LedgerInv' /\ [Ledger!Next]_(Ledger!vars)
  <2>1. [Ledger!Next]_(Ledger!vars)
    BY <1>2, <1>t, <1>o, ApartLedger
  <2>2. ASSUME NEW d \in Clients PROVE CommitOK(d)'
    <3>1. CASE d = c
      BY <3>1, <1>2 DEF CommitOK
    <3>2. CASE d # c
      <4>1. UNCHANGED <<table, draft>> \/ pc[d] \notin {"delete_row", "commit"}
        BY <3>2, <1>2, <1>w
      <4> QED
        BY <3>2, <4>1, <1>2, <1>u
    <3> QED
      BY <3>1, <3>2
  <2> QED
    BY <2>1, <2>2, <1>t DEF LedgerInv
<1>3. ASSUME NEW c \in Clients, Request(c) PROVE LedgerInv' /\ [Ledger!Next]_(Ledger!vars)
  <2>1. ASSUME NEW i \in Ids, NEW b, NEW n,
               Ask(c, "begin_save", i, b, n) \/ Ask(c, "begin_delete", i, b, n)
        PROVE  LedgerInv' /\ [Ledger!Next]_(Ledger!vars)
    BY <2>1, <1>2, <1>t DEF Ask, TypeOK
  <2>2. ASSUME NEW i \in Ids, NEW n \in Notes, Annotate(c, i, n)
        PROVE  LedgerInv' /\ [Ledger!Next]_(Ledger!vars)
    <3>1. table[i] \in Row
      BY <2>2, <1>t DEF Annotate, Overwrite, Saved, TypeOK
    <3>2. [table[i] EXCEPT !.notes = n] \in Row /\ [table[i] EXCEPT !.notes = n].seq = table[i].seq
      BY <3>1 DEF Row
    <3> QED
      BY <2>2, <3>2, <1>1 DEF Annotate
  <2> QED
    BY <1>3, <2>1, <2>2 DEF Request, AskDelete, Calculate, ImportEntry
<1>4. ASSUME NEW c \in Clients, Crash(c) PROVE LedgerInv' /\ [Ledger!Next]_(Ledger!vars)
  BY <1>4, <1>2, <1>t DEF Crash, Return, Goto, TypeOK
<1>5. ASSUME NEW i \in Ids, NEW b \in Bodies \cup {Corrupt}, Tamper(i, b)
      PROVE  LedgerInv' /\ [Ledger!Next]_(Ledger!vars)
  <2>1. table[i] \in Row
    BY <1>5, <1>t DEF Tamper, Overwrite, Saved, TypeOK
  <2>2. [table[i] EXCEPT !.body = b] \in Row /\ [table[i] EXCEPT !.body = b].seq = table[i].seq
    BY <2>1 DEF Row
  <2> QED
    BY <1>5, <2>2, <1>1 DEF Tamper
<1>6. ASSUME NEW c \in Clients, Statement(c) PROVE LedgerInv' /\ [Ledger!Next]_(Ledger!vars)
  <2>1. CommitOK(c)' /\ OneRunApart(table, table')
    BY <1>6, <1>t, StatementApart
  <2>2. ASSUME NEW d \in Clients \ {c} PROVE CommitOK(d)'
    <3>1. pc'[d] = pc[d] /\ req'[d] = req[d]
      BY <1>6, <1>t DEF Statement, BeginSave, BeginDelete, Begin, Busy, ReadTail, Insert,
        Relink, DeleteMissing, DeleteRow, Commit, Rollback, Return, Goto, TypeOK
    <3>2. UNCHANGED <<table, draft>> \/ writer = NoClient \/ pc[c] \in InTransaction
      BY <1>6, StepsSplit DEF Statement, BeginSave, BeginDelete, Begin, Busy, ReadTail, Insert,
        Relink, DeleteMissing, DeleteRow, Commit, Rollback
    <3>3. UNCHANGED <<table, draft>> \/ pc[d] \notin {"delete_row", "commit"}
      BY <3>2, <1>w, <1>t DEF StoreInv, LockOK
    <3> QED
      BY <3>1, <3>3, <1>u
  <2> QED
    BY <2>1, <2>2, <1>t, ApartLedger DEF LedgerInv
<1>7. CASE UNCHANGED vars
  <2>1. \A d \in Clients : CommitOK(d)'
    BY <1>7, <1>u DEF vars
  <2> QED
    BY <2>1, <1>7, <1>t, <1>o, ApartLedger DEF LedgerInv, vars
<1> QED
  BY <1>3, <1>4, <1>5, <1>6, <1>7 DEF Next

(* For any number of processes, runs, bodies and annotations, with failures,
   crashes and edits of the file, the store behaves as a ledger of runs. *)
THEOREM StoreIsLedger == Spec => ImplementsLedger
<1>1. Init => LedgerInv /\ Ledger!Init
  <2> SUFFICES ASSUME Init PROVE LedgerInv /\ Ledger!Init
    OBVIOUS
  <2>1. \A c \in Clients : CommitOK(c)
    BY DEF Init, CommitOK
  <2>2. Ledger!Init
    BY DEF Init, Ledger!Init, Shown, Order, Saved
  <2> QED
    BY <2>1, <2>2, InitStore DEF LedgerInv
<1>2. LedgerInv /\ [Next]_vars => LedgerInv' /\ [Ledger!Next]_(Ledger!vars)
  BY NextLedger
<1> QED
  BY <1>1, <1>2, PTL DEF Spec, ImplementsLedger, Ledger!Spec
=============================================================================
