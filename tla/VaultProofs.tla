----------------------------- MODULE VaultProofs -----------------------------
(***************************************************************************)
(* Theorems about Vault, for any runs, passwords, files to restore, unlock *)
(* threads and faults. Types hold however many requests overlap; the       *)
(* others are of one request at a time, OneAtATime. Their invariant says   *)
(* what the request under way, or the startup, knows at each of its steps. *)
(***************************************************************************)
EXTENDS Vault, FiniteSetTheorems, TLAPS

OneAtATime == MaxActive = 1

-----------------------------------------------------------------------------
(* Types, whatever overlaps. *)
ArgFits ==
  /\ pc[Main] \in {"open", "commit"} => arg \in Runs
  /\ pc[Main] \in {"screen", "replace", "admit"} => arg \in Uploads
ConnFits == (conn = "db" => db # None) /\ (conn = "backup" => backup # None)

TypeInv == TypeOK /\ ArgFits /\ ConnFits

-----------------------------------------------------------------------------
(* One request at a time: a is the actor whose request is under way, or    *)
(* any if none is.                                                         *)
Alone(a) == \A b \in Actors \ {a} : pc[b] = "idle"

Migrating == {"migrate"} \cup MigrationSteps
Restoring == {"screen", "replace", "admit", "tidy", "roll_back"}
Opening == {"init_db", "cache", "keyring"}

(* Where the startup and the requests can be. *)
Phase(a) ==
  /\ life \in {"down", "failed"} => pc[a] = "idle"
  /\ life = "starting" => a = Main /\ pc[a] \in {"init_db", "cache"} \cup Migrating
  /\ life = "up" /\ a = Main =>
       pc[a] \in {"idle", "cache", "keyring", "open", "commit"} \cup Restoring
  /\ a # Main => pc[a] \in {"idle", "try"} \cup Opening \cup Migrating
  /\ conn = IF pc[a] = "commit" THEN "db" ELSE "none"

(* The file the requests before this one left: while an upload is judged,  *)
(* the copy of what it replaced.                                           *)
Own(a) == IF pc[a] \in {"admit", "roll_back"} THEN pre ELSE db

OpenedBy(f, p) == p # None => f # None /\ f.key = p

(* What an actor knows of the database and of its password. *)
KnowsMigrating(a) ==
  /\ pc[a] \in Migrating =>
       /\ cached = None /\ pw[a] \in Passwords
       /\ IF pc[a] = "move_in" THEN db = None /\ backup # None
                               ELSE db # None /\ db.key = Plain
  /\ pc[a] \in {"check", "drop", "move_away", "move_in"} => tmp # None /\ tmp.key = pw[a]

KnowsOpening(a) ==
  /\ pc[a] = "try" => Encrypted(db)
  /\ pc[a] \in {"cache", "keyring"} => pw[a] \in Passwords /\ (db # None => db.key = pw[a])
  /\ pc[a] = "cache" \/ (pc[a] = "keyring" /\ a = Main) => db # None
  /\ pc[a] = "keyring" => cached = pw[a]
  /\ pc[a] = "init_db" =>
       /\ cached = None => db # None
       /\ cached # None => db = None \/ Encrypted(db)
       /\ life = "up" => cached = pw[a] /\ cached # None /\ (db # None => db.key = cached)

KnowsRestoring(a) ==
  /\ pc[a] \in {"open", "commit"} \cup Restoring =>
       Own(a) # None /\ (cached = None => Own(a).key = Plain)
  /\ pc[a] \in {"replace", "admit", "roll_back"} => undo /\ pre # None
  /\ pc[a] = "replace" => pre = db
  /\ pc[a] \in {"replace", "admit"} => (arg.key = Plain => pre.key = Plain)
  /\ pc[a] = "admit" => db = arg

KnowsCached(a) ==
  /\ life = "up" /\ pc[a] \notin Opening => OpenedBy(Own(a), cached)
  /\ tmp # None => tmp.key \in Passwords

(* Where the runs are. Once the swap was cut, the backup is the plaintext  *)
(* database that there was.                                                *)
Stored(f) ==
  IF "swap" \in cuts THEN owed \subseteq RunsOf(f) \cup RunsOf(backup) /\ (f = None \/ Encrypted(f))
  ELSE owed \subseteq RunsOf(f)

Kept(a) == "restore" \notin cuts =>
  /\ IF pc[a] = "move_in" THEN owed \subseteq RunsOf(backup) /\ owed \subseteq RunsOf(tmp)
     ELSE Stored(Own(a))
  /\ pc[a] \in {"check", "drop", "move_away"} => RunsOf(db) \subseteq RunsOf(tmp)

(* Where the password is. *)
InKeyring(a) == EnvPassword = None /\ "restore" \notin cuts /\ "password" \notin cuts =>
  /\ ~(life = "up" /\ pc[a] \in {"cache", "keyring"}) =>
       (keyring # None /\ Encrypted(Own(a)) => keyring = Own(a).key)
  /\ life = "starting" => pw[Main] = keyring /\ cached \in {None, keyring}
  /\ life = "up" /\ pc[a] = "init_db" => keyring = pw[a]

Inv(a) ==
  /\ Alone(a) /\ Phase(a)
  /\ KnowsMigrating(a) /\ KnowsOpening(a) /\ KnowsRestoring(a)
  /\ KnowsCached(a) /\ Kept(a) /\ InKeyring(a)

VaultInv == TypeInv /\ \E a \in Actors : Inv(a)

-----------------------------------------------------------------------------
LEMMA ConstantFacts ==
  /\ Main \in Actors /\ \A t \in Threads : t \in Actors /\ t # Main
  /\ Plain \notin Passwords /\ Unreadable \notin Passwords /\ None \notin Passwords
  /\ Plain # Unreadable /\ None # Plain /\ None # Unreadable /\ None \notin File
  /\ Uploads \subseteq File /\ \A u \in Uploads : u \in File /\ u # None
  /\ EnvPassword \in Passwords \cup {None}
  /\ IsFiniteSet(Runs) /\ IsFiniteSet(Actors)
<1>1. IsFiniteSet({Main}) /\ IsFiniteSet(Threads)
  BY FS_Singleton, VaultAssumption
<1>2. IsFiniteSet(Actors)
  BY <1>1, FS_Union DEF Actors
<1> QED
  BY <1>2, VaultAssumption DEF Actors, Plain, Unreadable

LEMMA FileTypes ==
  ASSUME NEW f \in File \cup {None}, NEW p \in Passwords \cup {None}
  PROVE  /\ Connected(f, p) \in File /\ Connected(f, p) # None
         /\ f # None => f \in File /\ Connected(f, p) = f
         /\ f = None => Connected(f, p) = Blank(IF p = None THEN Plain ELSE p)
         /\ RunsOf(f) \subseteq Runs
<1>1. \A k \in Passwords \cup {Plain} : Blank(k) \in File
  BY DEF Blank, File
<1>2. f \in File => f # None /\ f.runs \subseteq Runs
  BY ConstantFacts DEF File
<1> QED
  BY <1>1, <1>2, ConstantFacts DEF Connected, RunsOf

LEMMA FileFields ==
  ASSUME NEW f \in File
  PROVE  /\ f.key \in Passwords \cup {Plain, Unreadable}
         /\ f.runs \subseteq Runs /\ f.tables \in BOOLEAN
         /\ RunsOf(f) = f.runs /\ f # None
         /\ [f EXCEPT !.tables = TRUE] \in File
         /\ \A S \in SUBSET Runs, b \in BOOLEAN :
              [f EXCEPT !.runs = @ \cup S, !.tables = @ \/ b] \in File
         /\ \A p \in Passwords : [f EXCEPT !.key = p] \in File
         /\ \A r \in Runs : [f EXCEPT !.runs = @ \cup {r}] \in File
BY ConstantFacts DEF File, RunsOf

Steps == MigrationSteps \cup
  {"idle", "init_db", "try", "cache", "keyring", "migrate", "open", "commit",
   "screen", "replace", "admit", "tidy", "roll_back"}

LEMMA Typed ==
  ASSUME TypeOK
  PROVE  /\ db \in File \cup {None} /\ tmp \in File \cup {None}
         /\ backup \in File \cup {None} /\ pre \in File \cup {None}
         /\ cached \in Passwords \cup {None} /\ keyring \in Passwords \cup {None}
         /\ pc \in [Actors -> Steps] /\ pw \in [Actors -> Passwords \cup {None}]
         /\ owed \subseteq Runs
         /\ StartPassword \in Passwords \cup {None}
         /\ \A S \in SUBSET Runs : Cardinality(S) \in 0..Cardinality(Runs)
<1>1. \A S \in SUBSET Runs : Cardinality(S) \in 0..Cardinality(Runs)
  BY ConstantFacts, FS_Subset, FS_CardinalityType
<1> QED
  BY <1>1, ConstantFacts DEF TypeOK, Steps, StartPassword

LEMMA InitTyped == Init => TypeInv
<1> SUFFICES ASSUME Init PROVE TypeInv
  OBVIOUS
<1>1. db \in File \cup {None}
  <2>1. \A k \in Passwords \cup {Plain}, S \in SUBSET Runs :
          [key |-> k, runs |-> S, tables |-> TRUE] \in File
    BY DEF File
  <2> QED
    BY <2>1 DEF Init
<1>2. keyring \in Passwords \cup {None}
  BY <1>1, ConstantFacts DEF Init, Encrypted, File
<1>3. owed \subseteq Runs
  BY <1>1, ConstantFacts DEF Init, File
<1>4. /\ pc \in [Actors -> Steps] /\ pw \in [Actors -> Passwords \cup {None}]
      /\ counted \in [Actors -> {NoTables} \cup 0..Cardinality(Runs)]
      /\ pc[Main] = "idle"
  BY ConstantFacts DEF Init, Steps
<1>5. faults \in 0..MaxFaults
  BY VaultAssumption DEF Init
<1> QED
  BY <1>1, <1>2, <1>3, <1>4, <1>5 DEF Init, TypeInv, TypeOK, ArgFits, ConnFits, Steps

-----------------------------------------------------------------------------
(* Every step keeps the types. *)
LEMMA Goes ==
  ASSUME TypeOK, NEW a \in Actors, NEW step \in Steps, Goto(a, step)
  PROVE  /\ pc' \in [Actors -> Steps] /\ pc'[a] = step
         /\ \A b \in Actors \ {a} : pc'[b] = pc[b]
BY Typed DEF Goto

LEMMA Ends ==
  ASSUME TypeOK, NEW a \in Actors, Fail(a) \/ Succeed(a)
  PROVE  /\ Goto(a, "idle") /\ life' \in {"down", "starting", "up", "failed"}
         /\ cached' \in Passwords \cup {None}
         /\ life # "starting" => life' = life /\ cached' = cached
BY Typed DEF Fail, Succeed, TypeOK

LEMMA RequestsTyped ==
  ASSUME TypeInv, Ask
  PROVE  TypeInv'
<1>1. TypeOK
  BY DEF TypeInv
<1>2. ASSUME NEW t \in Threads, NEW p \in Passwords, Unlock(t, p) PROVE TypeInv'
  <2>1. \E step \in {"keyring", "try", "migrate"} : Goto(t, step)
    BY <1>2 DEF Unlock
  <2>2. pc' \in [Actors -> Steps] /\ pc'[Main] = pc[Main]
    BY <1>1, <2>1, ConstantFacts, Goes DEF Steps
  <2>3. cached' \in Passwords \cup {None} /\ pw' \in [Actors -> Passwords \cup {None}]
    BY <1>1, <1>2, Typed, ConstantFacts DEF Unlock
  <2> QED
    BY <1>2, <2>2, <2>3 DEF Unlock, TypeInv, TypeOK, ArgFits, ConnFits, Steps, files, request, history
<1>3. ASSUME NEW p \in Passwords, Rotate(p) PROVE TypeInv'
  <2>1. pc' \in [Actors -> Steps] /\ pc'[Main] = "cache"
    BY <1>1, <1>3, ConstantFacts, Goes DEF Steps, Rotate
  <2>2. db' \in File /\ db' # None
    BY <1>1, <1>3, Typed, FileTypes, FileFields DEF Rotate
  <2>3. pw' \in [Actors -> Passwords \cup {None}]
    BY <1>1, <1>3, Typed DEF Rotate
  <2> QED
    BY <1>3, <2>1, <2>2, <2>3 DEF Rotate, TypeInv, TypeOK, ArgFits, ConnFits, Steps, secrets, request, history
<1>4. ASSUME NEW r \in Runs, Save(r) PROVE TypeInv'
  <2>1. pc' \in [Actors -> Steps] /\ pc'[Main] = "open"
    BY <1>1, <1>4, ConstantFacts, Goes DEF Steps, Save
  <2> QED
    BY <1>4, <2>1 DEF Save, TypeInv, TypeOK, ArgFits, ConnFits, Steps, files, secrets, history
<1>5. ASSUME NEW u \in Uploads, Restore(u) PROVE TypeInv'
  <2>1. pc' \in [Actors -> Steps] /\ pc'[Main] = "screen"
    BY <1>1, <1>5, ConstantFacts, Goes DEF Steps, Restore
  <2> QED
    BY <1>5, <2>1 DEF Restore, TypeInv, TypeOK, ArgFits, ConnFits, Steps, files, secrets, history
<1> QED
  BY <1>2, <1>3, <1>4, <1>5 DEF Ask

LEMMA MigrationTyped ==
  ASSUME TypeInv, NEW a \in Actors,
         \/ Migrate(a) \/ Count(a) \/ Export(a) \/ Check(a) \/ DropBackup(a) \/ MoveAway(a)
         \/ MoveIn(a) \/ MigrationFails(a)
  PROVE  TypeInv'
<1>1. TypeOK
  BY DEF TypeInv
<1>2. pc[a] \in {"migrate"} \cup MigrationSteps
  BY DEF Migrate, Count, Export, Check, DropBackup, MoveAway, MoveIn, MigrationFails, MigrationSteps
<1>3. \E step \in {"idle", "cache"} \cup MigrationSteps : Goto(a, step)
  BY DEF Migrate, Count, Export, Check, DropBackup, MoveAway, MoveIn, MigrationFails, Fail,
     MigrationSteps
<1>4. /\ pc' \in [Actors -> Steps] /\ pc'[a] \in {"idle", "cache"} \cup MigrationSteps
      /\ a # Main => pc'[Main] = pc[Main]
  BY <1>1, <1>3, ConstantFacts, Goes DEF Steps
<1>5. ArgFits => (UNCHANGED arg => ArgFits')
  BY <1>4 DEF ArgFits, MigrationSteps
<1>6. CASE Migrate(a)
  BY <1>1, <1>4, <1>5, <1>6, Ends DEF Migrate, TypeInv, TypeOK, ConnFits, Steps, files, request, history
<1>7. CASE Count(a)
  <2>1. db' \in File /\ db' # None
    BY <1>1, <1>7, Typed, FileTypes DEF Count
  <2>2. counted' \in [Actors -> {NoTables} \cup 0..Cardinality(Runs)]
    BY <1>1, <1>7, <2>1, Typed, FileFields DEF Count, TypeOK
  <2> QED
    BY <1>4, <1>5, <1>7, <2>1, <2>2 DEF Count, TypeInv, TypeOK, ConnFits, Steps, secrets, request, history
<1>8. CASE Export(a)
  <2>1. db' \in File /\ db' # None
    BY <1>1, <1>8, Typed, FileTypes DEF Export
  <2>2. Connected(tmp, pw[a]) \in File
    BY <1>1, Typed, FileTypes
  <2>3. tmp' \in File
    BY <1>8, <2>1, <2>2, FileFields DEF Export
  <2> QED
    BY <1>4, <1>5, <1>8, <2>1, <2>3 DEF Export, TypeInv, TypeOK, ConnFits, Steps, secrets, request, history
<1>9. CASE Check(a)
  <2>1. tmp' \in File
    BY <1>1, <1>9, Typed, FileTypes DEF Check
  <2> QED
    BY <1>4, <1>5, <1>9, <2>1 DEF Check, TypeInv, TypeOK, ConnFits, Steps, secrets, request, history
<1>10. CASE DropBackup(a)
  BY <1>4, <1>5, <1>10 DEF DropBackup, Follow, TypeInv, TypeOK, ConnFits, Steps, secrets, history
<1>11. CASE MoveAway(a)
  <2>1. db # None
    BY <1>11 DEF MoveAway, Blocked
  <2> QED
    BY <1>4, <1>5, <1>11, <2>1 DEF MoveAway, Follow, TypeInv, TypeOK, ConnFits, Steps, secrets, history
<1>12. CASE MoveIn(a)
  <2>1. tmp # None
    BY <1>12 DEF MoveIn, Blocked
  <2> QED
    BY <1>4, <1>5, <1>12, <2>1 DEF MoveIn, Follow, TypeInv, TypeOK, ConnFits, Steps, secrets, history
<1>13. CASE MigrationFails(a)
  <2>1. db' \in File \cup {None} /\ (db' = None => db = None)
    BY <1>1, <1>13, Typed, FileTypes DEF MigrationFails
  <2>2. faults' \in 0..MaxFaults /\ cuts' \subseteq {"swap", "restore", "password"}
    <3>1. CASE UNCHANGED <<cuts, faults>>
      BY <1>1, <3>1 DEF TypeOK
    <3>2. CASE /\ faults < MaxFaults /\ faults' = faults + 1
               /\ cuts' = IF pc[a] = "move_in" THEN cuts \cup {"swap"} ELSE cuts
      BY <1>1, <3>2, VaultAssumption DEF TypeOK
    <3> QED
      BY <1>13, <3>1, <3>2 DEF MigrationFails
  <2> QED
    BY <1>1, <1>4, <1>5, <1>13, <2>1, <2>2, Ends DEF MigrationFails, TypeInv, TypeOK, ConnFits, Steps, request
<1> QED
  BY <1>6, <1>7, <1>8, <1>9, <1>10, <1>11, <1>12, <1>13

LEMMA MainTyped ==
  ASSUME TypeInv,
         OpenStore \/ CommitRun \/ Screen \/ Replace \/ Admit \/ Tidy \/ RollBack
  PROVE  TypeInv'
<1>1. TypeOK
  BY DEF TypeInv
<1>2. \E step \in {"idle", "commit", "replace", "admit", "tidy", "roll_back"} : Goto(Main, step)
  BY DEF OpenStore, CommitRun, Screen, Replace, Admit, Tidy, RollBack, EndRestore
<1>3. pc' \in [Actors -> Steps] /\ \A step \in Steps : Goto(Main, step) => pc'[Main] = step
  BY <1>1, <1>2, ConstantFacts, Goes DEF Steps
<1>4. CASE OpenStore
  <2>1. db' \in File /\ db' # None
    BY <1>1, <1>4, Typed, FileTypes DEF OpenStore
  <2> QED
    BY <1>3, <1>4, <2>1 DEF OpenStore, TypeInv, TypeOK, ArgFits, ConnFits, Steps, secrets, history
<1>5. CASE CommitRun
  <2>1. arg \in Runs
    BY <1>5 DEF CommitRun, TypeInv, ArgFits
  <2>2. db' \in File \cup {None} /\ backup' \in File \cup {None}
    <3>1. conn = "db" => db \in File /\ db' = [db EXCEPT !.runs = @ \cup {arg}]
      BY <1>1, <1>5, Typed DEF CommitRun, TypeInv, ConnFits
    <3>2. \/ backup' = backup
          \/ backup \in File /\ backup' = [backup EXCEPT !.runs = @ \cup {arg}]
      BY <1>1, <1>5, Typed DEF CommitRun, TypeInv, ConnFits
    <3>3. conn # "db" => db' = db
      BY <1>5 DEF CommitRun
    <3>4. \A f \in File : [f EXCEPT !.runs = @ \cup {arg}] \in File
      BY <2>1, FileFields
    <3>5. db' \in File \cup {None}
      BY <1>1, <3>1, <3>3, <3>4, Typed
    <3>6. backup' \in File \cup {None}
      BY <1>1, <3>2, <3>4, Typed
    <3> QED
      BY <3>5, <3>6
  <2>3. pc'[Main] = "idle" /\ owed' \subseteq Runs
    BY <1>1, <1>3, <1>5, <2>1, Typed DEF CommitRun, Steps
  <2> QED
    BY <1>3, <1>5, <2>2, <2>3 DEF CommitRun, TypeInv, TypeOK, ArgFits, ConnFits, Steps, secrets
<1>6. CASE Screen
  <2>1. pc'[Main] \in {"idle", "replace"} /\ (pc'[Main] = "replace" => arg' = arg)
    BY <1>3, <1>6 DEF Screen, Steps
  <2> QED
    BY <1>3, <1>6, <2>1 DEF Screen, TypeInv, TypeOK, ArgFits, ConnFits, Steps, secrets, history
<1>7. CASE Replace
  <2>1. pc'[Main] = "admit" /\ arg \in Uploads /\ arg \in File /\ arg # None
    BY <1>3, <1>7, ConstantFacts DEF Replace, Steps, TypeInv, ArgFits
  <2> QED
    BY <1>3, <1>7, <2>1 DEF Replace, TypeInv, TypeOK, ArgFits, ConnFits, Steps, secrets, history, request
<1>8. CASE Admit
  <2>1. pc'[Main] \in {"tidy", "roll_back"} /\ arg \in Uploads /\ arg \in File
    BY <1>3, <1>8, ConstantFacts DEF Admit, Steps, TypeInv, ArgFits
  <2>2. db' \in File \cup {None} /\ (db' = None => db = None)
    <3>1. Connected(db, cached) \in File
      BY <1>1, Typed, FileTypes
    <3>2. [Connected(db, cached) EXCEPT !.tables = TRUE] \in File
      BY <3>1, FileFields
    <3> QED
      BY <1>1, <1>8, <3>2, Typed, FileFields DEF Admit
  <2>3. owed' \subseteq Runs
    BY <1>1, <1>8, <2>1, Typed, FileFields DEF Admit
  <2> QED
    BY <1>3, <1>8, <2>1, <2>2, <2>3 DEF Admit, TypeInv, TypeOK, ArgFits, ConnFits, Steps, secrets, request
<1>9. CASE Tidy \/ RollBack
  <2>1. pc'[Main] = "idle"
    BY <1>3, <1>9 DEF Tidy, RollBack, EndRestore, Steps
  <2> QED
    BY <1>3, <1>9, <2>1 DEF Tidy, RollBack, EndRestore, TypeInv, TypeOK, ArgFits, ConnFits, Steps, secrets, history
<1> QED
  BY <1>4, <1>5, <1>6, <1>7, <1>8, <1>9

LEMMA UnlockTyped ==
  ASSUME TypeInv, NEW a \in Actors,
         \/ InitDb(a) \/ Cache(a) \/ StorePassword(a) \/ KeyringFails(a)
         \/ a \in Threads /\ TryPassword(a)
  PROVE  TypeInv'
<1>1. TypeOK
  BY DEF TypeInv
<1>2. \E step \in {"idle", "init_db", "keyring", "cache"} : Goto(a, step)
  BY DEF InitDb, Cache, StorePassword, KeyringFails, TryPassword, Succeed, Fail
<1>3. /\ pc' \in [Actors -> Steps] /\ pc'[a] \in {"idle", "init_db", "keyring", "cache"}
      /\ a # Main => pc'[Main] = pc[Main]
  BY <1>1, <1>2, ConstantFacts, Goes DEF Steps
<1>4. UNCHANGED arg => ArgFits'
  BY <1>3 DEF ArgFits, TypeInv
<1>5. CASE InitDb(a)
  <2>1. Connected(db, cached) \in File
    BY <1>1, Typed, FileTypes
  <2>2. [Connected(db, cached) EXCEPT !.tables = TRUE] \in File
    BY <2>1, FileFields
  <2>3. db' \in File \cup {None} /\ (db' = None => db = None)
    BY <1>1, <1>5, <2>2, Typed, FileFields DEF InitDb
  <2> QED
    BY <1>1, <1>3, <1>4, <1>5, <2>3, Ends DEF InitDb, TypeInv, TypeOK, ConnFits, Steps, request, history
<1>6. CASE TryPassword(a)
  <2>1. db' \in File /\ db' # None
    BY <1>1, <1>6, Typed, FileTypes DEF TryPassword
  <2> QED
    BY <1>3, <1>4, <1>6, <2>1 DEF TryPassword, TypeInv, TypeOK, ConnFits, Steps, secrets, request, history
<1>7. CASE Cache(a) \/ StorePassword(a)
  BY <1>1, <1>3, <1>4, <1>7, Typed
     DEF Cache, StorePassword, TypeInv, TypeOK, ConnFits, Steps, files, request, history
<1>8. CASE KeyringFails(a)
  <2>1. faults' \in 0..MaxFaults
    BY <1>1, <1>8, VaultAssumption DEF KeyringFails, TypeOK
  <2>2. cuts' \subseteq {"swap", "restore", "password"}
    BY <1>1, <1>8 DEF KeyringFails, TypeOK
  <2> QED
    BY <1>3, <1>4, <1>8, <2>1, <2>2 DEF KeyringFails, TypeInv, TypeOK, ConnFits, Steps, files, secrets, request
<1> QED
  BY <1>5, <1>6, <1>7, <1>8

LEMMA LifeTyped ==
  ASSUME TypeInv, Start \/ Stop \/ Die
  PROVE  TypeInv'
<1>1. TypeOK
  BY DEF TypeInv
<1>2. CASE Start
  <2>1. \E step \in {"idle", "init_db", "migrate"} : Goto(Main, step)
    BY <1>2 DEF Start
  <2>2. pc' \in [Actors -> Steps] /\ pc'[Main] \in {"idle", "init_db", "migrate"}
    BY <1>1, <2>1, ConstantFacts, Goes DEF Steps
  <2>3. /\ pw' \in [Actors -> Passwords \cup {None}] /\ cached' \in Passwords \cup {None}
        /\ life' \in {"down", "starting", "up", "failed"}
    BY <1>1, <1>2, Typed DEF Start
  <2> QED
    BY <1>2, <2>2, <2>3 DEF Start, TypeInv, TypeOK, ArgFits, ConnFits, Steps, files, request, history
<1>3. CASE Stop \/ Die
  <2>1. Vanish
    BY <1>3 DEF Stop, Die
  <2>2. pc' \in [Actors -> Steps] /\ pc'[Main] = "idle"
    BY <2>1, ConstantFacts DEF Vanish, Steps
  <2>3. faults' \in 0..MaxFaults
    BY <1>1, <1>3, VaultAssumption DEF Stop, Die, TypeOK
  <2>4. cuts' \subseteq {"swap", "restore", "password"}
    BY <1>1, <1>3 DEF Stop, Die, TypeOK
  <2> QED
    BY <2>1, <2>2, <2>3, <2>4 DEF Vanish, TypeInv, TypeOK, ArgFits, ConnFits, Steps, files
<1> QED
  BY <1>2, <1>3

LEMMA NextTyped == TypeInv /\ [Next]_vars => TypeInv'
<1>1. ASSUME TypeInv, Next PROVE TypeInv'
  BY <1>1, LifeTyped, RequestsTyped, MigrationTyped, MainTyped, UnlockTyped DEF Next, Step
<1>2. ASSUME TypeInv, UNCHANGED vars PROVE TypeInv'
  BY <1>2 DEF TypeInv, TypeOK, ArgFits, ConnFits, vars, files, secrets, request, history
<1> QED
  BY <1>1, <1>2

(* The files, passwords and program counters are what they should be,      *)
(* however many requests overlap, and a connection is to a file.           *)
THEOREM TypeCorrect == Spec => []TypeOK
<1>1. TypeInv => TypeOK
  BY DEF TypeInv
<1> QED
  BY <1>1, InitTyped, NextTyped, PTL DEF Spec

-----------------------------------------------------------------------------
(* One request at a time. *)
LEMMA BeginsIdle ==
  ASSUME TypeOK, OneAtATime, NEW b \in Actors, NEW kind, Begins(b, kind)
  PROVE  Idle
<1> DEFINE busy == {c \in Actors : pc[c] # "idle"}
<1>1. IsFiniteSet(busy) /\ busy \subseteq Actors
  BY ConstantFacts, FS_Subset
<1>2. Cardinality(busy) \in Nat /\ Cardinality(busy) < 1
  BY <1>1, FS_CardinalityType DEF Begins, OneAtATime
<1>3. busy = {}
  BY <1>1, <1>2, FS_EmptySet
<1> QED
  BY <1>3 DEF Idle

LEMMA Moved ==
  ASSUME TypeOK, NEW a \in Actors, Alone(a), NEW step \in Steps, Goto(a, step)
  PROVE  pc'[a] = step /\ Alone(a)'
BY Goes DEF Alone

LEMMA Idles ==
  ASSUME NEW a \in Actors, NEW b \in Actors, Inv(a), pc[a] = "idle"
  PROVE  Inv(b) /\ Idle /\ pc[b] = "idle"
<1>1. \A c \in Actors : pc[c] = "idle"
  BY DEF Inv, Alone
<1>2. Alone(b) /\ Idle /\ pc[b] = "idle"
  BY <1>1 DEF Alone, Idle
<1>3. Phase(b)
  BY <1>2 DEF Inv, Phase, Migrating, MigrationSteps
<1>4. KnowsMigrating(b) /\ KnowsOpening(b) /\ KnowsRestoring(b)
  BY <1>2 DEF KnowsMigrating, KnowsOpening, KnowsRestoring, Migrating, MigrationSteps, Restoring
<1>5. KnowsCached(b) /\ Kept(b)
  BY <1>2 DEF Inv, KnowsCached, Kept, Own, Opening
<1>6. InKeyring(b)
  BY <1>2 DEF Inv, InKeyring, Own
<1> QED
  BY <1>2, <1>3, <1>4, <1>5, <1>6 DEF Inv

(* A step is taken by the actor whose request is under way. *)
LEMMA StepIsOwn ==
  ASSUME TypeOK, NEW a \in Actors, Inv(a), NEW b \in Actors, Step(b)
  PROVE  b = a
<1>1. pc[b] # "idle"
  BY DEF Step, InitDb, Cache, StorePassword, KeyringFails, Migrate, Count, Export, Check,
     DropBackup, MoveAway, MoveIn, MigrationFails, MigrationSteps, OpenStore, CommitRun, Screen,
     Replace, Admit, Tidy, RollBack, TryPassword
<1> QED
  BY <1>1 DEF Inv, Alone

-----------------------------------------------------------------------------
(* The steps of the startup and of unlocking. *)
LEMMA InitDbInv ==
  ASSUME TypeInv, NEW a \in Actors, Inv(a), InitDb(a)
  PROVE  Inv(a)'
<1>1. /\ TypeOK /\ pc[a] = "init_db" /\ life \in {"starting", "up"}
      /\ UNCHANGED <<tmp, backup, pre, keyring, pw, request, history>>
  BY DEF TypeInv, TypeOK, InitDb, Inv, Phase
<1>2. Goto(a, "idle")
  BY Ends, <1>1 DEF InitDb
<1>3. pc'[a] = "idle" /\ Alone(a)'
  BY <1>1, <1>2, Moved DEF Inv, Steps
<1>4. CASE Opens(db, cached)
  <2>1. db' = [Connected(db, cached) EXCEPT !.tables = TRUE] /\ Succeed(a)
    BY <1>4 DEF InitDb
  <2>2. /\ life' = "up" /\ cached' = cached
    BY <1>1, <2>1 DEF Succeed
  <2>3. /\ db' # None /\ RunsOf(db') = RunsOf(db)
        /\ db = None => cached # None /\ db'.key = cached
        /\ db # None => db'.key = db.key
    <3>1. Connected(db, cached) \in File
      BY <1>1, Typed, FileTypes
    <3>2. /\ db'.key = Connected(db, cached).key
          /\ db'.runs = Connected(db, cached).runs /\ db' \in File
      BY <2>1, <3>1, FileFields DEF File
    <3>3. db = None => cached # None
      BY <1>1 DEF Inv, KnowsOpening
    <3>4. db' # None /\ RunsOf(db') = db'.runs
      BY <3>2, FileFields
    <3>5. CASE db = None
      <4>1. Connected(db, cached) = [key |-> cached, runs |-> {}, tables |-> FALSE]
        BY <3>3, <3>5 DEF Connected, Blank
      <4> QED
        BY <3>2, <3>3, <3>4, <3>5, <4>1 DEF RunsOf
    <3>6. CASE db # None
      BY <3>2, <3>4, <3>6 DEF Connected, RunsOf
    <3> QED
      BY <3>5, <3>6
  <2>4. OpenedBy(db', cached)
    BY <1>1, <1>4, <2>3 DEF OpenedBy, Inv, KnowsOpening, Opens, Encrypted
  <2>5. Kept(a)'
    BY <1>1, <1>3, <2>2, <2>3, Typed, ConstantFacts DEF Inv, Kept, Own, Stored, Encrypted, history
  <2>6. InKeyring(a)'
    BY <1>1, <1>3, <2>2, <2>3, Typed, ConstantFacts DEF Inv, InKeyring, KnowsOpening, Own, Encrypted, history
  <2>7. Phase(a)' /\ KnowsCached(a)'
    BY <1>1, <1>3, <2>2, <2>4 DEF Inv, Phase, KnowsCached, Own, request
  <2> QED
    BY <1>3, <2>5, <2>6, <2>7 DEF Inv, KnowsMigrating, KnowsOpening, KnowsRestoring, Migrating,
       MigrationSteps, Restoring
<1>5. CASE ~Opens(db, cached)
  <2>1. db' = db /\ Fail(a)
    BY <1>5 DEF InitDb
  <2>2. life = "starting"
    BY <1>1, <1>5 DEF Inv, KnowsOpening, Opens
  <2>3. life' = "failed" /\ cached' = None
    BY <2>1, <2>2 DEF Fail
  <2>4. Kept(a)' /\ InKeyring(a)'
    BY <1>1, <1>3, <2>1, <2>2, <2>3 DEF Inv, Kept, Own, Stored, InKeyring, history
  <2>5. Phase(a)' /\ KnowsCached(a)'
    BY <1>1, <1>3, <2>3 DEF Inv, Phase, KnowsCached, Own, request
  <2> QED
    BY <1>3, <2>4, <2>5 DEF Inv, KnowsMigrating, KnowsOpening, KnowsRestoring, Migrating,
       MigrationSteps, Restoring
<1> QED
  BY <1>4, <1>5

LEMMA UnlockInv ==
  ASSUME TypeInv, NEW a \in Actors, Inv(a),
         \/ Cache(a) \/ StorePassword(a) \/ KeyringFails(a)
         \/ a \in Threads /\ TryPassword(a)
  PROVE  Inv(a)'
<1>1. TypeOK /\ life \in {"starting", "up"}
  BY DEF TypeInv, TypeOK, Inv, Phase, Cache, StorePassword, KeyringFails, TryPassword
<1>2. ASSUME NEW step \in Steps, Goto(a, step) PROVE pc'[a] = step /\ Alone(a)'
  BY <1>1, <1>2, Moved DEF Inv
<1>3. pc'[a] \in {"idle", "cache", "keyring", "init_db"} =>
        KnowsMigrating(a)' /\ KnowsRestoring(a)'
  BY DEF KnowsMigrating, KnowsRestoring, Migrating, MigrationSteps, Restoring
<1>4. CASE a \in Threads /\ TryPassword(a)
  <2>1. /\ pc[a] = "try" /\ a # Main /\ life = "up" /\ db # None
        /\ UNCHANGED <<tmp, backup, pre, secrets, life, pw, counted, request, history>>
    BY <1>1, <1>4, ConstantFacts DEF TryPassword, Inv, Phase, KnowsOpening, Encrypted
  <2>2. db' = db
    BY <1>4, <2>1 DEF TryPassword, Connected
  <2>3. OpenedBy(db, cached)
    BY <2>1 DEF Inv, KnowsCached, Own, Opening
  <2>4. CASE Opens(db, pw[a])
    <3>1. pc'[a] = "cache" /\ Alone(a)'
      BY <1>2, <1>4, <2>4 DEF TryPassword, Steps
    <3>2. db.key = pw[a] /\ pw[a] \in Passwords
      BY <1>1, <2>1, <2>4, Typed, FileFields, ConstantFacts DEF Opens, Encrypted, Inv, KnowsOpening
    <3>3. KnowsOpening(a)' /\ Phase(a)' /\ KnowsCached(a)'
      BY <2>1, <2>2, <3>1, <3>2
         DEF Inv, KnowsOpening, Phase, KnowsCached, Opening, request, secrets
    <3>4. Kept(a)' /\ InKeyring(a)'
      BY <2>1, <2>2, <3>1 DEF Inv, Kept, Own, Stored, InKeyring, secrets, history
    <3> QED
      BY <1>3, <3>1, <3>3, <3>4 DEF Inv
  <2>5. CASE ~Opens(db, pw[a])
    <3>1. pc'[a] = "idle" /\ Alone(a)'
      BY <1>2, <1>4, <2>5 DEF TryPassword, Steps
    <3>2. KnowsOpening(a)' /\ Phase(a)' /\ KnowsCached(a)'
      BY <2>1, <2>2, <2>3, <3>1
         DEF Inv, KnowsOpening, Phase, KnowsCached, Own, request, secrets
    <3>3. Kept(a)' /\ InKeyring(a)'
      BY <2>1, <2>2, <3>1 DEF Inv, Kept, Own, Stored, InKeyring, secrets, history
    <3> QED
      BY <1>3, <3>1, <3>2, <3>3 DEF Inv
  <2> QED
    BY <2>4, <2>5
<1>5. CASE Cache(a)
  <2>1. /\ pc[a] = "cache" /\ cached' = pw[a] /\ pw[a] \in Passwords
        /\ db # None /\ db.key = pw[a] /\ pw[a] # None /\ pw[a] # Plain
        /\ UNCHANGED <<files, keyring, life, pw, counted, request, history>>
    BY <1>5, ConstantFacts DEF Cache, Inv, KnowsOpening
  <2>2. /\ pc'[a] = IF life = "starting" THEN "init_db" ELSE "keyring"
        /\ Alone(a)'
    BY <1>2, <1>5 DEF Cache, Steps
  <2>3. Phase(a)' /\ KnowsOpening(a)' /\ KnowsCached(a)'
    BY <1>1, <2>1, <2>2
       DEF Inv, Phase, KnowsOpening, KnowsCached, Opening, Encrypted, files, request
  <2>4. Kept(a)'
    BY <2>1, <2>2 DEF Inv, Kept, Own, Stored, files, history
  <2>5. InKeyring(a)'
    BY <1>1, <2>1, <2>2 DEF Inv, Phase, InKeyring, Own, files, history
  <2> QED
    BY <1>3, <2>2, <2>3, <2>4, <2>5 DEF Inv
<1>6. CASE StorePassword(a) \/ KeyringFails(a)
  <2>1. /\ pc[a] = "keyring" /\ cached = pw[a] /\ pw[a] \in Passwords /\ life = "up"
        /\ db # None => db.key = pw[a]
        /\ a = Main => db # None
        /\ pw[a] # None /\ pw[a] # Plain
        /\ UNCHANGED <<files, cached, life, pw, counted, request, owed>>
    BY <1>1, <1>6, ConstantFacts
       DEF StorePassword, KeyringFails, Inv, Phase, KnowsOpening, Migrating, MigrationSteps, history, secrets
  <2>2. /\ pc'[a] = IF a = Main THEN "idle" ELSE "init_db"
        /\ Alone(a)'
    BY <1>2, <1>6 DEF StorePassword, KeyringFails, Steps
  <2>3. /\ "restore" \in cuts' <=> "restore" \in cuts
        /\ "swap" \in cuts' <=> "swap" \in cuts
        /\ keyring' = pw[a] \/ "password" \in cuts'
    BY <1>6 DEF StorePassword, KeyringFails, history
  <2>4. Phase(a)' /\ KnowsOpening(a)' /\ KnowsCached(a)'
    BY <2>1, <2>2
       DEF Inv, Phase, KnowsOpening, KnowsCached, Opening, OpenedBy, Own, Encrypted, files, request
  <2>5. Kept(a)'
    BY <2>1, <2>2, <2>3 DEF Inv, Kept, Own, Stored, files
  <2>6. InKeyring(a)'
    BY <2>1, <2>2, <2>3 DEF Inv, InKeyring, Own, Encrypted, files
  <2> QED
    BY <1>3, <2>2, <2>4, <2>5, <2>6 DEF Inv
<1> QED
  BY <1>4, <1>5, <1>6

-----------------------------------------------------------------------------
(* The migration. Whatever fails, the plaintext database or its backup has *)
(* the runs.                                                               *)
LEMMA MigrationInv ==
  ASSUME TypeInv, NEW a \in Actors, Inv(a),
         \/ Migrate(a) \/ Count(a) \/ Export(a) \/ Check(a) \/ DropBackup(a) \/ MoveAway(a)
         \/ MoveIn(a)
  PROVE  Inv(a)'
<1>1. /\ TypeOK /\ pc[a] \in Migrating /\ life \in {"starting", "up"}
  BY DEF TypeInv, TypeOK, Inv, Phase, Migrating, MigrationSteps,
     Migrate, Count, Export, Check, DropBackup, MoveAway, MoveIn
<1>2. /\ cached = None /\ pw[a] \in Passwords /\ pw[a] # None /\ pw[a] # Plain
      /\ pc[a] # "move_in" => db # None /\ db.key = Plain /\ Connected(db, None) = db
      /\ pc[a] = "move_in" => db = None /\ backup # None
      /\ pc[a] \in {"check", "drop", "move_away", "move_in"} => tmp # None /\ tmp.key = pw[a]
      /\ conn = "none"
  BY <1>1, ConstantFacts
     DEF Inv, KnowsMigrating, Phase, Migrating, MigrationSteps, Connected
<1>3. ASSUME NEW step \in Steps, Goto(a, step) PROVE pc'[a] = step /\ Alone(a)'
  BY <1>1, <1>3, Moved DEF Inv
<1>4. UNCHANGED <<cached, keyring, life, pw, history>> /\ UNCHANGED <<pre, arg, undo>>
  BY <1>2 DEF Migrate, Count, Export, Check, DropBackup, MoveAway, MoveIn, secrets, files, request
<1>5. conn' = "none"
  BY <1>2 DEF Migrate, Count, Export, Check, DropBackup, MoveAway, MoveIn, Follow, request
<1>6. ASSUME pc'[a] \in {"count", "export", "check", "drop", "move_away", "move_in"}
      PROVE  Phase(a)' /\ KnowsOpening(a)' /\ KnowsRestoring(a)'
  BY <1>1, <1>4, <1>5, <1>6
     DEF Inv, Phase, KnowsOpening, KnowsRestoring, Migrating, MigrationSteps, Restoring
<1>7. CASE Migrate(a) \/ Count(a)
  <2>1. db' = db /\ tmp' = tmp /\ backup' = backup
    BY <1>2, <1>7 DEF Migrate, Count, files
  <2>2. pc'[a] \in {"count", "export"} /\ pc[a] \in {"migrate", "count"} /\ Alone(a)'
    BY <1>2, <1>3, <1>7 DEF Migrate, Count, Steps, MigrationSteps
  <2>3. KnowsMigrating(a)' /\ KnowsCached(a)'
    BY <1>2, <1>4, <2>1, <2>2
       DEF Inv, KnowsMigrating, KnowsCached, OpenedBy, Migrating, MigrationSteps
  <2>4. Kept(a)' /\ InKeyring(a)'
    BY <1>4, <2>1, <2>2 DEF Inv, Kept, Own, Stored, InKeyring, history
  <2> QED
    BY <1>6, <2>2, <2>3, <2>4 DEF Inv
<1>8. CASE Export(a)
  <2>1. /\ pc[a] = "export" /\ db' = db /\ backup' = backup
    BY <1>2, <1>8 DEF Export, files
  <2>2. pc'[a] = "check" /\ Alone(a)'
    BY <1>3, <1>8 DEF Export, Steps, MigrationSteps
  <2>3. Connected(tmp, pw[a]) \in File /\ Connected(tmp, pw[a]).key = pw[a]
    <3>1. tmp = None => Connected(tmp, pw[a]).key = pw[a]
      BY <1>2 DEF Connected, Blank
    <3>2. tmp # None => tmp.key = pw[a] /\ Connected(tmp, pw[a]) = tmp
      BY <1>8, ConstantFacts DEF Export, Blocked, Opens, Connected, Inv, KnowsCached
    <3> QED
      BY <1>1, <3>1, <3>2, Typed, FileTypes
  <2>4. tmp' # None /\ tmp'.key = pw[a] /\ RunsOf(db) \subseteq RunsOf(tmp')
    <3> DEFINE copy == Connected(tmp, pw[a])
    <3>1. db \in File /\ copy \in File
      BY <1>1, <1>2, <2>1, <2>3, Typed
    <3>2. tmp' = [copy EXCEPT !.runs = @ \cup db.runs, !.tables = @ \/ db.tables]
      BY <1>8, <2>1 DEF Export
    <3>3. tmp' \in File
      BY <3>1, <3>2, FileFields
    <3>4. tmp'.key = copy.key /\ tmp'.runs = copy.runs \cup db.runs
      BY <3>1, <3>2 DEF File
    <3> QED
      BY <2>3, <3>1, <3>3, <3>4, FileFields
  <2>5. KnowsMigrating(a)' /\ KnowsCached(a)'
    BY <1>2, <1>4, <2>1, <2>2, <2>4
       DEF KnowsMigrating, KnowsCached, OpenedBy, Migrating, MigrationSteps
  <2>6. Kept(a)' /\ InKeyring(a)'
    BY <1>4, <2>1, <2>2, <2>4 DEF Inv, Kept, Own, Stored, InKeyring, history
  <2> QED
    BY <1>6, <2>2, <2>5, <2>6 DEF Inv
<1>9. CASE Check(a) \/ DropBackup(a)
  <2>1. /\ pc[a] \in {"check", "drop"} /\ db' = db /\ tmp' = tmp
    BY <1>2, <1>9 DEF Check, DropBackup, Connected
  <2>2. pc'[a] \in {"drop", "move_away"} /\ Alone(a)'
    BY <1>3, <1>9 DEF Check, DropBackup, Steps, MigrationSteps
  <2>3. KnowsMigrating(a)' /\ KnowsCached(a)'
    BY <1>2, <1>4, <2>1, <2>2
       DEF Inv, KnowsMigrating, KnowsCached, OpenedBy, Migrating, MigrationSteps
  <2>4. Kept(a)' /\ InKeyring(a)'
    BY <1>2, <1>4, <2>1, <2>2 DEF Inv, Kept, Own, Stored, InKeyring, history, Encrypted
  <2> QED
    BY <1>6, <2>2, <2>3, <2>4 DEF Inv
<1>10. CASE MoveAway(a)
  <2>1. /\ pc[a] = "move_away" /\ db' = None /\ backup' = db /\ tmp' = tmp
    BY <1>10 DEF MoveAway
  <2>2. pc'[a] = "move_in" /\ Alone(a)'
    BY <1>3, <1>10 DEF MoveAway, Steps, MigrationSteps
  <2>3. KnowsMigrating(a)' /\ KnowsCached(a)'
    BY <1>2, <1>4, <2>1, <2>2
       DEF Inv, KnowsMigrating, KnowsCached, OpenedBy, Migrating, MigrationSteps
  <2>4. Kept(a)' /\ InKeyring(a)'
    BY <1>2, <1>4, <2>1, <2>2 DEF Inv, Kept, Own, Stored, InKeyring, history, Encrypted
  <2> QED
    BY <1>6, <2>2, <2>3, <2>4 DEF Inv
<1>11. CASE MoveIn(a)
  <2>1. /\ pc[a] = "move_in" /\ db' = tmp /\ tmp' = None /\ backup' = backup
    BY <1>11 DEF MoveIn
  <2>2. pc'[a] = "cache" /\ Alone(a)'
    BY <1>3, <1>11 DEF MoveIn, Steps
  <2>3. KnowsMigrating(a)' /\ KnowsRestoring(a)'
    BY <2>2 DEF KnowsMigrating, KnowsRestoring, Migrating, MigrationSteps, Restoring
  <2>4. Phase(a)' /\ KnowsOpening(a)' /\ KnowsCached(a)'
    BY <1>1, <1>2, <1>4, <1>5, <2>1, <2>2
       DEF Inv, Phase, KnowsOpening, KnowsCached, Opening, Migrating, MigrationSteps
  <2>5. Kept(a)' /\ InKeyring(a)'
    BY <1>1, <1>2, <1>4, <2>1, <2>2
       DEF Inv, Phase, Kept, Own, Stored, InKeyring, history, Encrypted
  <2> QED
    BY <2>2, <2>3, <2>4, <2>5 DEF Inv
<1> QED
  BY <1>7, <1>8, <1>9, <1>10, <1>11

LEMMA MigrationFailsInv ==
  ASSUME TypeInv, NEW a \in Actors, Inv(a), MigrationFails(a)
  PROVE  Inv(a)'
<1>1. /\ TypeOK /\ pc[a] \in MigrationSteps /\ life \in {"starting", "up"}
  BY DEF TypeInv, TypeOK, Inv, Phase, MigrationSteps, MigrationFails
<1>2. /\ cached = None /\ conn = "none"
      /\ pc[a] # "move_in" => db # None /\ db.key = Plain
      /\ pc[a] = "move_in" => db = None /\ tmp # None
  BY <1>1 DEF Inv, KnowsMigrating, Phase, Migrating, MigrationSteps
<1>3. pc'[a] = "idle" /\ Alone(a)'
  <2>1. Goto(a, "idle")
    BY <1>1, Ends DEF MigrationFails
  <2> QED
    BY <1>1, <2>1, Moved DEF Inv, Steps
<1>4. /\ db' = db /\ tmp' = None /\ cached' = None
      /\ life' = IF life = "starting" THEN "failed" ELSE "up"
      /\ UNCHANGED <<backup, pre, keyring, pw, request, owed>>
  BY <1>1, <1>2 DEF MigrationFails, Fail, Connected
<1>5. /\ "restore" \in cuts' <=> "restore" \in cuts
      /\ "password" \in cuts' <=> "password" \in cuts
      /\ IF pc[a] = "move_in" THEN "swap" \in cuts' ELSE "swap" \in cuts' <=> "swap" \in cuts
  <2>1. CASE pc[a] = "move_in"
    BY <1>2, <2>1 DEF MigrationFails, Blocked
  <2>2. CASE pc[a] # "move_in"
    BY <2>2 DEF MigrationFails
  <2> QED
    BY <2>1, <2>2
<1>6. KnowsMigrating(a)' /\ KnowsOpening(a)' /\ KnowsRestoring(a)'
  BY <1>3 DEF KnowsMigrating, KnowsOpening, KnowsRestoring, Migrating, MigrationSteps, Restoring
<1>7. Phase(a)' /\ KnowsCached(a)'
  BY <1>1, <1>2, <1>3, <1>4 DEF Phase, KnowsCached, OpenedBy, Own, request
<1>8. Kept(a)'
  BY <1>1, <1>2, <1>3, <1>4, <1>5
     DEF Inv, Kept, Own, Stored, RunsOf, Migrating, MigrationSteps
<1>9. InKeyring(a)'
  BY <1>2, <1>3, <1>4, <1>5 DEF InKeyring, Own, Encrypted
<1> QED
  BY <1>3, <1>6, <1>7, <1>8, <1>9 DEF Inv

-----------------------------------------------------------------------------
(* A save and a restore. *)
LEMMA SaveInv ==
  ASSUME TypeInv, Inv(Main), OpenStore \/ CommitRun
  PROVE  Inv(Main)'
<1>1. /\ TypeOK /\ pc[Main] \in {"open", "commit"} /\ life = "up" /\ Own(Main) = db
      /\ db # None /\ db \in File /\ (cached = None => db.key = Plain) /\ OpenedBy(db, cached)
      /\ conn = IF pc[Main] = "commit" THEN "db" ELSE "none"
  BY Typed DEF TypeInv, TypeOK, Inv, Phase, KnowsRestoring, KnowsCached, OpenStore, CommitRun, Own,
     Opening, Migrating, MigrationSteps
<1>2. ASSUME NEW step \in Steps, Goto(Main, step) PROVE pc'[Main] = step /\ Alone(Main)'
  BY <1>1, <1>2, Moved, ConstantFacts DEF Inv
<1>3. UNCHANGED <<tmp, pre, cached, keyring, life, pw, undo, cuts>>
  BY DEF OpenStore, CommitRun, secrets, history
<1>4. /\ pc'[Main] \in {"idle", "commit"} /\ Alone(Main)'
      /\ conn' = IF pc'[Main] = "commit" THEN "db" ELSE "none"
      /\ db' # None /\ db'.key = db.key /\ backup' = backup
      /\ owed' \subseteq RunsOf(db') \/ ~(owed \subseteq RunsOf(db))
      /\ owed \subseteq RunsOf(db) \cup RunsOf(backup) =>
           owed' \subseteq RunsOf(db') \cup RunsOf(backup)
  <2>1. CASE OpenStore
    <3>1. db' = db /\ backup' = backup /\ owed' = owed
      BY <1>1, <2>1 DEF OpenStore, Connected, history
    <3>2. /\ pc'[Main] \in {"idle", "commit"} /\ Alone(Main)'
          /\ conn' = IF pc'[Main] = "commit" THEN "db" ELSE "none"
      BY <1>1, <1>2, <2>1 DEF OpenStore, Steps
    <3> QED
      BY <1>1, <3>1, <3>2
  <2>2. CASE CommitRun
    <3>1. /\ pc'[Main] = "idle" /\ Alone(Main)' /\ conn' = "none"
          /\ conn = "db" /\ backup' = backup /\ owed' = owed \cup {arg}
          /\ db' = [db EXCEPT !.runs = @ \cup {arg}] /\ arg \in Runs
      BY <1>1, <1>2, <2>2 DEF CommitRun, Steps, TypeInv, ArgFits
    <3>2. db' \in File /\ db'.key = db.key /\ db'.runs = db.runs \cup {arg}
      BY <1>1, <3>1, FileFields DEF File
    <3>3. RunsOf(db') = RunsOf(db) \cup {arg} /\ db' # None
      BY <1>1, <3>2, FileFields
    <3> QED
      BY <3>1, <3>2, <3>3
  <2> QED
    BY <2>1, <2>2
<1>5. Own(Main)' = db' /\ OpenedBy(db', cached')
  BY <1>1, <1>3, <1>4 DEF Own, OpenedBy
<1>6. Phase(Main)' /\ KnowsMigrating(Main)' /\ KnowsOpening(Main)'
  BY <1>1, <1>3, <1>4 DEF Phase, KnowsMigrating, KnowsOpening, Migrating, MigrationSteps
<1>7. KnowsRestoring(Main)' /\ KnowsCached(Main)'
  BY <1>1, <1>3, <1>4, <1>5 DEF Inv, KnowsRestoring, KnowsCached, Restoring
<1>8. Kept(Main)'
  BY <1>1, <1>3, <1>4, <1>5 DEF Inv, Kept, Stored, Encrypted
<1>9. InKeyring(Main)'
  BY <1>1, <1>3, <1>4, <1>5 DEF Inv, InKeyring, Encrypted
<1> QED
  BY <1>4, <1>6, <1>7, <1>8, <1>9 DEF Inv

LEMMA RestoreInv ==
  ASSUME TypeInv, Inv(Main), Screen \/ Replace \/ Admit \/ Tidy \/ RollBack
  PROVE  Inv(Main)'
<1>1. /\ TypeOK /\ pc[Main] \in Restoring /\ life = "up" /\ conn = "none"
      /\ Own(Main) # None /\ (cached = None => Own(Main).key = Plain)
      /\ OpenedBy(Own(Main), cached)
  BY DEF TypeInv, TypeOK, Inv, Phase, KnowsRestoring, KnowsCached, Screen, Replace, Admit, Tidy,
     RollBack, Restoring, Opening, Migrating, MigrationSteps
<1>2. ASSUME NEW step \in Steps, Goto(Main, step) PROVE pc'[Main] = step /\ Alone(Main)'
  BY <1>1, <1>2, Moved, ConstantFacts DEF Inv
<1>3. UNCHANGED <<tmp, backup, cached, keyring, life, pw, conn, cuts>>
  BY DEF Screen, Replace, Admit, Tidy, RollBack, EndRestore, secrets, history, request
<1>4. ASSUME pc'[Main] \in {"idle"} \cup Restoring
      PROVE  Phase(Main)' /\ KnowsMigrating(Main)' /\ KnowsOpening(Main)'
  BY <1>1, <1>3, <1>4
     DEF Phase, KnowsMigrating, KnowsOpening, Migrating, MigrationSteps, Restoring
<1>5. ASSUME pc'[Main] \in {"idle"} \cup Restoring, Own(Main)' # None,
             RunsOf(Own(Main)') = RunsOf(Own(Main)), Own(Main)'.key = Own(Main).key,
             owed' = owed
      PROVE  KnowsCached(Main)' /\ Kept(Main)' /\ InKeyring(Main)'
  <2>1. KnowsCached(Main)'
    BY <1>1, <1>3, <1>5 DEF Inv, KnowsCached, OpenedBy
  <2>2. Kept(Main)'
    BY <1>1, <1>3, <1>5 DEF Inv, Kept, Stored, Encrypted, Restoring
  <2>3. InKeyring(Main)'
    BY <1>1, <1>3, <1>5 DEF Inv, InKeyring, Encrypted, Restoring
  <2> QED
    BY <2>1, <2>2, <2>3
<1>6. CASE Screen
  <2>1. pc[Main] = "screen" /\ db' = db /\ owed' = owed /\ Own(Main) = db
    BY <1>6 DEF Screen, Own, history
  <2>2. CASE arg.key = Plain /\ Encrypted(db)
    <3>1. pc'[Main] = "idle" /\ Alone(Main)'
      BY <1>2, <1>6, <2>2 DEF Screen, Steps
    <3>2. Own(Main)' = db
      BY <2>1, <3>1 DEF Own
    <3> QED
      BY <1>1, <1>4, <1>5, <2>1, <3>1, <3>2 DEF Inv, KnowsRestoring, Restoring
  <2>3. CASE ~(arg.key = Plain /\ Encrypted(db))
    <3>1. pc'[Main] = "replace" /\ Alone(Main)' /\ pre' = db /\ undo' = TRUE /\ arg' = arg
      BY <1>1, <1>2, <1>6, <2>1, <2>3 DEF Screen, Steps
    <3>2. Own(Main)' = db /\ Own(Main)' = Own(Main)
      BY <2>1, <3>1 DEF Own
    <3>3. KnowsRestoring(Main)'
      BY <1>1, <1>3, <2>1, <2>3, <3>1, <3>2 DEF KnowsRestoring, Encrypted
    <3> QED
      BY <1>1, <1>4, <1>5, <2>1, <3>1, <3>2, <3>3 DEF Inv, Restoring
  <2> QED
    BY <2>2, <2>3
<1>7. CASE Replace
  <2>1. /\ pc[Main] = "replace" /\ db' = arg /\ owed' = owed /\ Own(Main) = db
        /\ pre' = pre /\ arg' = arg /\ undo' = undo
    BY <1>7 DEF Replace, Own, history, request
  <2>2. pc'[Main] = "admit" /\ Alone(Main)'
    BY <1>2, <1>7 DEF Replace, Steps
  <2>3. Own(Main)' = pre /\ pre = Own(Main)
    BY <2>1, <2>2 DEF Own, Inv, KnowsRestoring
  <2>4. KnowsRestoring(Main)'
    BY <1>1, <1>3, <2>1, <2>2, <2>3 DEF Inv, KnowsRestoring
  <2> QED
    BY <1>1, <1>4, <1>5, <2>1, <2>2, <2>3, <2>4 DEF Inv, Restoring
<1>8. CASE Admit
  <2>1. /\ pc[Main] = "admit" /\ Own(Main) = pre /\ db = arg /\ undo /\ pre # None
        /\ arg.key = Plain => pre.key = Plain
        /\ arg \in File /\ arg # None
        /\ pre' = pre /\ arg' = arg /\ undo' = undo
    BY <1>8, ConstantFacts DEF Admit, Own, Inv, KnowsRestoring, TypeInv, ArgFits, request
  <2>2. CASE ~Opens(db, cached)
    <3>1. pc'[Main] = "roll_back" /\ Alone(Main)' /\ db' = db /\ owed' = owed
      BY <1>2, <1>8, <2>2 DEF Admit, Steps
    <3>2. Own(Main)' = pre
      BY <2>1, <3>1 DEF Own
    <3>3. KnowsRestoring(Main)'
      BY <1>1, <1>3, <2>1, <3>1, <3>2 DEF KnowsRestoring
    <3> QED
      BY <1>1, <1>4, <1>5, <2>1, <3>1, <3>2, <3>3 DEF Inv, Restoring
  <2>3. CASE Opens(db, cached)
    <3>1. /\ pc'[Main] = "tidy" /\ Alone(Main)' /\ owed' = arg.runs
          /\ db' = [arg EXCEPT !.tables = TRUE]
      BY <1>2, <1>8, <2>1, <2>3 DEF Admit, Steps, Connected
    <3>2. db' # None /\ db'.key = arg.key /\ RunsOf(db') = arg.runs /\ Own(Main)' = db'
      <4>1. db' \in File
        BY <2>1, <3>1, FileFields
      <4>2. db'.key = arg.key /\ db'.runs = arg.runs
        BY <2>1, <3>1 DEF File
      <4> QED
        BY <3>1, <4>1, <4>2, FileFields DEF Own
    <3>3. IF cached = None THEN db'.key = Plain ELSE db'.key = cached /\ pre.key = cached
      BY <1>1, <2>1, <2>3, <3>2, FileFields, ConstantFacts, Typed DEF Opens, OpenedBy
    <3>4. KnowsRestoring(Main)'
      BY <1>3, <3>1, <3>2, <3>3 DEF KnowsRestoring
    <3>5. KnowsCached(Main)'
      BY <1>3, <3>2, <3>3 DEF Inv, KnowsCached, OpenedBy
    <3>6. Kept(Main)'
      BY <1>3, <2>1, <3>1, <3>2 DEF Inv, Kept, Stored, Encrypted
    <3>7. InKeyring(Main)'
      BY <1>1, <1>3, <2>1, <3>1, <3>2, <3>3 DEF Inv, InKeyring, Encrypted
    <3> QED
      BY <1>4, <3>1, <3>4, <3>5, <3>6, <3>7 DEF Inv, Restoring
  <2> QED
    BY <2>2, <2>3
<1>9. CASE Tidy \/ RollBack
  <2>1. pc'[Main] = "idle" /\ Alone(Main)' /\ owed' = owed
    BY <1>2, <1>9 DEF Tidy, RollBack, EndRestore, Steps, history
  <2>2. Own(Main)' = Own(Main)
    <3>1. CASE Tidy
      BY <2>1, <3>1 DEF Own, Tidy
    <3>2. CASE RollBack
      BY <2>1, <3>2 DEF Own, RollBack, Inv, KnowsRestoring
    <3> QED
      BY <1>9, <3>1, <3>2
  <2>3. KnowsRestoring(Main)'
    BY <2>1 DEF KnowsRestoring, Restoring
  <2> QED
    BY <1>1, <1>4, <1>5, <2>1, <2>2, <2>3 DEF Inv
<1> QED
  BY <1>6, <1>7, <1>8, <1>9

-----------------------------------------------------------------------------
(* A request begins when no other is under way. *)
LEMMA UnlockBegins ==
  ASSUME TypeInv, OneAtATime, NEW t \in Threads, Inv(t), NEW p \in Passwords, Unlock(t, p)
  PROVE  Inv(t)'
<1>1. /\ TypeOK /\ t \in Actors /\ t # Main /\ pc[t] = "idle" /\ life = "up" /\ conn = "none"
      /\ p # None /\ p # Plain
  BY ConstantFacts DEF TypeInv, Unlock, Begins, Inv, Phase
<1>2. /\ OpenedBy(db, cached) /\ pw'[t] = p
      /\ UNCHANGED <<files, keyring, life, request, history>>
  BY <1>1, Typed DEF Unlock, Inv, KnowsCached, Own, Opening
<1>3. ASSUME NEW step \in Steps, Goto(t, step) PROVE pc'[t] = step /\ Alone(t)'
  BY <1>1, <1>3, Moved DEF Inv
<1>4. /\ pc'[t] = IF db = None THEN "keyring" ELSE IF Encrypted(db) THEN "try" ELSE "migrate"
      /\ Alone(t)' /\ cached' = IF db = None THEN p ELSE cached
  BY <1>3 DEF Unlock, Steps
<1>5. Phase(t)' /\ KnowsRestoring(t)'
  BY <1>1, <1>2, <1>4 DEF Phase, KnowsRestoring, Opening, Migrating, Restoring, request
<1>6. KnowsMigrating(t)' /\ KnowsOpening(t)'
  BY <1>1, <1>2, <1>4, Typed, ConstantFacts
     DEF KnowsMigrating, KnowsOpening, OpenedBy, Encrypted, Migrating, MigrationSteps, files
<1>7. KnowsCached(t)' /\ Kept(t)'
  BY <1>1, <1>2, <1>4
     DEF Inv, KnowsCached, OpenedBy, Kept, Stored, Own, Opening, files, history
<1>8. InKeyring(t)'
  BY <1>1, <1>2, <1>4 DEF Inv, InKeyring, Own, Encrypted, files, history
<1> QED
  BY <1>4, <1>5, <1>6, <1>7, <1>8 DEF Inv

LEMMA MainBegins ==
  ASSUME TypeInv, OneAtATime, Inv(Main),
         \/ \E p \in Passwords : Rotate(p)
         \/ \E r \in Runs : Save(r)
         \/ \E u \in Uploads : Restore(u)
  PROVE  Inv(Main)'
<1>1. /\ TypeOK /\ Main \in Actors /\ pc[Main] = "idle" /\ life = "up" /\ conn = "none"
      /\ UNCHANGED <<tmp, backup, pre, cached, keyring, life, conn, undo, history>>
  BY ConstantFacts DEF TypeInv, Rotate, Save, Restore, Begins, Inv, Phase, files, secrets, request
<1>2. OpenedBy(db, cached) /\ Own(Main) = db
  BY <1>1 DEF Inv, KnowsCached, Own, Opening
<1>3. ASSUME NEW step \in Steps, Goto(Main, step) PROVE pc'[Main] = step /\ Alone(Main)'
  BY <1>1, <1>3, Moved DEF Inv
<1>4. CASE \E p \in Passwords : Rotate(p)
  <2>1. PICK p \in Passwords : Rotate(p)
    BY <1>4
  <2>2. /\ pc'[Main] = "cache" /\ Alone(Main)' /\ pw'[Main] = p /\ p # Plain
        /\ cached # None /\ db # None /\ db \in File /\ Encrypted(db)
    BY <1>1, <1>2, <1>3, <2>1, Typed, ConstantFacts DEF Rotate, OpenedBy, Steps, Encrypted
  <2>3. /\ db' # None /\ db'.key = p /\ RunsOf(db') = RunsOf(db)
    <3>1. db' = [db EXCEPT !.key = p]
      BY <2>1, <2>2 DEF Rotate, Connected
    <3>2. db' \in File /\ db'.key = p /\ db'.runs = db.runs
      BY <2>2, <3>1, FileFields DEF File
    <3> QED
      BY <2>2, <3>2, FileFields
  <2>4. /\ Phase(Main)' /\ KnowsMigrating(Main)' /\ KnowsOpening(Main)'
        /\ KnowsRestoring(Main)' /\ KnowsCached(Main)'
    BY <1>1, <2>2, <2>3 DEF Inv, Phase, KnowsMigrating, KnowsOpening, KnowsRestoring, KnowsCached,
       Opening, Migrating, MigrationSteps, Restoring
  <2>5. Kept(Main)' /\ InKeyring(Main)'
    BY <1>1, <2>2, <2>3 DEF Inv, Kept, Stored, Own, Encrypted, InKeyring, history
  <2> QED
    BY <2>2, <2>4, <2>5 DEF Inv
<1>5. CASE (\E r \in Runs : Save(r)) \/ (\E u \in Uploads : Restore(u))
  <2>1. /\ pc'[Main] \in {"open", "screen"} /\ Alone(Main)' /\ db' = db /\ pw' = pw /\ ~Locked
    BY <1>3, <1>5 DEF Save, Restore, Steps, files
  <2>2. db # None /\ (cached = None => db.key = Plain) /\ Own(Main)' = db
    BY <1>2, <2>1 DEF Locked, OpenedBy, Encrypted, Own
  <2>3. /\ Phase(Main)' /\ KnowsMigrating(Main)' /\ KnowsOpening(Main)'
        /\ KnowsRestoring(Main)' /\ KnowsCached(Main)'
    BY <1>1, <1>2, <2>1, <2>2 DEF Inv, Phase, KnowsMigrating, KnowsOpening, KnowsRestoring,
       KnowsCached, Opening, OpenedBy, Migrating, MigrationSteps, Restoring
  <2>4. Kept(Main)' /\ InKeyring(Main)'
    BY <1>1, <1>2, <2>1, <2>2 DEF Inv, Kept, Stored, Encrypted, InKeyring, history
  <2> QED
    BY <2>1, <2>3, <2>4 DEF Inv
<1> QED
  BY <1>4, <1>5

LEMMA StartInv ==
  ASSUME TypeInv, Inv(Main), Start
  PROVE  Inv(Main)'
<1>1. /\ TypeOK /\ Main \in Actors /\ pc[Main] = "idle" /\ conn = "none" /\ Own(Main) = db
      /\ UNCHANGED <<files, keyring, request, history>>
      /\ pw'[Main] = StartPassword /\ StartPassword \in Passwords \cup {None}
      /\ EnvPassword = None => StartPassword = keyring
  BY ConstantFacts, Typed DEF TypeInv, Start, Idle, Inv, Phase, Own, StartPassword
<1>2. ASSUME NEW step \in Steps, Goto(Main, step) PROVE pc'[Main] = step /\ Alone(Main)'
  BY <1>1, <1>2, Moved DEF Inv
<1>3. Alone(Main)' /\ pc'[Main] \in {"idle", "init_db", "migrate"}
  BY <1>2 DEF Start, Steps
<1>4. /\ KnowsRestoring(Main)'
      /\ pc'[Main] # "migrate" => KnowsMigrating(Main)'
      /\ pc'[Main] # "init_db" => KnowsOpening(Main)'
  BY <1>3 DEF KnowsMigrating, KnowsOpening, KnowsRestoring, Migrating, MigrationSteps, Restoring
<1>5. Kept(Main)'
  BY <1>1, <1>3 DEF Inv, Kept, Stored, Own, files, history
<1>6. CASE db # None /\ db.key = Plain
  <2>1. /\ pc'[Main] = IF StartPassword = None THEN "init_db" ELSE "migrate"
        /\ cached' = None /\ life' = "starting"
    BY <1>2, <1>6 DEF Start, Steps, Encrypted
  <2>2. Phase(Main)' /\ KnowsMigrating(Main)' /\ KnowsOpening(Main)' /\ KnowsCached(Main)'
    BY <1>1, <1>4, <1>6, <2>1 DEF Inv, Phase, KnowsMigrating, KnowsOpening, KnowsCached,
       Migrating, MigrationSteps, files, request
  <2>3. InKeyring(Main)'
    BY <1>1, <1>3, <1>6, <2>1 DEF InKeyring, Own, Encrypted, files
  <2> QED
    BY <1>3, <1>4, <1>5, <2>2, <2>3 DEF Inv
<1>7. CASE ~(db # None /\ db.key = Plain)
  <2>1. /\ pc'[Main] = IF StartPassword = None THEN "idle" ELSE "init_db"
        /\ cached' = StartPassword
        /\ life' = IF StartPassword = None THEN "up" ELSE "starting"
    BY <1>2, <1>7 DEF Start, Steps, Encrypted
  <2>2. Phase(Main)' /\ KnowsMigrating(Main)' /\ KnowsOpening(Main)' /\ KnowsCached(Main)'
    BY <1>1, <1>4, <1>7, <2>1 DEF Inv, Phase, KnowsOpening, KnowsCached, OpenedBy, Encrypted,
       files, request
  <2>3. InKeyring(Main)'
    BY <1>1, <1>3, <2>1 DEF Inv, InKeyring, Own, files, history
  <2> QED
    BY <1>3, <1>4, <1>5, <2>2, <2>3 DEF Inv
<1> QED
  BY <1>6, <1>7

(* Whenever the process ends. *)
LEMMA EndInv ==
  ASSUME TypeInv, NEW a \in Actors, Inv(a), Stop \/ Die
  PROVE  Inv(a)'
<1>1. /\ TypeOK /\ Vanish /\ \A b \in Actors : pc'[b] = "idle"
      /\ UNCHANGED <<files, keyring, owed>> /\ cached' = None /\ life' = "down" /\ conn' = "none"
  BY DEF TypeInv, Stop, Die, Vanish
<1>2. \A S : "idle" \notin S => (At(S) <=> pc[a] \in S)
  BY DEF At, Inv, Alone
<1>3. /\ "restore" \in cuts \/ pc[a] \in {"admit", "roll_back"} => "restore" \in cuts'
      /\ "password" \in cuts => "password" \in cuts'
      /\ life = "up" /\ pc[a] \in {"cache", "keyring"} => "password" \in cuts'
      /\ "restore" \in cuts' => "restore" \in cuts \/ pc[a] \in {"admit", "roll_back"}
      /\ "swap" \in cuts' <=> "swap" \in cuts \/ pc[a] = "move_in"
  <2>1. CASE Stop
    BY <2>1 DEF Stop, Idle
  <2>2. CASE Die
    BY <1>2, <2>2 DEF Die
  <2> QED
    BY <2>1, <2>2
<1>4. Alone(a)' /\ Phase(a)' /\ KnowsMigrating(a)' /\ KnowsOpening(a)' /\ KnowsRestoring(a)'
  BY <1>1 DEF Alone, Phase, KnowsMigrating, KnowsOpening, KnowsRestoring, Migrating,
     MigrationSteps, Restoring
<1>5. KnowsCached(a)'
  BY <1>1 DEF Inv, KnowsCached, files
<1>6. pc[a] = "move_in" => db = None
  BY DEF Inv, KnowsMigrating, Migrating, MigrationSteps
<1>7. Kept(a)'
  BY <1>1, <1>3, <1>6 DEF Inv, Kept, Own, Stored, RunsOf, files
<1>8. InKeyring(a)'
  BY <1>1, <1>3 DEF Inv, InKeyring, Own, files
<1> QED
  BY <1>4, <1>5, <1>7, <1>8 DEF Inv

-----------------------------------------------------------------------------
LEMMA InitInv == Init => VaultInv
<1> SUFFICES ASSUME Init PROVE VaultInv
  OBVIOUS
<1>1. /\ pc[Main] = "idle" /\ Alone(Main) /\ Own(Main) = db /\ cached = None /\ tmp = None
      /\ life = "down" /\ conn = "none" /\ cuts = {}
  BY ConstantFacts DEF Init, Alone, Own
<1>2. owed = RunsOf(db)
  BY DEF Init, RunsOf
<1>3. Phase(Main) /\ KnowsMigrating(Main) /\ KnowsOpening(Main) /\ KnowsRestoring(Main)
  BY <1>1 DEF Phase, KnowsMigrating, KnowsOpening, KnowsRestoring, Migrating, MigrationSteps, Restoring
<1>4. KnowsCached(Main) /\ Kept(Main)
  BY <1>1, <1>2 DEF KnowsCached, Kept, Stored
<1>5. InKeyring(Main)
  BY <1>1 DEF InKeyring, Init
<1> QED
  BY <1>1, <1>3, <1>4, <1>5, InitTyped, ConstantFacts DEF VaultInv, Inv

LEMMA NextInv == OneAtATime /\ VaultInv /\ [Next]_vars => VaultInv'
<1> SUFFICES ASSUME OneAtATime, VaultInv, [Next]_vars PROVE VaultInv'
  OBVIOUS
<1>1. TypeInv /\ TypeInv' /\ TypeOK
  BY NextTyped DEF VaultInv, TypeInv
<1>2. PICK a \in Actors : Inv(a)
  BY DEF VaultInv
<1>3. ASSUME Idle, NEW b \in Actors PROVE Inv(b)
  BY <1>2, <1>3, Idles DEF Idle
<1>4. CASE Stop \/ Die
  BY <1>1, <1>2, <1>4, EndInv DEF VaultInv
<1>5. CASE Start
  BY <1>1, <1>3, <1>5, StartInv, ConstantFacts DEF VaultInv, Start
<1>6. CASE Ask
  <2>1. ASSUME NEW t \in Threads, NEW p \in Passwords, Unlock(t, p) PROVE VaultInv'
    BY <1>1, <1>3, <2>1, BeginsIdle, UnlockBegins, ConstantFacts DEF VaultInv, Unlock
  <2>2. ASSUME \/ \E p \in Passwords : Rotate(p)
               \/ \E r \in Runs : Save(r)
               \/ \E u \in Uploads : Restore(u)
        PROVE VaultInv'
    <3>1. Idle
      BY <1>1, <2>2, BeginsIdle, ConstantFacts DEF Rotate, Save, Restore
    <3> QED
      BY <1>1, <1>3, <2>2, <3>1, MainBegins, ConstantFacts DEF VaultInv
  <2> QED
    BY <1>6, <2>1, <2>2 DEF Ask
<1>7. CASE \E b \in Actors : Step(b)
  <2>1. Step(a)
    BY <1>1, <1>2, <1>7, StepIsOwn
  <2>2. Inv(a)'
    BY <1>1, <1>2, <2>1, InitDbInv, UnlockInv, MigrationInv, MigrationFailsInv, SaveInv, RestoreInv
       DEF Step
  <2> QED
    BY <1>1, <2>2 DEF VaultInv
<1>8. CASE UNCHANGED vars
  <2>1. UNCHANGED <<db, tmp, backup, pre, cached, keyring, life, pc, pw, arg, conn, undo, owed, cuts>>
    BY <1>8 DEF vars, files, secrets, request, history
  <2>2. Inv(a)'
    BY <1>2, <2>1 DEF Inv, Alone, Phase, KnowsMigrating, KnowsOpening, KnowsRestoring, KnowsCached,
       Kept, InKeyring, Own, OpenedBy, Stored, RunsOf, Encrypted
  <2> QED
    BY <1>1, <2>2 DEF VaultInv
<1> QED
  BY <1>4, <1>5, <1>6, <1>7, <1>8 DEF Next

(* One request at a time, the invariant holds of every run.                *)
THEOREM Invariant == OneAtATime /\ Spec => []VaultInv
<1> SUFFICES ASSUME OneAtATime PROVE Spec => []VaultInv
  OBVIOUS
<1>1. VaultInv /\ [Next]_vars => VaultInv'
  BY NextInv
<1> QED
  BY <1>1, InitInv, PTL DEF Spec

-----------------------------------------------------------------------------
(* What the invariant shows. *)
LEMMA ShowsKept == VaultInv => KeptSomewhere
<1> SUFFICES ASSUME VaultInv, "restore" \notin cuts
             PROVE  owed \subseteq RunsOf(db) \cup RunsOf(backup) \cup RunsOf(pre)
  BY DEF KeptSomewhere
<1>1. PICK a \in Actors : Inv(a)
  BY DEF VaultInv
<1>2. CASE pc[a] = "move_in"
  BY <1>1, <1>2 DEF Inv, Kept
<1>3. CASE pc[a] # "move_in"
  <2>1. Stored(Own(a))
    BY <1>1, <1>3 DEF Inv, Kept
  <2> QED
    BY <2>1 DEF Stored, Own
<1> QED
  BY <1>2, <1>3

LEMMA ShowsIdle == VaultInv => NothingHidden /\ CachedOpens
<1> SUFFICES ASSUME VaultInv, life = "up", Idle
             PROVE  /\ cuts \cap {"swap", "restore"} = {} => owed \subseteq RunsOf(db)
                    /\ cached # None => db # None /\ db.key = cached
  BY DEF NothingHidden, CachedOpens
<1>1. PICK a \in Actors : Inv(a)
  BY DEF VaultInv
<1>2. pc[a] = "idle" /\ Own(a) = db
  BY DEF Idle, Own
<1>3. cuts \cap {"swap", "restore"} = {} => owed \subseteq RunsOf(db)
  BY <1>1, <1>2 DEF Inv, Kept, Stored
<1>4. cached # None => db # None /\ db.key = cached
  BY <1>1, <1>2 DEF Inv, KnowsCached, OpenedBy, Opening
<1> QED
  BY <1>3, <1>4

LEMMA ShowsKeyring == EnvPassword = None /\ VaultInv => KeyringOpens
<1> SUFFICES ASSUME EnvPassword = None, VaultInv, Idle, keyring # None, Encrypted(db),
                    cuts \cap {"restore", "password"} = {}
             PROVE  keyring = db.key
  BY DEF KeyringOpens
<1>1. PICK a \in Actors : Inv(a)
  BY DEF VaultInv
<1>2. pc[a] = "idle" /\ Own(a) = db
  BY DEF Idle, Own
<1> QED
  BY <1>1, <1>2 DEF Inv, InKeyring

(* No step of the request under way puts a plaintext file in the place of  *)
(* an encrypted one.                                                       *)
LEMMA StepKeepsKey ==
  ASSUME VaultInv, Encrypted(db), undo => Encrypted(pre),
         NEW a \in Actors, Step(a), db' # None
  PROVE  Encrypted(db')
<1>1. PICK b \in Actors : Inv(b)
  BY DEF VaultInv
<1>2. TypeOK /\ db # None /\ db \in File /\ db.key # Plain
  BY Typed DEF VaultInv, TypeInv, Encrypted
<1>3. a = b
  BY <1>1, <1>2, StepIsOwn
<1>4. \A p \in Passwords \cup {None} : Connected(db, p) = db
  BY <1>2, FileTypes
<1>5. cached \in Passwords \cup {None} /\ pw[a] \in Passwords \cup {None} /\ None \in Passwords \cup {None}
  BY <1>2, Typed
<1>6. Inv(a)
  BY <1>1, <1>3
<1>7. Connected(db, cached) = db /\ Connected(db, None) = db /\ Connected(db, pw[a]) = db
  BY <1>4, <1>5
<1>8. /\ [db EXCEPT !.tables = TRUE].key = db.key
      /\ [db EXCEPT !.runs = @ \cup {arg}].key = db.key
  BY <1>2 DEF File
<1>9. ASSUME InitDb(a) PROVE Encrypted(db')
  BY <1>9, <1>2, <1>7, <1>8 DEF InitDb, Encrypted
<1>10. ASSUME Cache(a) \/ StorePassword(a) \/ KeyringFails(a) \/ Migrate(a)
              \/ Check(a) \/ DropBackup(a)
       PROVE  Encrypted(db')
  BY <1>10, <1>2 DEF Cache, StorePassword, KeyringFails, Migrate, Check, DropBackup, files, Encrypted
<1>11. ASSUME Count(a) \/ Export(a) \/ MigrationFails(a) PROVE Encrypted(db')
  BY <1>11, <1>2, <1>7 DEF Count, Export, MigrationFails, Encrypted
<1>12. ASSUME MoveAway(a) \/ MoveIn(a) PROVE Encrypted(db')
  <2>1. pc[a] \in Migrating
    BY <1>12 DEF MoveAway, MoveIn, Migrating, MigrationSteps
  <2>2. ~ MoveIn(a)
    BY <1>2, <1>6 DEF MoveIn, Inv, KnowsMigrating, Migrating, MigrationSteps
  <2> QED
    BY <1>12, <2>2 DEF MoveAway
<1>13. ASSUME OpenStore \/ CommitRun \/ TryPassword(a) PROVE Encrypted(db')
  BY <1>13, <1>2, <1>7, <1>8 DEF OpenStore, CommitRun, TryPassword, Encrypted
<1>14. ASSUME Screen \/ Tidy PROVE Encrypted(db')
  BY <1>14, <1>2 DEF Screen, Tidy, Encrypted
<1>15. ASSUME a = Main, Replace PROVE Encrypted(db')
  <2>1. pre = db /\ (arg.key = Plain => pre.key = Plain)
    BY <1>6, <1>15 DEF Replace, Inv, KnowsRestoring
  <2> QED
    BY <1>15, <1>2, <2>1 DEF Replace, Encrypted
<1>16. ASSUME Admit PROVE Encrypted(db')
  BY <1>16, <1>2, <1>7, <1>8 DEF Admit, Encrypted
<1>17. ASSUME RollBack PROVE Encrypted(db')
  BY <1>17, <1>2 DEF RollBack, Encrypted
<1> QED
  BY <1>9, <1>10, <1>11, <1>12, <1>13, <1>14, <1>15, <1>16, <1>17 DEF Step

LEMMA NextKeepsKey ==
  ASSUME VaultInv, [Next]_vars, Encrypted(db), undo => Encrypted(pre), db' # None
  PROVE  Encrypted(db')
<1>1. TypeOK /\ db # None /\ db \in File /\ db.key # Plain
  BY Typed DEF VaultInv, TypeInv, Encrypted
<1>2. CASE Start \/ Stop \/ Die
  BY <1>1, <1>2 DEF Start, Stop, Die, Vanish, files, Encrypted
<1>3. ASSUME NEW p \in Passwords, Rotate(p) PROVE Encrypted(db')
  <2>1. Connected(db, cached) = db
    BY <1>1, Typed, FileTypes
  <2>2. db'.key = p
    BY <1>1, <1>3, <2>1 DEF Rotate, File
  <2> QED
    BY <2>2, ConstantFacts DEF Encrypted
<1>4. CASE Ask
  BY <1>1, <1>3, <1>4 DEF Ask, Unlock, Save, Restore, files, Encrypted
<1>5. CASE \E a \in Actors : Step(a)
  BY <1>5, StepKeepsKey
<1>6. CASE UNCHANGED vars
  BY <1>1, <1>6 DEF vars, files, Encrypted
<1> QED
  BY <1>2, <1>4, <1>5, <1>6 DEF Next

-----------------------------------------------------------------------------
(* One request at a time: whatever dies or fails, every run the user was   *)
(* told is stored is in the database, in the backup of the migration or in *)
(* the copy a restore made, unless a restore was cut short                 *)
(* (encryption.py:709-713, import_export.py:330-362).                      *)
THEOREM RunsAreKept == OneAtATime /\ Spec => []KeptSomewhere
BY Invariant, ShowsKept, PTL

(* One request at a time: a server that is up and at rest shows every such *)
(* run, unless one of the two swaps of the file was cut.                   *)
THEOREM RunsAreShown == OneAtATime /\ Spec => []NothingHidden
BY Invariant, ShowsIdle, PTL

(* One request at a time: the password in memory opens the database        *)
(* (db_state.py:133-140).                                                  *)
THEOREM CachedPasswordOpens == OneAtATime /\ Spec => []CachedOpens
BY Invariant, ShowsIdle, PTL

(* One request at a time and no password in the environment: the keyring's *)
(* password is the database's, unless the write of it failed or never came *)
(* (encryption.py:206-208).                                                *)
THEOREM KeyringPasswordOpens ==
  OneAtATime /\ EnvPassword = None /\ Spec => []KeyringOpens
<1> SUFFICES ASSUME OneAtATime, EnvPassword = None PROVE Spec => []KeyringOpens
  OBVIOUS
<1>1. VaultInv => KeyringOpens
  BY ShowsKeyring
<1>2. Spec => []VaultInv
  BY Invariant
<1> QED
  BY <1>1, <1>2, PTL

(* One request at a time: a plaintext file never takes the place of the    *)
(* encrypted database (import_export.py:288-300).                          *)
THEOREM StaysEncrypted == OneAtATime /\ Spec => NeverDowngraded
<1>1. VaultInv /\ [Next]_vars =>
        [(Encrypted(db) /\ (undo => Encrypted(pre)) /\ db' # None) => Encrypted(db')]_vars
  BY NextKeepsKey
<1> QED
  BY <1>1, Invariant, PTL DEF Spec, NeverDowngraded

=============================================================================
