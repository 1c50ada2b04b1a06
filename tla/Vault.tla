------------------------------- MODULE Vault -------------------------------
(***************************************************************************)
(* The database file and its encryption: startup of app/route_helpers/     *)
(* db_state.py, the unlock and rotate-key pages of routes/encryption.py    *)
(* with the migration of app/services/encryption.py, restore_database of   *)
(* app/routes/import_export.py, and a save as far as it opens and writes   *)
(* the file.  Encryption is enabled.                                       *)
(*                                                                         *)
(* Saving, rotating and restoring run on the event loop, which with the    *)
(* startup before it is the actor Main; each POST /unlock has a thread.    *)
(* Rows are runs; a write-ahead log is empty between two connections and   *)
(* is not modelled.                                                        *)
(***************************************************************************)
EXTENDS Integers, FiniteSets

CONSTANTS Runs, Passwords,
          Uploads,      \* the files a user may restore
          Threads,      \* for unlock requests
          Kinds,        \* the requests that are made
          MaxActive,    \* requests under way at the same time
          MaxFaults,    \* deaths and failing steps
          EnvPassword,  \* TAX_COPILOT_DB_PASSWORD, or None
          None

Main == "main"
Actors == {Main} \cup Threads
Plain == "plain"
Unreadable == "unreadable"
NoTables == -1
File == [key : Passwords \cup {Plain, Unreadable}, runs : SUBSET Runs, tables : BOOLEAN]

ASSUME VaultAssumption ==
  /\ IsFiniteSet(Runs) /\ IsFiniteSet(Threads)
  /\ Main \notin Threads
  /\ Passwords \cap {Plain, Unreadable, None} = {} /\ None \notin {Plain, Unreadable}
  /\ Uploads \subseteq File /\ None \notin File
  /\ Kinds \subseteq {"unlock", "rotate", "save", "restore"}
  /\ MaxActive \in Nat /\ MaxFaults \in Nat
  /\ EnvPassword \in Passwords \cup {None}

VARIABLES
  db, tmp, backup, pre,  \* DB_PATH, .encrypted.tmp, .unencrypted.backup, .pre_restore_backup
  cached, keyring,       \* _cached_password, and the password in the OS keyring
  life,                  \* of the server
  pc, pw, counted,       \* of each actor: its next step, its password, source_counts
  arg,                   \* the run being saved or the file uploaded
  conn,                  \* which file a save's connection is to
  undo,                  \* backup_copy is not None
  owed,                  \* the runs the user was told are stored
  cuts, faults           \* which windows a death or failure has cut short; how many

files == <<db, tmp, backup, pre>>
secrets == <<cached, keyring>>
request == <<arg, conn, undo>>
history == <<owed, cuts, faults>>
vars == <<files, secrets, life, pc, pw, counted, request, history>>

Encrypted(f) == f # None /\ f.key # Plain
HasTables(f) == f # None /\ f.tables
RunsOf(f) == IF f = None THEN {} ELSE f.runs
Idle == \A a \in Actors : pc[a] = "idle"
Goto(a, step) == pc' = [pc EXCEPT ![a] = step]

(* Before the server meets encryption the store is absent, plaintext or
   encrypted under a password the keyring may know. *)
Init ==
  /\ db \in {None} \cup {[key |-> k, runs |-> S, tables |-> TRUE] :
                           k \in Passwords \cup {Plain}, S \in SUBSET Runs}
  /\ keyring \in IF Encrypted(db) THEN {None, db.key} ELSE {None} \cup Passwords
  /\ tmp = None /\ backup = None /\ pre = None
  /\ cached = None
  /\ life = "down"
  /\ pc = [a \in Actors |-> "idle"]
  /\ pw = [a \in Actors |-> None]
  /\ counted = [a \in Actors |-> NoTables]
  /\ arg = None /\ conn = "none" /\ undo = FALSE
  /\ owed = IF db = None THEN {} ELSE db.runs
  /\ cuts = {}
  /\ faults = 0

-----------------------------------------------------------------------------
(* get_connection and create_connection.  Connecting to a file that is not
   there creates it, without tables. *)
Blank(key) == [key |-> key, runs |-> {}, tables |-> FALSE]
Connected(f, p) == IF f = None THEN Blank(IF p = None THEN Plain ELSE p) ELSE f
Opens(f, p) == f # None => f.key \in {Plain, p}

(* How a request, or the startup, ends.  An exception in the startup ends
   the server. *)
Succeed(a) ==
  /\ Goto(a, "idle")
  /\ life' = IF life = "starting" THEN "up" ELSE life
  /\ cached' = cached

Fail(a) ==
  /\ Goto(a, "idle")
  /\ life' = IF life = "starting" THEN "failed" ELSE life
  /\ cached' = IF life = "starting" THEN None ELSE cached

-----------------------------------------------------------------------------
(* startup *)

StartPassword == IF EnvPassword # None THEN EnvPassword ELSE keyring

Start ==
  /\ life \in {"down", "failed"}
  /\ Idle
  /\ life' = IF StartPassword = None /\ (db = None \/ Encrypted(db)) THEN "up" ELSE "starting"
  /\ pw' = [pw EXCEPT ![Main] = StartPassword]
  /\ IF db # None /\ db.key = Plain
       THEN Goto(Main, IF StartPassword = None THEN "init_db" ELSE "migrate") /\ cached' = None
       ELSE /\ Goto(Main, IF StartPassword = None THEN "idle" ELSE "init_db")
            /\ cached' = StartPassword
  /\ UNCHANGED <<files, keyring, counted, request, history>>

(* init_db: SchemaInit has its steps. *)
InitDb(a) ==
  /\ pc[a] = "init_db"
  /\ IF Opens(db, cached)
       THEN db' = [Connected(db, cached) EXCEPT !.tables = TRUE] /\ Succeed(a)
       ELSE db' = db /\ Fail(a)
  /\ UNCHANGED <<tmp, backup, pre, keyring, pw, counted, request, history>>

-----------------------------------------------------------------------------
(* unlock_submit *)

Begins(a, kind) ==
  /\ kind \in Kinds
  /\ life = "up"
  /\ pc[a] = "idle"
  /\ Cardinality({b \in Actors : pc[b] # "idle"}) < MaxActive

Unlock(t, p) ==
  /\ Begins(t, "unlock")
  /\ pw' = [pw EXCEPT ![t] = p]
  /\ IF db = None
       THEN cached' = p /\ Goto(t, "keyring")
       ELSE cached' = cached /\ Goto(t, IF Encrypted(db) THEN "try" ELSE "migrate")
  /\ UNCHANGED <<files, keyring, life, counted, request, history>>

(* conn = get_connection(password=password) *)
TryPassword(t) ==
  /\ pc[t] = "try"
  /\ db' = Connected(db, pw[t])
  /\ Goto(t, IF Opens(db, pw[t]) THEN "cache" ELSE "idle")
  /\ UNCHANGED <<tmp, backup, pre, secrets, life, pw, counted, request, history>>

\* bug: the cache keeps the password it had
CacheNothing(a) ==
  /\ pc[a] = "cache"
  /\ Goto(a, IF life = "starting" THEN "init_db" ELSE "keyring")
  /\ UNCHANGED <<files, secrets, life, pw, counted, request, history>>

(* The startup does not write the keyring. *)
Cache(a) ==
  /\ pc[a] = "cache"
  /\ cached' = pw[a]
  /\ Goto(a, IF life = "starting" THEN "init_db" ELSE "keyring")
  /\ UNCHANGED <<files, keyring, life, pw, counted, request, history>>

\* bug: the password is not remembered
SkipKeyring(a) ==
  /\ pc[a] = "keyring"
  /\ keyring' = keyring
  /\ Goto(a, IF a = Main THEN "idle" ELSE "init_db")
  /\ UNCHANGED <<files, cached, life, pw, counted, request, history>>

(* set_password_in_keyring; after rotate_key there is nothing more to do. *)
StorePassword(a) ==
  /\ pc[a] = "keyring"
  /\ keyring' = pw[a]
  /\ Goto(a, IF a = Main THEN "idle" ELSE "init_db")
  /\ UNCHANGED <<files, cached, life, pw, counted, request, history>>

(* It returns False, and nobody looks. *)
KeyringFails(a) ==
  /\ pc[a] = "keyring"
  /\ faults < MaxFaults /\ faults' = faults + 1
  /\ cuts' = cuts \cup {"password"}
  /\ Goto(a, IF a = Main THEN "idle" ELSE "init_db")
  /\ UNCHANGED <<files, secrets, life, pw, counted, request, owed>>

-----------------------------------------------------------------------------
(* migrate_to_encrypted and _migrate_to_sqlcipher *)

MigrationSteps == {"count", "export", "check", "drop", "move_away", "move_in"}

Migrate(a) ==
  /\ pc[a] = "migrate"
  /\ IF db # None /\ db.key = Plain
       THEN Goto(a, "count") /\ UNCHANGED <<life, cached>>
       ELSE Fail(a)
  /\ UNCHANGED <<files, keyring, pw, counted, request, history>>

(* What makes a step raise. *)
Blocked(a) ==
  CASE pc[a] = "count" -> Encrypted(db)
    [] pc[a] = "export" ->
         \/ Encrypted(db)
         \/ ~ Opens(tmp, pw[a])
         \/ HasTables(tmp) /\ HasTables(db)
    [] pc[a] = "check" ->
         \/ ~ Opens(tmp, pw[a])
         \/ /\ counted[a] # NoTables
            /\ ~ HasTables(tmp) \/ Cardinality(RunsOf(tmp)) # counted[a]
    [] pc[a] = "move_away" -> db = None
    [] pc[a] = "move_in" -> tmp = None
    [] OTHER -> FALSE

Count(a) ==
  /\ pc[a] = "count" /\ ~ Blocked(a)
  /\ db' = Connected(db, None)
  /\ counted' = [counted EXCEPT ![a] =
                   IF db'.tables THEN Cardinality(db'.runs) ELSE NoTables]
  /\ Goto(a, "export")
  /\ UNCHANGED <<tmp, backup, pre, secrets, life, pw, request, history>>

(* ATTACH and sqlcipher_export; a file left over is attached as it is. *)
Export(a) ==
  /\ pc[a] = "export" /\ ~ Blocked(a)
  /\ db' = Connected(db, None)
  /\ LET copy == Connected(tmp, pw[a])
     IN tmp' = [copy EXCEPT !.runs = @ \cup db'.runs, !.tables = @ \/ db'.tables]
  /\ Goto(a, "check")
  /\ UNCHANGED <<backup, pre, secrets, life, pw, counted, request, history>>

(* The row counts of the copy match. *)
Check(a) ==
  /\ pc[a] = "check" /\ ~ Blocked(a)
  /\ tmp' = Connected(tmp, pw[a])
  /\ Goto(a, "drop")
  /\ UNCHANGED <<db, backup, pre, secrets, life, pw, counted, request, history>>

(* A connection follows the file it was opened on. *)
Follow(from, to) == conn' = IF conn = from THEN to ELSE conn

DropBackup(a) ==
  /\ pc[a] = "drop"
  /\ backup' = None
  /\ Follow("backup", "gone")
  /\ Goto(a, "move_away")
  /\ UNCHANGED <<db, tmp, pre, secrets, life, pw, counted, arg, undo, history>>

\* bug: the original is deleted and not renamed
DeleteOriginal(a) ==
  /\ pc[a] = "move_away" /\ ~ Blocked(a)
  /\ backup' = backup /\ db' = None
  /\ Follow("db", "gone")
  /\ Goto(a, "move_in")
  /\ UNCHANGED <<tmp, pre, secrets, life, pw, counted, arg, undo, history>>

MoveAway(a) ==
  /\ pc[a] = "move_away" /\ ~ Blocked(a)
  /\ backup' = db /\ db' = None
  /\ Follow("db", "backup")
  /\ Goto(a, "move_in")
  /\ UNCHANGED <<tmp, pre, secrets, life, pw, counted, arg, undo, history>>

MoveIn(a) ==
  /\ pc[a] = "move_in" /\ ~ Blocked(a)
  /\ db' = tmp /\ tmp' = None
  /\ Follow("db", "gone")
  /\ Goto(a, "cache")
  /\ UNCHANGED <<backup, pre, secrets, life, pw, counted, arg, undo, history>>

\* bug: the temporary file stays
LeaveTemporary(a) ==
  /\ pc[a] \in MigrationSteps
  /\ Blocked(a)
  /\ Fail(a)
  /\ UNCHANGED <<files, keyring, pw, counted, request, history>>

(* except Exception: the temporary file goes, whoever wrote it. *)
MigrationFails(a) ==
  /\ pc[a] \in MigrationSteps
  /\ \/ Blocked(a) /\ UNCHANGED <<cuts, faults>>
     \/ /\ faults < MaxFaults /\ faults' = faults + 1
        /\ cuts' = IF pc[a] = "move_in" THEN cuts \cup {"swap"} ELSE cuts
  /\ tmp' = None
  /\ db' = IF pc[a] \in {"count", "export"} THEN Connected(db, None) ELSE db
  /\ Fail(a)
  /\ UNCHANGED <<backup, pre, keyring, pw, counted, request, owed>>

-----------------------------------------------------------------------------
(* rotate_key_submit: current_password equals the cached one. *)

\* bug: the key is the password of an earlier request
RotateToStale(new) ==
  /\ Begins(Main, "rotate")
  /\ cached # None /\ new # cached
  /\ db # None => db.key = cached
  /\ db' = [Connected(db, cached) EXCEPT !.key = pw[Main]]
  /\ Goto(Main, "cache")
  /\ UNCHANGED <<tmp, backup, pre, secrets, life, pw, counted, request, history>>

Rotate(new) ==
  /\ Begins(Main, "rotate")
  /\ cached # None /\ new # cached
  /\ db # None => db.key = cached
  /\ db' = [Connected(db, cached) EXCEPT !.key = new]
  /\ pw' = [pw EXCEPT ![Main] = new]
  /\ Goto(Main, "cache")
  /\ UNCHANGED <<tmp, backup, pre, secrets, life, counted, request, history>>

-----------------------------------------------------------------------------
(* calculate_submit and save_return_run *)

\* database_locked
Locked == (db = None \/ Encrypted(db)) /\ cached = None

Save(r) ==
  /\ Begins(Main, "save")
  /\ ~ Locked
  /\ r \notin owed
  /\ arg' = r
  /\ Goto(Main, "open")
  /\ UNCHANGED <<files, secrets, life, pw, counted, conn, undo, history>>

OpenStore ==
  /\ pc[Main] = "open"
  /\ db' = Connected(db, cached)
  /\ IF Opens(db, cached) /\ db'.tables
       THEN conn' = "db" /\ Goto(Main, "commit") /\ arg' = arg
       ELSE conn' = conn /\ Goto(Main, "idle") /\ arg' = None
  /\ UNCHANGED <<tmp, backup, pre, secrets, life, pw, counted, undo, history>>

(* The file may have been renamed since.  Whether the log of a renamed file
   reaches it is up to the build of SQLite. *)
CommitRun ==
  /\ pc[Main] = "commit"
  /\ LET stored(f) == [f EXCEPT !.runs = @ \cup {arg}]
     IN /\ db' = IF conn = "db" THEN stored(db) ELSE db
        /\ \/ backup' = backup
           \/ conn = "backup" /\ backup' = stored(backup)
  /\ owed' = owed \cup {arg}
  /\ arg' = None /\ conn' = "none"
  /\ Goto(Main, "idle")
  /\ UNCHANGED <<tmp, pre, secrets, life, pw, counted, undo, cuts, faults>>

-----------------------------------------------------------------------------
(* restore_database *)

Restore(u) ==
  /\ Begins(Main, "restore")
  /\ ~ Locked
  /\ arg' = u
  /\ Goto(Main, "screen")
  /\ UNCHANGED <<files, secrets, life, pw, counted, conn, undo, history>>

\* bug: a plaintext file is accepted whatever it replaces
ScreenNothing ==
  /\ pc[Main] = "screen"
  /\ pre' = IF db = None THEN pre ELSE db
  /\ undo' = (db # None)
  /\ Goto(Main, "replace") /\ arg' = arg
  /\ UNCHANGED <<db, tmp, backup, secrets, life, pw, counted, conn, history>>

(* A plaintext file does not replace an encrypted one; what is replaced is
   copied first. *)
Screen ==
  /\ pc[Main] = "screen"
  /\ IF arg.key = Plain /\ Encrypted(db)
       THEN /\ Goto(Main, "idle") /\ arg' = None
            /\ UNCHANGED <<pre, undo>>
       ELSE /\ pre' = IF db = None THEN pre ELSE db
            /\ undo' = (db # None)
            /\ Goto(Main, "replace") /\ arg' = arg
  /\ UNCHANGED <<db, tmp, backup, secrets, life, pw, counted, conn, history>>

Replace ==
  /\ pc[Main] = "replace"
  /\ db' = arg
  /\ Goto(Main, "admit")
  /\ UNCHANGED <<tmp, backup, pre, secrets, life, pw, counted, request, history>>

(* init_db decides whether the active password opens the file. *)
Admit ==
  /\ pc[Main] = "admit"
  /\ IF Opens(db, cached)
       THEN /\ db' = [Connected(db, cached) EXCEPT !.tables = TRUE]
            /\ owed' = arg.runs
            /\ Goto(Main, "tidy")
       ELSE Goto(Main, "roll_back") /\ UNCHANGED <<db, owed>>
  /\ UNCHANGED <<tmp, backup, pre, secrets, life, pw, counted, request, cuts, faults>>

EndRestore ==
  /\ arg' = None /\ undo' = FALSE
  /\ Goto(Main, "idle")
  /\ UNCHANGED <<tmp, backup, secrets, life, pw, counted, conn, history>>

Tidy ==
  /\ pc[Main] = "tidy"
  /\ pre' = IF undo THEN None ELSE pre
  /\ db' = db
  /\ EndRestore

\* bug: the original is not put back
RollBackNothing ==
  /\ pc[Main] = "roll_back"
  /\ UNCHANGED <<db, pre>>
  /\ EndRestore

RollBack ==
  /\ pc[Main] = "roll_back"
  /\ IF undo /\ pre # None
       THEN db' = pre /\ pre' = None
       ELSE UNCHANGED <<db, pre>>
  /\ EndRestore

-----------------------------------------------------------------------------
(* The end of the process, by shutdown or death. *)

Vanish ==
  /\ life' = "down"
  /\ cached' = None
  /\ pc' = [a \in Actors |-> "idle"]
  /\ arg' = None /\ conn' = "none" /\ undo' = FALSE
  /\ UNCHANGED <<files, keyring, pw, counted, owed>>

Stop == life = "up" /\ Idle /\ Vanish /\ UNCHANGED <<cuts, faults>>

At(steps) == \E a \in Actors : pc[a] \in steps

Die ==
  /\ life \in {"starting", "up"}
  /\ faults < MaxFaults /\ faults' = faults + 1
  /\ cuts' = cuts \cup (IF At({"move_in"}) THEN {"swap"} ELSE {})
                  \cup (IF At({"admit", "roll_back"}) THEN {"restore"} ELSE {})
                  \cup (IF life = "up" /\ At({"cache", "keyring"}) THEN {"password"} ELSE {})
  /\ Vanish

Step(a) ==
  \/ InitDb(a) \/ Cache(a) \/ StorePassword(a) \/ KeyringFails(a) \/ Migrate(a)
  \/ Count(a) \/ Export(a) \/ Check(a) \/ DropBackup(a) \/ MoveAway(a) \/ MoveIn(a)
  \/ MigrationFails(a)
  \/ a = Main /\ (OpenStore \/ CommitRun)
  \/ a = Main /\ (Screen \/ Replace \/ Admit \/ Tidy \/ RollBack)
  \/ a \in Threads /\ TryPassword(a)

Ask ==
  \/ \E t \in Threads, p \in Passwords : Unlock(t, p)
  \/ \E p \in Passwords : Rotate(p)
  \/ \E r \in Runs : Save(r)
  \/ \E u \in Uploads : Restore(u)

Next ==
  \/ Start \/ Stop \/ Die
  \/ Ask
  \/ \E a \in Actors : Step(a)

Spec == Init /\ [][Next]_vars

(* A user starts the server again when it is down; a started request goes on
   executing its statements. *)
Fairness == WF_vars(Start) /\ \A a \in Actors : WF_vars(Step(a))
FairSpec == Spec /\ Fairness

-----------------------------------------------------------------------------
TypeOK ==
  /\ {db, tmp, backup, pre} \subseteq File \cup {None}
  /\ {cached, keyring} \subseteq Passwords \cup {None}
  /\ life \in {"down", "starting", "up", "failed"}
  /\ pc \in [Actors -> MigrationSteps \cup
       {"idle", "init_db", "try", "cache", "keyring", "migrate", "open", "commit",
        "screen", "replace", "admit", "tidy", "roll_back"}]
  /\ pw \in [Actors -> Passwords \cup {None}]
  /\ counted \in [Actors -> {NoTables} \cup 0..Cardinality(Runs)]
  /\ arg \in Runs \cup Uploads \cup {None}
  /\ conn \in {"none", "db", "backup", "gone"}
  /\ undo \in BOOLEAN
  /\ owed \subseteq Runs
  /\ cuts \subseteq {"swap", "restore", "password"}
  /\ faults \in 0..MaxFaults

(* One request at a time: whatever step dies or fails, every run the user was
   told is stored is still in the database, in the backup of the migration or
   in the copy made for a restore, unless a restore was cut short before
   (encryption.py:709-713, import_export.py:330-362). *)
KeptSomewhere ==
  "restore" \notin cuts => owed \subseteq RunsOf(db) \cup RunsOf(backup) \cup RunsOf(pre)

(* One request at a time: a server that is up shows every such run, unless it
   was cut between the two renames of the migration, or between the
   replacement of the file and the verdict on it. *)
NothingHidden ==
  (life = "up" /\ Idle /\ cuts \cap {"swap", "restore"} = {}) => owed \subseteq RunsOf(db)

(* One request at a time: a password in memory opens the database, so a page
   that is not redirected to /unlock can read it (db_state.py:133-140). *)
CachedOpens ==
  (life = "up" /\ Idle /\ cached # None) => (db # None /\ db.key = cached)

(* One request at a time and no password in the environment: the keyring's
   password is the database's, unless a write to it failed or the server died
   before it (encryption.py:206-208). *)
KeyringOpens ==
  (Idle /\ keyring # None /\ Encrypted(db) /\ cuts \cap {"restore", "password"} = {})
     => keyring = db.key

(* One request at a time: the encrypted database is never replaced by a
   plaintext one (import_export.py:288-300), through restore, rollback, death,
   restart and a migration started over.  An encrypted file that was put in
   the place of a plaintext one may be taken back. *)
NeverDowngraded ==
  [][(Encrypted(db) /\ (undo => Encrypted(pre)) /\ db' # None) => Encrypted(db')]_vars

(* What the migration's documentation says of the original database: it "is
   backed up" (encryption.py:594).  When no request is under way, the runs are
   in the database or in a copy. *)
OriginalIsBackedUp == Idle => KeptSomewhere

(* What ENCRYPTION.md says of a keyring with the wrong password: "Try entering
   password manually (ignore keyring)" (docs/ENCRYPTION.md:315).  A startup
   does not end the server, and with it the page for the password, over a
   sound database. *)
ManualEntryPossible ==
  (life = "failed" /\ Encrypted(db)) => db.key = Unreadable

(* One request at a time: a server that does not start is started again, and
   at last it starts: what a dead migration leaves behind is cleared away by
   the next (encryption.py:722-729). *)
StartsAgain == []<>(life = "up" \/ cuts # {})
=============================================================================
