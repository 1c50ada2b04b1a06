# Formal models of Tax_Co-Pilot

TLA+ modules for the parts of Tax_Co-Pilot whose correctness depends on order,
on failure or on what several actors do at once, with the TLC configurations
that check them and the TLAPS proofs of their main invariants. `PROJECT.json`
lists the runs, the source lines behind each definition, one mutated definition
per property, the hazards of the code and the theorems.

## 1. Inventory

Tax_Co-Pilot is a FastAPI application over one SQLite (or SQLCipher) file. One
uvicorn process serves it (`run.sh`); nothing prevents a second process on the
same file (`--reload`, a second terminal), and the database layer is written for
that. `async` handlers are atomic between their awaits; plain `def` handlers run
on threads of the same process.

| Component | State | Operations | Interacts with |
|---|---|---|---|
| Run store (`services/database.py`) | table `return_runs`; in it the hash chain `integrity_hash`, `previous_hash`, `chain_seq` | save, import, delete, annotate, list, verify | calculation, import and run routes call it; SQLite's write lock orders its transactions |
| Schema migration (`init_db`) | columns of the table, `hash_version`, `chain_seq` | add column, detect hash versions, number the chain | startup, unlock and restore call it |
| Rule loader (`engine/rule_loader.py`) | none; returns an immutable `RulePack` | validate rules and references, sort | pack cache and editor call it |
| Calculation engine (`engine/calculator.py`) | `resolved`, `traces`, `_evaluating`, the active pack | evaluate the packs of a return | reads packs, returns a sealed `ReturnRun` |
| Pack workspace (`services/rule_pack_editor.py`) | pack directories, two YAML files each | clone, create, import, save/delete rule or constant, delete pack | every write busts the pack cache |
| Pack cache (`route_helpers/pack_cache.py`) | `federal_cache`, `state_cache`, `available_years` | get, bust, warm | filled on threads, busted on the event loop |
| Vault (`services/encryption.py`, `route_helpers/db_state.py`) | the database file, its backup and temporary files, the cached password, the keyring | detect, unlock, migrate to SQLCipher, rotate the key | guards every access to the run store |
| Backup, restore, import (`routes/import_export.py`) | the database file and its WAL | download, replace, bulk import | vault, run store, pack cache |
| Formulas and tables (`_eval_*` of the engine, `_validate_*` of the loader) | none | validate when a pack is read, evaluate when a rule is | the editor validates with the same functions |
| Forms and CSV (`route_helpers/form_parsing.py`, `services/csv_import.py`) | none | rule, constant and return forms, CSV files | editor and calculation routes; totals in `models/domain.py` |
| What-if (`engine/whatif.py`) | none | compare filing statuses, compare the combat pay election | runs the engine several times |
| Exports, form mapping, AI prompt, shipped packs | none | pure functions, data | run pages |

What is hard about it: transactions of several processes over one hash chain; a
migration in autocommit mode that may be cut anywhere; evaluation on demand that
follows references the loader's graph does not contain; file operations in two
steps (manifest and rules, backup and rename); a cache filled by threads; checks
that are stale when the file is replaced. `PROJECT.json` lists each at its line.

What makes each part correct:

* run store: the chain verifies at every moment, never forks, and the table is
  exactly the runs saved and not deleted;
* migration: whoever serves, serves a fully migrated table; rows that were
  edited are never vouched for; a saved run keeps its place in the order;
* loader: refuses exactly the cyclic packs and those with unknown references;
  its order is a function of ids and references alone;
* engine: each rule once, after its operands; states in the documented order; a
  refusal for a reason the packs give, and a sealed run only if they give none;
* workspace and cache: what is listed loads; manifest and rules belong together;
  a calculation uses the pack that was chosen; the cache follows the files;
* formulas and tables: what loads has the value its text means;
* forms: what was typed is what is stored, and a view shown for editing loses
  nothing of what was stored;
* what-if: the separate returns hold what the joint one holds, once;
* vault: no run is lost by a migration, a rotation or a restore, whatever dies
  or fails; an encrypted database stays encrypted; the password in memory and the
  one in the keyring open it; a server that went down comes up again.

## 2. Modules

| Module | What it models |
|---|---|
| `RunLedger` | what the run store promises: runs with a body and an annotation, appended and removed, in an order |
| `RunStore` | `save_return_run`, `delete_return_run`, `update_run_annotation`, `verify_chain`, statement by statement |
| `RunStoreProofs` | its proofs |
| `SchemaInit` | `init_db` and `_backfill_hash_versions` |
| `SchemaInitProofs` | its proofs |
| `RuleOrder` | what `_toposort_rules` promises |
| `RuleLoader` | `_validate_deps` and `_toposort_rules` |
| `RuleLoaderProofs` | its proofs |
| `RuleEngine` | `CalculationEngine.run` down to `_resolve_ref` |
| `RuleEngineProofs` | its proofs |
| `Vault` | `startup`, `unlock_submit`, `migrate_to_encrypted`, `rotate_key_submit`, `restore_database`, and the opening and writing of a save |
| `VaultProofs` | its proofs |
| `PackWorkspace` | `rule_pack_editor.py` and the POST routes over it, file by file |
| `PackServer` | composes it with startup, the pack cache, pages and `calculate_submit` |
| `PackServerProofs` | the proofs of both |
| `Formula` | `_safe_eval` and the parser below it, `_validate_formula_rule` |
| `Brackets` | bracket tables: validator and evaluator |
| `RateTables` | matrices and lookups of constants, over `Brackets` |
| `FormRows` | the rows of a form and their limit, which all parsers share |
| `RuleForm` | `parse_rule_form`, `parse_constant_form` and the views that show a rule again |
| `ReturnForm` | `parse_tax_input_from_form`, the totals of `models/domain.py`, `_resolve_inputs`, `csv_import.py` |
| `WhatIf` | how `compare_filing_status` splits a household: `_run_mfs_household` and its guard, over `ReturnForm` |
| `AlgorithmCases` | the kinds of input the algorithms are given, and the properties of the algorithms |
| `AlgorithmProofs` | proofs about `Brackets`, `RateTables` and `RuleForm`, and the lemmas on sums |
| `ReturnProofs` | proofs about `ReturnForm` and `WhatIf` |
| `MC...` | bounds and symmetry for TLC |

An operator commented `\* bug: ...` or `Mutant: ...` is the mutated form of the definition that
follows it. It is part of no specification; it is there to show that the
property named with it in `PROJECT.json` can be broken.

### RunStore

`table` is the committed table, `draft` the table as the open write transaction
sees it, `writer` the process inside `BEGIN IMMEDIATE`. Each process has a
program counter over the statements of its request: `begin_save`, `read_tail`,
`insert`, `commit`, or `begin_delete`, `relink`, `delete_row`, `commit`. `Busy`
is the busy timeout, `Rollback` a statement that fails, `Crash` the death of the
process. `Tamper` is an edit of the file with another tool, which the audit must
report as tampering but never as a broken chain.

Abstractions: a run's `body` is the eleven hashed fields; SHA-256 is injective,
so a hash is the pair of id and body. `uuid4` never returns an id twice
(`issued`); an import may bring back any id.

`MaxSeq` bounds `chain_seq`; `Insert` is not enabled beyond it, as on a full
disk, and the transaction rolls back.

### SchemaInit

The initial states are the schemas of every earlier release (the columns are
added in a fixed order, so a release is a prefix of them) with every kind of row
for the hash columns: matching algorithm 1 or 2, edited, corrupt, or without a
hash. Every caller of `init_db` executes one statement per step and may die
after any. A caller that is done serves, and saves runs while others are still at
work (`Save`): a new row goes behind all others in `chain_seq`, but its rank by
`created_at` is any, since an import keeps its own. `crashes` counts the deaths.
`early` are the rows saved between another caller's `ALTER TABLE ADD COLUMN
chain_seq` and its numbering `UPDATE`, which numbers them again by `created_at`;
`OutOfOrder` says which order that changes. `MaxRows` bounds the rows saved.

### RuleLoader and RuleOrder

The graph of `{ref: ...}` references inside one pack. `visits` is the stack of
`dfs`, `visited` the set it is done with; `indeg`, `ready`, `order` are the
variables of Kahn's algorithm, and `released` the neighbours still to count
down. Ids are numbers in string order; the order of the file, which decides
where `dfs` starts, is any order. `RuleOrder` says which order must come out,
without lists or counters.

### RuleEngine

`defined`, `operands` and `graphed` are the packs: which rules exist, what each
refers to, and which of these references the loader sees. `residence` and
`foreign` are the state of residence and the packs that declare another
jurisdiction. `calls` is the recursion of `_evaluate_rule` and `_resolve_ref`
with the operands still to be resolved; `traces` is `self.traces`, and, as the
two are always written together, its elements are the keys of `self.resolved`
that are rules. Amounts are left out, so a failing evaluator (a literal, a
constant, a division) is `EvaluatorFails`, at any point of a call. The loop over
`rule_order` takes rules in any order in which every rule follows those it is
graphed to; `RuleLoader` shows that the loader returns such an order. The order
of the operands within a rule is any order.

### Vault

`db`, `tmp`, `backup` and `pre` are the four files, each absent or a key, a set
of runs and whether `init_db` has been there. Event-loop requests, and the
startup before them, are the actor `Main`; an `/unlock` is a thread. Each actor
has its program counter and password; what steps of different requests share
(`Cache`, `StorePassword`, `InitDb`, the migration) is one action for all.
`owed` is what the user was told is stored. A failing migration step, a keyring
write that fails and a death of the process each use up one of `MaxFaults`;
`cuts` remembers those that hit one of three windows: `swap`, between the two
renames of the migration; `restore`, from the replacement of the file to the
verdict of `init_db` on it; `password`, between a new key and the keyring. The
properties say that these windows are all there are.

Abstractions: detecting the state of the file and connecting to it is one step;
`PRAGMA rekey` is atomic; the write-ahead log is empty between connections, so
copying and renaming the main file moves all of it; one server process;
encryption is enabled. A connection follows its file through renames (`conn`),
and a run committed to a renamed file may or may not reach it.

### PackWorkspace and PackServer

`dir` gives each slot (a year directory and a custom number) its two files; a
file is absent, torn, or has a pack and a set of entries. `Plan` lists the files
each request writes in its order, and every entry of it is one step, so that
another process, a failing write (`Stops`) or a death comes between any two.
`years` are the year directories: a request makes them and none removes them.
`_validate_candidate_rules` and `Loadable` see the references between rules and
not those to constants, as the loader does.

`PackServer` adds, for each process, whether it is up, the state packs it has
cached and the page one of its threads builds (`LookUp`, `Scan`, `Store`,
`calculate_form`: the dictionary is read again in the last one), and the form a
user has open until it is submitted. Standard packs are never written, so
whether a cached year is right is whether its state directories have changed
since (`Stray`).

History variables say what the properties leave out: `cut`, slots whose creation
or deletion was cut short; `overtaken`, slots made anew under a request for the
pack before; `late` entries of `cached` and `overtaken` of a page, stored by a
thread that a bust overtook; `quiet`, years made stray by an edit that is not
yet at its bust, or never came there; `again`, a number given out again while a
form that shows it was open. What such a slot holds can spread, so a clone of an
`overtaken` slot counts as `cut`, and a form of one as `again`.

### The algorithms

These modules have no variables but for the input `AlgorithmCases` names;
`MCAlgorithms` takes one bounded input per step. Each defines what the code does and, after it, what it should have done:
`Formula` builds a tree, its text and its value; `Brackets` sums over the
single dollars; `RateTables` looks for the cell; `RuleForm` compares rows typed with rows
shown again; `ReturnForm` sums straight from the form, and for a CSV file asks the
form what each line means; `WhatIf` compares the joint and the separate inputs.

A CSV file is a record type, the columns named as the program names them
(`headers`) and those with spaces around the name (`padded`), lines, and the
places where the csv module's reader fails (`broken`). As in the code, the check
of the required columns strips the names and the look-up of a cell does not, and
the first failure ends the reading.

Abstractions: an expression is a sequence of tokens over one input and one
number; rates are whole, so rounding is left out; statuses `hoh` and `qss` are
read like `single`; the five adjustments and the six itemized deductions are one
amount each; what `str` writes for a number is `Numeral`, and a text is the sequence of its
parts between dots; a money field counts tenths of a cent, so that too many decimals
can be told; a CSV file has no column twice. The AOTC caps are 1 and 2.

## 3. Runs

| Run | Bounds | What it shows |
|---|---|---|
| `store_chain` | 2 processes, 3 ids, one body, 2 annotations, 4 places in the chain, so that a deleted run can come back behind later ones; at most one run edited or annotated at a time (`MaxTouched`), no symmetry, since the run checks liveness | chain intact, no fork, stored rows only relinked, `RunStore` implements `RunLedger`, every request ends. Two processes are enough for every interleaving of two transactions, since a third would wait; three rows have a first, a middle and a last one to delete |
| `schema_startup` | 2 callers, 2 old rows and one saved meanwhile, 2 deaths | versions are truthful; the migration is complete until a caller dies; the order is kept. One caller can serve and save while the other is between any two statements; two old rows can stand on either side of the saved one |
| `schema_interrupted` | 1 caller, 1 death | the docstring's "Safe to call on every startup" fails: see section 5 |
| `rule_loader` | 5 rules, every choice of 15 references, one of them unknown | the verdict of the search, the sorted ready list, `RuleLoader` implements `RuleOrder`, loading ends. Rings have one to five members; the ready list to insert into has up to three |
| `rule_engine` | 3 federal rules, 2 states of one rule each, every choice of 9 references, every subset of rules defined, written either way | order, verdict and termination. Rings, diamonds, references across packs in both directions and in both orders of the states occur |
| `vault_one_at_a_time` | 2 runs, 2 passwords, 3 files to restore, one request at a time, 2 faults | `KeptSomewhere`, `NothingHidden`, `CachedOpens`, `KeyringOpens`, `NeverDowngraded`, `StartsAgain`. The store starts absent, plaintext or encrypted, with or without a keyring. Two faults can cut a migration and the one that follows it; a second fault in a restore meets the leftovers of the first |
| `vault_two_unlocks` | 2 unlock threads, no fault | `OriginalIsBackedUp` fails: see section 5 |
| `vault_wrong_keyring` | unlock and rotate, 1 fault | `ManualEntryPossible` fails: see section 5 |
| `packs_and_servers` | two packs, two custom numbers, federal and state places. Scope `editors`: two processes on federal packs, two rules of which one refers to the other. Scope `server`: one process that edits, serves pages and restarts, a rule and the constant it looks up, empty packs in two state places, one without a standard pack | `ListedLoads`, `FilesBelongTogether`, `RunUsesChosenPack`, `CacheIsFresh`, `PagesAnswered`. Two processes count the same number, delete under each other's writes and clone what the other deletes; a number is given out again; a page is overtaken by a bust at each of its steps |
| `packs_stray_year` | the same | `StartsUp` fails: see section 5 |
| `algorithms` | formula trees of two operator levels over `x` and `0`, with added parentheses, names declared or not; up to 3 brackets with bounds 0 to 3, incomes 0 to 5; matrices of up to two levels with quoted and unquoted keys; constants of up to two levels; form rows under the indices 0 to 3 with gaps, the limit being 3; returns of a named primary and any two further fields, or one field with any value, in three statuses; CSV files of up to three lines, one or all of the columns padded, with up to two failures of the reader | `FormulasAreArithmetic`, `TablesGiveTheirRates`, `RuleFormKeepsRows`, `ReturnKeepsAmounts`, `SplitKeepsPersons`. Two operator levels hold every pair of precedences and associativity; three brackets have a first, a middle and a last one; two fields are enough for a record and its spouse, or two records of one kind; three lines have one before, at and behind a failure |
| `whatif_split` | the same | `HouseholdCountedOnce` fails: see section 5 |

Fairness. `vault_one_at_a_time` assumes that a server that is down is started
again and that a request goes on with its statements. `store_chain` assumes weak fairness of the steps of each request
that the server itself takes once it has the lock, and of the busy timeout while
it has not: SQLite returns from a statement or with an error, and Python goes
on. Nothing is assumed of users, of crashes or of failing statements. The loader
and the engine are plain function calls, so weak fairness of their next step
only says that Python keeps executing them; their runs check that they do not
execute for ever. `CHECK_DEADLOCK FALSE` is set where the modelled call
returns, and in the pack runs, where there are only two packs to create.

## 4. Proofs

All theorems hold for every value of the constants, under the assumptions the
modules name.

* `RunStoreProofs`: `StoreInv` is inductive. `ChainIntact` alone is not: it says
  nothing of an open transaction. The invariant adds what a process knows of the
  draft at each of its statements: after `read_tail` its link is the tail's hash
  and the next free number, after `relink` the draft is a chain that already
  goes around the row to delete. From it: `TypeCorrect`, `ChainAlwaysIntact`,
  `NeverForks`, `OnlyRelinked`, and `StoreIsLedger`, the refinement of
  `RunLedger`. Its mapping takes the committed table's contents and its order by
  `chain_seq`; only `Commit`, `Annotate` and `Tamper` change it, every other step
  stutters.
* `SchemaInitProofs`: `InitInv` is inductive. Any number of callers may overlap,
  die, and save; what they know at each statement is that the columns before
  theirs exist, that a row without a version still has the hash it came with, and
  that the ranks of the rows differ. Since the second caller that adds a column
  fails, one caller at most is at the work of a column (`OneAtWork`), and before
  the numbering every number is 0 but those of rows in `early` (`Unnumbered`).
  `Progress` says what has been done when no caller has died, which is what
  `SafeWithoutDeaths` needs. That numbering gives each row a number of its own
  counts the rows below it (`RowsCounted`, from the library's facts on
  cardinality). From it: `TypeCorrect`, `VersionsStayTruthful`, `OrderIsKept`,
  `SafeUntilADeath`.
* `RuleLoaderProofs`: `IInv` is inductive. During the search, the calls of `dfs`
  are a path of distinct unfinished rules along references (`PathInv`), which
  closes into a cycle when a rule on it is met again, and the rules that are done
  refer only to one another and without a cycle (`DoneInv`). During the sort,
  `indeg` counts the references to rules not yet placed, but for those still to be
  counted down, and `ready` holds what has none left, sorted (`SortInv`); that
  nothing is left out follows because the rules left would contain one that
  depends on none of them. Binary insertion (`InsertSorts`) is a recursive
  function over intervals: `SomeHalving` shows that one exists and that it finds
  the split of every interval, by a least counterexample. From it: `TypeCorrect`,
  `ReadyListIsRight`, `VerdictIsRight`, and the refinement `OrderIsLeastOne`:
  `Place` places what `RuleOrder` places, every other step stutters.
* `RuleEngineProofs`: `EngineInv` is inductive. For `TracedOnce` it adds that
  the calls under way are of distinct rules without results; for
  `OperandsFirst`, that the operands a call no longer waits for have results;
  for `ResidenceLast`, that the packs begun come before those not begun. For
  `VerdictsAreRight`, a cycle that is reported is the set of calls from the
  repeated rule on: each has an operand among them. That a sealed run had no
  cycle follows from `OperandsFirst`: of any set of rules, the one traced first
  has no operand in the set (`LeastNat`, from the well-foundedness of the natural
  numbers).
* `VaultProofs`: `TypeCorrect` holds however many requests overlap. The other
  theorems assume `OneAtATime` (`MaxActive = 1`), and that for a reason: with
  overlapping unlocks runs can be lost (`vault_two_unlocks`, section 5). `VaultInv` names the one actor
  at work and says what it knows at each of its steps: which of the four files
  are there and under which key (`KnowsMigrating`, `KnowsOpening`,
  `KnowsRestoring`), and that the password in memory opens the database
  (`KnowsCached`). While an upload is judged, the file that counts is the copy
  of what it replaced (`Own`). `Kept` says where the runs are: in that file, in
  the backup once the swap was cut, and during the migration also in the
  encrypted copy. `InKeyring` is stated without a password in the environment;
  with one, a startup may encrypt the database under it and the keyring keeps what
  it had.
  From it: `RunsAreKept`, `RunsAreShown`, `CachedPasswordOpens`,
  `KeyringPasswordOpens`, `StaysEncrypted`.
* `PackServerProofs`: `WsInv` is kept by every step of a request, for any
  number of processes. The steps are first sorted into kinds (`Makes`,
  `PutsManifest`, `PutsRules`, `Tears`, `Clears`, ...), which say what a step
  does to its slot and its request; the invariant is then shown kind by kind.
  `ListedLoads` is not inductive, since what will be listed is still in requests:
  `Requests` says what each of them carries (an edit carries a candidate that
  loads), `SlotInv` how far it has brought its slot and that others can only
  delete a pack that is being made, `Sources` that what a clone is about to copy
  loads. `OnePack` says that files and requests of a slot are of one pack, until
  its number is given out again. Over it, `ServerInv` adds that a page which has scanned a year that
  is now stray knows of an edit whose bust is still to come (`PageInv`,
  `CacheInv`), and that an open form shows the one pack of its slot (`FormInv`).
  From it: `TypeCorrect`, `ListedPacksLoad`, `PacksStayTogether`,
  `ChosenPackIsUsed`, `CacheStaysFresh`, `PagesGetAnswers`.

* `AlgorithmProofs`: `TaxIsMarginal`, for every table and income, rates of any
  sign included. The loader compares neighbouring brackets only; `Separate` shows
  that this keeps all of them apart. The tax the walk computes is then the sum
  over all brackets (`WalkIsSum`), which grows with the income by the rate of the
  one bracket the next dollar is in (`NextDollar`), as does the sum over the
  dollars. The library's sum is defined by recursion over finite sets; that it
  exists and may begin with any term is shown first (`SomeIteration`,
  `SumRemove`).
  `TablesAreRight` adds matrices and constants, of any size and with any numbers.
  Both are walked down by a recursive function on the texts of a path; that one exists
  for a path of any length is shown by a least counterexample (`SomeWalk`), after
  which a walk is followed key by key (`WalkOn`, `WalkEnds`). Two walks that agree
  after one key agree to the end (`WalksAgree`), so a deletion can only matter at the
  first key, which is what `delete_constant` looks at. Its hypothesis, `TablesGiven`,
  is the type of the input: keys are texts, quoted or not, bounds of brackets and
  values of keys are not negative.
  `FormsKeepRows`, for every limit, set of statuses, form and stored value. The
  one hypothesis, `FormGiven`, is the type of the input: finitely many rows under
  natural indices, or a stored value of texts whose names are not blank. The
  rank of an index among the rows typed, below the limit where the code cuts there
  (`BelowLimit`), is what its row's place in the list must be; ranks number the rows without gap (`Ranks`), from which each kind of form is
  argued on its own.
* `ReturnProofs`: `AmountsAreKept` and `SplitsKeepPersons`, for every limit on
  rows and on money. The hypothesis, `ReturnGiven`, is what can be sent: a form
  whose fields are the page's, with values in their ranges (`IsForm`), or a CSV
  file with any columns, padded or not, any lines under them and any failures of
  the reader.
  That a total of the domain model is what was typed compares two sums of
  different shape, one over the lists of records the parser built, one over the
  fields of the form. Both are shown to be one sum over the grid of person, kind
  and index (`RecordsSum`, `TypedSum`, `TotalIsTyped`); a row the parser drops adds
  nothing to either. A CSV line is compared with the form on which its cells are
  typed (`FormHoldsCell`): both take it or neither does (`ReadableAsForm`), and
  then to one record (`RecordAsForm`); the lines before the failure are counted in
  `LinesAreKept`.
  That a split keeps what persons have is argued input by input: what belongs to
  a person is additive over the two separate returns (`TotalAdds`, `GainAdds`,
  `BoxesAdd`, `MilitaryAdds`), and what the guard sees is zero or meets one
  taxpayer only (`GuardedAdds`). What the household shares and the guard overlooks
  is in each of the returns (`SharedAdds`), so it is left to a household of one.

Only model-checked: liveness (`RequestsEnd`, `LoadEnds`, `EveryRunEnds`,
`StartsAgain`), which is outside the prover's reach, and `FormulasAreArithmetic`, whose
parser is a set of RECURSIVE operators over texts and whose argument is an induction
over trees.

## 5. Findings

`schema_interrupted`: `init_db` adds a column and does the column's work on the
rows in separate autocommitted statements, and takes the presence of the column
as proof that the work was done. After a death in between, later startups skip
it: with `hash_version` untouched rows are reported as tampered, with `chain_seq`
rows share the number 0. The docstring says it is safe to call on every startup.
`SafeWithoutDeaths` is the part of the claim that holds.

`vault_two_unlocks`: nothing keeps two migrations apart. `/unlock` runs on a pool
thread, so a form submitted again while the first migration is at work starts
another on the same temporary and backup names. The one that fails deletes the
temporary file of the other; with a third submission the backup is deleted too,
and every copy of the runs is gone although no step failed of itself. The
docstring of `migrate_to_encrypted` says that the copy is verified, the files are
swapped atomically and the original is backed up. One at a time, the swap is
still two renames: `NothingHidden` holds except after a cut between them, when
the next startup creates an empty database under the name.

`vault_wrong_keyring`: a startup that reads a wrong password from the keyring
ends with an exception, before the page exists where `docs/ENCRYPTION.md` tells
the user to enter the password by hand. A key rotation leaves such a keyring when
the write to it fails, which the handler ignores, or when the process dies first.

`packs_stray_year`: a custom state pack for a year without a standard one leaves
a year directory that `get_state_packs` cannot load, deleted or not. Pages of
that year fail, and the next startup raises in `warm_caches`, which the docstring
of `discover_available_years` means to prevent.

`whatif_split`: the guard of the comparison is to return "True when MFS would need
unsupported household-field allocation" (`whatif.py:43`), and its error names
"household-level income, deductions, payments, or dependent counts"
(`whatif.py:65-68`). It looks at five fields (50-55). `other_dependents` came later
and is not one of them, so a couple with one other dependent is compared, and each
of the separate returns has the dependent and its credit. The same holds of the
loss carryovers, the students, the care and LLC expenses and the residence flags,
of which the error does not speak.

Facts the models state as exceptions, without a run that expects a violation:

* `get_federal_pack` and `get_state_packs` return `cache[year]` after having
  looked for the year; a bust in between raises `KeyError` on the page's thread
  (page state `lost`).
* An edit of any rule through its form drops `rounding` and
  `rounding_precision`, which the form does not carry.
* `init_db` means the chain to be "ordered by insertion, not created_at", because
  "imported runs keep their historical timestamps" (`database.py:287-288`). A run
  imported by another process between its `ALTER TABLE` and its `UPDATE` is
  numbered by `created_at` all the same (`OutOfOrder`).
* Bracket rows from index 50 on are dropped without a word, where sums and
  matrices refuse them because "Raising beats silently dropping rows"
  (`form_parsing.py:120-122`, `195-197`); a stored table of more than 50 brackets is
  cut by an edit (`parse_brackets`). A constant with rows past the limit is
  refused, and the page that is shown again does not have them, although it is to
  hand back "exactly what they typed" (`form_parsing.py:412`).
* Inputs of a formula are read up to the first gap. Of two inputs, or two rows of
  a matrix, with one name the later wins. A row of a stored matrix that is an
  empty mapping is shown, and dropped when the rule is saved.
* A CSV column with spaces around its name passes the check of the required
  columns (`csv_import.py:120`), and its cells are not found: the amounts import as
  $0, which the check is there to prevent (`csv_import.py:43-45`).
* A failure of the csv module's reader ends the import with one error; the lines
  behind it are neither read nor reported. In the header the failure escapes from
  `import_csv`, which "Returns structured errors instead of throwing on first
  failure" (`csv_import.py:24`).
* A sign right after an operator, after another sign, or after `( ` passes
  `_validate_formula_rule` and fails when the rule is evaluated (`StraySign`).
* A lookup path of just `constants` reads the constant named like its key, which
  `delete_constant` does not see (`LookupsSurviveDeletion` leaves it out).
* 1099-B lines of a CSV file are not read for federal withholding; a spouse with
  only the officer flag or combat months, and no pay, is dropped.

## 6. Plan

1. Done: `RunStore`, `SchemaInit`, `RuleLoader`, `RuleEngine` and the proofs
   above.
2. Done: `Vault` and its three runs. Left: a run with `MaxActive = 2` for saves
   and restores that overlap a migration.
3. Done: `PackWorkspace` and `PackServer` with two runs; the algorithm modules
   with one.
4. Left: the apportionment of wages between states, rounding, the comparison of
   the combat-pay election, and the combined text format of pack export and import.
5. Proofs: done for `RunStore`, `SchemaInit`, `RuleLoader`, `RuleEngine`, the
   packs, `Vault`, the tables of a pack, the editor's forms, the return's form, the CSV
   import and the split of a household. Left: what is out of the provers' reach (section 4).

## 7. Not modelled

Rendering, form mapping, exports, the reference catalog, the AI prompt, logging
and configuration have no state or order of their own. The shipped rule packs
are data: the models range over all packs of a small size. `list_return_runs`
reads its total and its page on two connections; the effect is one stale number
on one page. Hash collisions and clock skew are assumed away: `created_at`
decides the order of old rows only once, in the migration, where any order is
allowed.

Left out of modelled components: in the loader, the version grammar, the search
for the files of a pack and the checksum; in the engine, rounding and the
apportionment between states; in the workspace, `split_combined_yaml` and the
pages that only read; in the what-if engine, the recommendation and the comparison
of the combat-pay election; in the vault, the write-ahead log, the mode with
encryption disabled and the refused legacy format; in the forms, the length
limits of texts and the signs and separators inside a money text.
