---------------------------- MODULE PackWorkspace ----------------------------
(***************************************************************************)
(* The rule-pack workspace (services/rule_pack_editor.py and the POST      *)
(* routes over it): directories of two YAML files, a manifest and rules,   *)
(* that server processes create, edit and delete, one file at a time.      *)
(* Within a process the POST handlers run one after the other on the event *)
(* loop; nothing keeps two processes apart but the mkdir of a new pack.    *)
(***************************************************************************)
EXTENDS Integers, Sequences, FiniteSets, FiniteSetsExt

CONSTANTS
  Procs,        \* server processes over one rule_packs directory
  Places,       \* year directories, federal or of a state, a user may name
  Shipped,      \* those the repository ships a standard pack in
  Packs,        \* packs that may ever be created, told apart
  Rules,        \* rules a pack may have
  Consts,       \* constants a pack may have
  Refs,         \* <<r, q>>: rule r refers to rule q
  Lookups,      \* <<r, c>>: rule r looks up its value in constant c
  StdEntries,   \* what the standard packs hold
  MaxNumber,    \* bound on the number of a custom variant
  Absent, None, Torn, Standard

Entries == Rules \cup Consts
Numbers == 1..MaxNumber
Slots == Places \X Numbers           \* the directory custom_vN of a year

Document == [pack : Packs, entries : SUBSET Entries]
Directory == [m : Packs \cup {None}, r : Document \cup {None, Torn}]

(* RulePack.load on a rules document: every reference is defined. It does  *)
(* not look at the constants (RuleLoader models the rest of it).           *)
Loadable(entries) == \A e \in Refs : e[1] \in entries => e[2] \in entries

ASSUME WorkspaceAssumption ==
  /\ Shipped \subseteq Places /\ MaxNumber \in Nat
  /\ Refs \subseteq Rules \X Rules /\ Lookups \subseteq Rules \X Consts
  /\ StdEntries \subseteq Entries /\ Loadable(StdEntries)
  /\ Absent \notin Directory \cup {None, Torn} /\ None # Torn
  /\ {None, Torn} \cap (Document \cup Packs \cup Slots) = {}
  /\ None \notin Numbers /\ Standard \notin Numbers \cup Packs \cup Slots \cup {None}

Readable(d) == d # Absent /\ d.m # None /\ d.r \notin {None, Torn}
Loads(d) == Readable(d) /\ Loadable(d.r.entries)

(* _scan_year_dir shows a directory with a manifest, whatever its rules.   *)
Listed(d) == d # Absent /\ d.m # None

VARIABLES
  dir,          \* slot -> the files of its directory
  years,        \* the year directories that exist
  req,          \* process -> the POST it is in the middle of
  used,         \* packs created so far
  cut,          \* history: slots left half made or half deleted,
                \* or cloned from one or from an overtaken one
  overtaken     \* history: slots made anew under a request for the old pack

wsVars == <<dir, years, req, used, cut, overtaken>>

(* The files each request writes, in its order.                            *)
Plan == [
  none            |-> <<"idle">>,
  create          |-> <<"mkdir", "manifest", "rules", "bust">>,
  clone           |-> <<"mkdir", "truncate", "fill", "manifest", "bust">>,
  import          |-> <<"mkdir", "manifest", "truncate", "fill", "check", "bust">>,
  reject          |-> <<"unlink", "rmdir", "fail">>,
  delete          |-> <<"unlink", "rmdir", "bust">>,
  save_rule       |-> <<"manifest", "rules", "bust">>,
  delete_rule     |-> <<"rules", "bust">>,
  save_constant   |-> <<"rules", "bust">>,
  delete_constant |-> <<"rules", "bust">>]

Ops == DOMAIN Plan
Creations == {"create", "clone", "import"}

NoRequest == [op |-> "none", at |-> 1, slot |-> None, src |-> None,
              man |-> None, doc |-> None, todo |-> {}]

Request == [op : Ops, at : 1..6, slot : Slots \cup {None},
            src : Numbers \cup {Standard, None}, man : Packs \cup {None},
            doc : Document \cup {None, Torn}, todo : SUBSET {"m", "r"}]

TypeOK ==
  /\ dir \in [Slots -> Directory \cup {Absent}]
  /\ years \in SUBSET Places /\ Shipped \subseteq years
  /\ \A p \in Procs : req[p] \in Request /\ req[p].at \in DOMAIN Plan[req[p].op]
  /\ DOMAIN req = Procs
  /\ used \subseteq Packs
  /\ cut \subseteq Slots /\ overtaken \subseteq Slots
  /\ \A s \in Slots : dir[s] # Absent => s[1] \in years

At(p, step) == Plan[req[p].op][req[p].at] = step
Idle(p) == At(p, "idle")
Slot(p) == req[p].slot
Here(p) == dir[Slot(p)]

(* The slots a request depends on: its own and the source of a clone.      *)
SourceSlot(p) == <<Slot(p)[1], req[p].src>>
Holds(p) == IF Idle(p) THEN {} ELSE {Slot(p)} \cup
              (IF req[p].src \in Numbers THEN {SourceSlot(p)} ELSE {})

Begin(p, op, slot, src, man, doc) ==
  req' = [req EXCEPT ![p] = [op |-> op, at |-> 1, slot |-> slot, src |-> src,
                             man |-> man, doc |-> doc, todo |-> {}]]
Advance(p) == req' = [req EXCEPT ![p].at = @ + 1]
End(p) == req' = [req EXCEPT ![p] = NoRequest]

-----------------------------------------------------------------------------
(* The requests, up to their first write.                                  *)

_next_custom_variant_number(pl) ==
  1 + Max({0} \cup {n \in Numbers : dir[<<pl, n>>] # Absent})

(* create_empty_pack, and import_yaml with any rules: the year directory   *)
(* is made if there is none, and stays.                                    *)
BeginNew(p, op, pl, k, entries) ==
  /\ _next_custom_variant_number(pl) \in Numbers
  /\ years' = years \cup {pl}
  /\ used' = used \cup {k}
  /\ Begin(p, op, <<pl, _next_custom_variant_number(pl)>>, None,
           k, [pack |-> k, entries |-> entries])
  /\ UNCHANGED <<dir, cut, overtaken>>

create_empty_pack(p, pl, k) == BeginNew(p, "create", pl, k, {})

import_yaml(p, pl, k) == \E entries \in SUBSET Entries :
  BeginNew(p, "import", pl, k, entries)

(* clone_pack: the source must load; its files are read later.             *)
clone_pack(p, pl, src, k) ==
  /\ IF src = Standard THEN pl \in Shipped ELSE Loads(dir[<<pl, src>>])
  /\ _next_custom_variant_number(pl) \in Numbers
  /\ used' = used \cup {k}
  /\ Begin(p, "clone", <<pl, _next_custom_variant_number(pl)>>, src,
           k, None)
  /\ UNCHANGED <<dir, years, cut, overtaken>>

(* bug: an edit is written without loading the candidate first. *)
CandidateUnchecked(d, entries) == Readable(d)

(* _validate_candidate_rules: the edit is loaded beside the pack before    *)
(* anything is written.                                                    *)
_validate_candidate_rules(d, entries) == Readable(d) /\ Loadable(entries)

BeginEdit(p, op, s, entries) ==
  /\ _validate_candidate_rules(dir[s], entries)
  /\ Begin(p, op, s, None, dir[s].m, [dir[s].r EXCEPT !.entries = entries])
  /\ UNCHANGED <<dir, years, used, cut, overtaken>>

(* save_rule: rule id gives way to r (rule_save_submit takes id from the   *)
(* path and r from the form), or r is added; no two rules have one id.     *)
save_rule(p, s, id, r) == Readable(dir[s]) /\ r \notin dir[s].r.entries \ {id} /\
  BeginEdit(p, "save_rule", s, (dir[s].r.entries \ {id}) \cup {r})

delete_rule(p, s, r) == Readable(dir[s]) /\ r \in dir[s].r.entries /\
  BeginEdit(p, "delete_rule", s, dir[s].r.entries \ {r})

save_constant(p, s, c) == Readable(dir[s]) /\
  BeginEdit(p, "save_constant", s, dir[s].r.entries \cup {c})

delete_constant(p, s, c) ==
  /\ Readable(dir[s]) /\ c \in dir[s].r.entries
  /\ \A r \in Rules \cap dir[s].r.entries : <<r, c>> \notin Lookups
  /\ BeginEdit(p, "delete_constant", s, dir[s].r.entries \ {c})

Files(d) == {f \in {"m", "r"} : d[f] # None}

(* delete_pack: rmtree reads the directory, then removes what it read.     *)
delete_pack(p, s) ==
  /\ dir[s] # Absent
  /\ req' = [req EXCEPT ![p] = [NoRequest EXCEPT !.op = "delete", !.slot = s,
                                                 !.todo = Files(dir[s])]]
  /\ UNCHANGED <<dir, years, used, cut, overtaken>>

-----------------------------------------------------------------------------
(* The steps.                                                              *)

(* bug: mkdir with exist_ok=True. *)
MakeDirectoryShared(p) ==
  /\ At(p, "mkdir")
  /\ dir' = [dir EXCEPT ![Slot(p)] = IF @ = Absent THEN [m |-> None, r |-> None] ELSE @]
  /\ Advance(p)
  /\ UNCHANGED <<years, used, cut, overtaken>>

(* mkdir with exist_ok=False: of two processes that counted the same       *)
(* number one is refused.                                                  *)
MakeDirectory(p) ==
  /\ At(p, "mkdir")
  /\ IF Here(p) = Absent
     THEN /\ dir' = [dir EXCEPT ![Slot(p)] = [m |-> None, r |-> None]]
          /\ cut' = cut \ {Slot(p)}
          /\ overtaken' = overtaken \cup
               UNION {{Slot(p), Slot(q)} : q \in {q \in Procs \ {p} :
                  Slot(p) \in Holds(q) /\ ~(Slot(q) = Slot(p) /\ At(q, "mkdir"))}}
          /\ Advance(p)
     ELSE End(p) /\ UNCHANGED <<dir, cut, overtaken>>
  /\ UNCHANGED <<years, used>>

(* What a clone copies, as it is when copy2 opens it.                      *)
Source(p) == dir[SourceSlot(p)]
SourceRules(p) ==
  IF req[p].src = Standard THEN [pack |-> req[p].man, entries |-> StdEntries]
  ELSE IF Source(p) = Absent THEN None
  ELSE IF Source(p).r \in {None, Torn} THEN Source(p).r
  ELSE [Source(p).r EXCEPT !.pack = req[p].man]

(* A file is put under its name; without the directory, or the file of the *)
(* source of a clone, the request ends with an error.                      *)
Put(p, file, content, possible) ==
  /\ IF Here(p) # Absent /\ possible
     THEN dir' = [dir EXCEPT ![Slot(p)][file] = content] /\ Advance(p)
     ELSE End(p) /\ UNCHANGED dir
  /\ UNCHANGED <<years, used, cut, overtaken>>

(* _atomic_write_yaml of the manifest; clone_pack reads the source's now.  *)
WriteManifest(p) ==
  /\ At(p, "manifest")
  /\ Put(p, "m", req[p].man, req[p].src \in Numbers => Listed(Source(p)))

(* _atomic_write_yaml of the rules.                                        *)
WriteRules(p) == At(p, "rules") /\ Put(p, "r", req[p].doc, TRUE)

(* shutil.copy2 of a clone and write_bytes of an import open the file      *)
(* under its final name: for a moment it is cut short. A clone whose       *)
(* source has lost its rules goes on to the manifest.                      *)
TruncateRules(p) ==
  /\ At(p, "truncate")
  /\ LET gone == req[p].op = "clone" /\ (SourceRules(p) \in {None, Torn} \/ SourceSlot(p) \in overtaken)
         skip == req[p].op = "clone" /\ SourceRules(p) = None IN
       /\ IF skip \/ Here(p) = Absent THEN UNCHANGED dir
          ELSE dir' = [dir EXCEPT ![Slot(p)].r = Torn]
       /\ IF skip THEN req' = [req EXCEPT ![p].at = @ + 2]
          ELSE IF Here(p) = Absent THEN End(p)
          ELSE req' = [req EXCEPT ![p].at = @ + 1,
                 ![p].doc = IF req[p].op = "import" THEN @ ELSE SourceRules(p)]
       /\ cut' = IF gone THEN cut \cup {Slot(p)} ELSE cut
  /\ UNCHANGED <<years, used, overtaken>>

FillRules(p) == At(p, "fill") /\ Put(p, "r", req[p].doc, TRUE)

(* import_yaml loads what it wrote, and removes it again if it does not.   *)
CheckImport(p) ==
  /\ At(p, "check")
  /\ IF Loads(Here(p)) THEN Advance(p)
     ELSE req' = [req EXCEPT ![p].op = "reject", ![p].at = 1,
                     ![p].todo = IF Here(p) = Absent THEN {} ELSE Files(Here(p))]
  /\ UNCHANGED <<dir, years, used, cut, overtaken>>

(* rmtree takes the files in any order.                                    *)
Unlink(p) == \E f \in req[p].todo :
  /\ At(p, "unlink")
  /\ dir' = [dir EXCEPT ![Slot(p)] = IF @ = Absent THEN @ ELSE [@ EXCEPT ![f] = None]]
  /\ req' = [req EXCEPT ![p].todo = @ \ {f},
                        ![p].at = IF req[p].todo = {f} THEN 2 ELSE 1]
  /\ UNCHANGED <<years, used, cut, overtaken>>

NothingToUnlink(p) ==
  /\ At(p, "unlink") /\ req[p].todo = {}
  /\ Advance(p)
  /\ UNCHANGED <<dir, years, used, cut, overtaken>>

(* rmdir fails when another process has written into the directory.        *)
RemoveDirectory(p) ==
  /\ At(p, "rmdir")
  /\ IF Here(p) # Absent /\ Files(Here(p)) = {}
     THEN dir' = [dir EXCEPT ![Slot(p)] = Absent] /\ Advance(p) /\ UNCHANGED cut
     ELSE End(p) /\ cut' = cut \cup {Slot(p)} /\ UNCHANGED dir
  /\ UNCHANGED <<years, used, overtaken>>

(* The handler returns; after a change it has busted the cache.            *)
Finish(p) ==
  /\ At(p, "bust") \/ At(p, "fail")
  /\ End(p)
  /\ UNCHANGED <<dir, years, used, cut, overtaken>>

(* A write fails or the process dies: what is on disk stays. A clone is    *)
(* not listed before it is complete, and an edit replaces whole files.     *)
Stops(p) ==
  /\ ~Idle(p)
  /\ cut' = IF req[p].op \in {"create", "import", "reject", "delete"} /\ ~At(p, "mkdir")
            THEN cut \cup {Slot(p)} ELSE cut
  /\ End(p)
  /\ UNCHANGED <<dir, years, used, overtaken>>

(* The POST handlers. A rule's new form is saved in the place of the one   *)
(* the path names, a constant's under the name in the path.                *)
rule_packs_create(p) == \E pl \in Places, k \in Packs \ used : create_empty_pack(p, pl, k)
rule_packs_import_post(p) == \E pl \in Places, k \in Packs \ used : import_yaml(p, pl, k)
rule_pack_clone(p) == \E pl \in Places, src \in Numbers \cup {Standard}, k \in Packs \ used :
  clone_pack(p, pl, src, k)
rule_pack_delete(p) == \E s \in Slots : delete_pack(p, s)
rule_add_submit(p) == \E s \in Slots, r \in Rules : save_rule(p, s, r, r)
rule_save_submit(p) == \E s \in Slots, id \in Rules, r \in Rules : save_rule(p, s, id, r)
rule_delete_submit(p) == \E s \in Slots, r \in Rules : delete_rule(p, s, r)
constant_save_submit(p) == \E s \in Slots, c \in Consts : save_constant(p, s, c)
constant_delete_submit(p) == \E s \in Slots, c \in Consts : delete_constant(p, s, c)

Receive(p) ==
  /\ Idle(p)
  /\ \/ rule_packs_create(p) \/ rule_packs_import_post(p) \/ rule_pack_clone(p)
     \/ rule_pack_delete(p) \/ rule_add_submit(p) \/ rule_save_submit(p)
     \/ rule_delete_submit(p) \/ constant_save_submit(p) \/ constant_delete_submit(p)

Write(p) ==
  \/ MakeDirectory(p) \/ WriteManifest(p) \/ WriteRules(p)
  \/ TruncateRules(p) \/ FillRules(p) \/ CheckImport(p)
  \/ Unlink(p) \/ NothingToUnlink(p) \/ RemoveDirectory(p)

(* A workspace as it was shipped; custom packs come from the requests.     *)
WorkspaceInit ==
  /\ dir = [s \in Slots |-> Absent] /\ years = Shipped
  /\ used = {} /\ cut = {} /\ overtaken = {}
  /\ req = [p \in Procs |-> NoRequest]

-----------------------------------------------------------------------------
(* Properties.                                                             *)

UnderWay(s) == \E p \in Procs : Slot(p) = s
                  /\ req[p].op \in {"create", "import", "reject", "delete"}

(* What the list of packs shows can be opened and calculated with: a       *)
(* listed pack loads, whatever edits are under way or were cut, unless its *)
(* creation or deletion is under way or was cut.                           *)
ListedLoads == \A s \in Slots :
  Listed(dir[s]) /\ s \notin cut \cup overtaken /\ ~UnderWay(s) => Loads(dir[s])

(* The manifest and the rules in a directory were written for the same     *)
(* pack, unless the number was given out again under a running request.    *)
FilesBelongTogether == \A s \in Slots :
  Readable(dir[s]) /\ s \notin overtaken => dir[s].m = dir[s].r.pack
=============================================================================
