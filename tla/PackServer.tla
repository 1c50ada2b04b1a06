------------------------------ MODULE PackServer ------------------------------
(***************************************************************************)
(* The rule-pack workspace with the servers over it: start-up and the      *)
(* cache of standard packs (main.py lifespan, route_helpers/pack_cache.py),*)
(* the pages worker threads build from the cache, and a calculation whose  *)
(* form was opened earlier (routes/calculate.py). A standard pack is never *)
(* written, so what a cached year holds is the set of its state            *)
(* directories; a directory without a standard pack makes the scan raise.  *)
(***************************************************************************)
EXTENDS PackWorkspace

CONSTANTS
  Federal,      \* the places that are federal years, the others a state's
  YearOf        \* place -> its tax year

ASSUME ServerAssumption == Federal \subseteq Places /\ DOMAIN YearOf = Places

Years == {YearOf[pl] : pl \in Places}

(* discover_available_years: federal years with a manifest. No request     *)
(* writes a standard manifest, so the list never changes.                  *)
available_years == {YearOf[pl] : pl \in Federal \cap Shipped}

(* A state's year directory in which RulePack.load finds no pack.          *)
Stray(y) == \E pl \in years \ Federal : YearOf[pl] = y /\ pl \notin Shipped

VARIABLES
  server,       \* process -> "down", "up" or "failed" (its lifespan raised)
  cached,       \* process -> the years in state_cache; "late" ones were
                \* stored by a page that a bust overtook (history)
  page,         \* process -> the page one of its threads is building
  quiet,        \* history: process -> years made stray, not yet busted in it
  form,         \* the calculation form a user has open
  outcome       \* what its submission used

srvVars == <<server, cached, page, quiet, form, outcome>>
vars == <<wsVars, srvVars>>

NoPage == [at |-> "idle", year |-> None, overtaken |-> FALSE]
Page == [at : {"idle", "looked", "scanned", "stored", "unavailable", "lost"},
         year : Years \cup {None}, overtaken : BOOLEAN]
Choice == [slot : (Federal \X Numbers) \cup {Standard}, year : Years, pack : Packs \cup {Standard},
           again : BOOLEAN]
Outcome == [chosen : Packs \cup {Standard}, used : Packs \cup {Standard}, again : BOOLEAN]

ServerTypeOK ==
  /\ TypeOK
  /\ server \in [Procs -> {"down", "up", "failed"}]
  /\ cached \in [Procs -> [Years -> {"no", "fresh", "late"}]]
  /\ page \in [Procs -> Page]
  /\ quiet \in [Procs -> SUBSET Years]
  /\ form \in Choice \cup {None} /\ outcome \in Outcome \cup {None}
  /\ \A p \in Procs : server[p] # "up" => Idle(p) /\ page[p] = NoPage

Up(p) == server[p] = "up"

-----------------------------------------------------------------------------
(* Start-up and death of a process.                                        *)

(* bug: a page under way is taken over into the next process. *)
DiesServing(p) ==
  /\ Up(p)
  /\ IF Idle(p) THEN UNCHANGED wsVars ELSE Stops(p)
  /\ server' = [server EXCEPT ![p] = "down"]
  /\ cached' = [cached EXCEPT ![p] = [y \in Years |-> "no"]]
  /\ UNCHANGED <<page, quiet, form, outcome>>

(* warm_caches loads every available year, and raises at the first state   *)
(* directory that holds no pack.                                           *)
warm_caches(p) ==
  /\ server[p] # "up"
  /\ IF \E y \in available_years : Stray(y)
     THEN server' = [server EXCEPT ![p] = "failed"] /\ UNCHANGED cached
     ELSE /\ server' = [server EXCEPT ![p] = "up"]
          /\ cached' = [cached EXCEPT ![p] =
                          [y \in Years |-> IF y \in available_years THEN "fresh" ELSE "no"]]
  /\ quiet' = [quiet EXCEPT ![p] = {}]
  /\ UNCHANGED <<wsVars, page, form, outcome>>

(* The process goes, with its cache and whatever it was doing.             *)
Dies(p) ==
  /\ Up(p)
  /\ IF Idle(p) THEN UNCHANGED wsVars ELSE Stops(p)
  /\ server' = [server EXCEPT ![p] = "down"]
  /\ cached' = [cached EXCEPT ![p] = [y \in Years |-> "no"]]
  /\ page' = [page EXCEPT ![p] = NoPage]
  /\ UNCHANGED <<quiet, form, outcome>>

-----------------------------------------------------------------------------
(* Edits on the event loop.                                                *)

Handle(p) ==
  /\ Up(p)
  /\ Receive(p)
  /\ quiet' = [q \in Procs |-> quiet[q] \cup {YearOf[pl] : pl \in years' \ years}]
  /\ UNCHANGED <<server, cached, page, form, outcome>>

(* A number given out again while a form that shows its old pack is open.  *)
GivenOutAgain == form # None /\ form.slot # Standard
  /\ dir[form.slot] = Absent /\ dir'[form.slot] # Absent

Work(p) ==
  /\ Up(p)
  /\ Write(p)
  /\ form' = IF GivenOutAgain THEN [form EXCEPT !.again = TRUE] ELSE form
  /\ UNCHANGED <<server, cached, page, quiet, outcome>>

(* bug: only a request for a federal pack pops a cached year. *)
BustFederalOnly(p, pl) ==
  /\ page' = [page EXCEPT ![p].overtaken = @ \/ page[p].year = YearOf[pl]]
  /\ quiet' = IF pl \in Federal THEN quiet ELSE [quiet EXCEPT ![p] = @ \ {YearOf[pl]}]
  /\ UNCHANGED cached

bust_pack_cache(p, pl) ==
  /\ cached' = IF pl \in Federal THEN cached ELSE [cached EXCEPT ![p][YearOf[pl]] = "no"]
  /\ page' = [page EXCEPT ![p].overtaken = @ \/ page[p].year = YearOf[pl]]
  /\ quiet' = IF pl \in Federal THEN quiet ELSE [quiet EXCEPT ![p] = @ \ {YearOf[pl]}]

(* The handler returns; after a change it has busted the cache.            *)
Respond(p) ==
  /\ Up(p)
  /\ Finish(p)
  /\ IF At(p, "bust") THEN bust_pack_cache(p, Slot(p)[1]) ELSE UNCHANGED <<cached, page, quiet>>
  /\ UNCHANGED <<server, form, outcome>>

(* The handler raises half way: no bust, the server lives on.              *)
Raises(p) ==
  /\ Up(p)
  /\ Stops(p)
  /\ UNCHANGED srvVars

-----------------------------------------------------------------------------
(* get_state_packs on a worker thread: look, scan, store, look again.      *)

GoTo(p, at) == page' = [page EXCEPT ![p].at = at]

LookUp(p) == \E y \in available_years :
  /\ Up(p) /\ page[p].at = "idle"
  /\ page' = [page EXCEPT ![p] = [NoPage EXCEPT !.year = y,
                          !.at = IF cached[p][y] # "no" THEN "stored" ELSE "looked"]]
  /\ UNCHANGED <<wsVars, server, cached, quiet, form, outcome>>

Scan(p) ==
  /\ page[p].at = "looked"
  /\ GoTo(p, IF Stray(page[p].year) THEN "unavailable" ELSE "scanned")
  /\ UNCHANGED <<wsVars, server, cached, quiet, form, outcome>>

(* bug: the packs are handed on, not stored. *)
StoreForgotten(p) ==
  /\ page[p].at = "scanned"
  /\ GoTo(p, "stored")
  /\ UNCHANGED <<wsVars, server, cached, quiet, form, outcome>>

Store(p) ==
  /\ page[p].at = "scanned"
  /\ cached' = [cached EXCEPT ![p][page[p].year] = IF page[p].overtaken THEN "late" ELSE "fresh"]
  /\ GoTo(p, "stored")
  /\ UNCHANGED <<wsVars, server, quiet, form, outcome>>

list_all_packs == {s \in Slots : Listed(dir[s])}

(* What the form offers: the standard packs and the custom federal ones.   *)
Offered ==
  {[slot |-> Standard, year |-> y, pack |-> Standard, again |-> FALSE] : y \in available_years}
  \cup {[slot |-> s, year |-> YearOf[s[1]], pack |-> dir[s].m, again |-> FALSE] :
          s \in {s \in list_all_packs : s[1] \in Federal /\ YearOf[s[1]] \in available_years}}

(* return state_cache[year]: a KeyError when the year has gone since; or   *)
(* the page is shown, and the user picks a pack in it.                     *)
calculate_form(p) ==
  /\ page[p].at = "stored"
  /\ IF cached[p][page[p].year] = "no"
     THEN GoTo(p, "lost") /\ UNCHANGED <<form, outcome>>
     ELSE /\ page' = [page EXCEPT ![p] = NoPage]
          /\ form' \in Offered /\ outcome' = None
  /\ UNCHANGED <<wsVars, server, cached, quiet>>

ShowError(p) ==
  /\ page[p].at \in {"unavailable", "lost"}
  /\ page' = [page EXCEPT ![p] = NoPage]
  /\ UNCHANGED <<wsVars, server, cached, quiet, form, outcome>>

-----------------------------------------------------------------------------
(* A calculation.                                                          *)

(* bug: a variant that is gone gives way to the standard pack. *)
PackOrStandard(choice) ==
  IF choice.slot = Standard \/ dir[choice.slot] = Absent THEN Standard
  ELSE IF Loads(dir[choice.slot]) THEN dir[choice.slot].r.pack ELSE None

(* The federal pack calculate_submit loads for the posted variant.         *)
PackFor(choice) ==
  IF choice.slot = Standard THEN Standard
  ELSE IF Loads(dir[choice.slot]) THEN dir[choice.slot].r.pack ELSE None

StatesLoad(p, y) == cached[p][y] # "no" \/ ~Stray(y)

(* get_state_packs on the event loop, where no bust comes in between.      *)
FillCache(p, y) ==
  cached' = IF cached[p][y] = "no" /\ ~Stray(y) THEN [cached EXCEPT ![p][y] = "fresh"] ELSE cached

calculate_submit(p) ==
  /\ Up(p) /\ Idle(p)
  /\ form # None
  /\ PackFor(form) # None /\ StatesLoad(p, form.year)
  /\ outcome' = [chosen |-> form.pack, used |-> PackFor(form),
                 again |-> form.again \/ form.slot \in overtaken]
  /\ form' = None
  /\ FillCache(p, form.year)
  /\ UNCHANGED <<wsVars, server, page, quiet>>

(* A pack that is gone, or does not load, is an error, shown with the form *)
(* of the packs there are now.                                             *)
SubmitFails(p) ==
  /\ Up(p) /\ Idle(p)
  /\ form # None
  /\ PackFor(form) = None \/ ~StatesLoad(p, form.year)
  /\ IF \A y \in available_years : StatesLoad(p, y)
     THEN form' \in Offered /\ FillCache(p, form.year)
     ELSE form' = None /\ UNCHANGED cached
  /\ UNCHANGED <<wsVars, server, page, quiet, outcome>>

-----------------------------------------------------------------------------
Init ==
  /\ WorkspaceInit
  /\ server = [p \in Procs |-> "down"]
  /\ cached = [p \in Procs |-> [y \in Years |-> "no"]]
  /\ page = [p \in Procs |-> NoPage]
  /\ quiet = [p \in Procs |-> {}]
  /\ form = None /\ outcome = None

Edit(p) == Handle(p) \/ Work(p) \/ Respond(p) \/ Raises(p)
Serve(p) ==
  \/ LookUp(p) \/ Scan(p) \/ Store(p) \/ calculate_form(p) \/ ShowError(p)
  \/ calculate_submit(p) \/ SubmitFails(p)

Next == \E p \in Procs : warm_caches(p) \/ Dies(p) \/ Edit(p) \/ Serve(p)

Spec == Init /\ [][Next]_vars

-----------------------------------------------------------------------------
(* A calculation uses the federal pack the user picked in the form, never  *)
(* another in its place; only the number of a deleted pack, given out      *)
(* again since the form was opened or under a running request for the old  *)
(* pack, lets a different one in.                                          *)
RunUsesChosenPack ==
  outcome # None => outcome.used = outcome.chosen \/ outcome.again

(* Once an edit has busted the cache of a process, no page of it builds on *)
(* state packs read before; the exception is a year that a thread stores   *)
(* after the bust, having scanned before.                                  *)
CacheIsFresh == \A p \in Procs, y \in Years :
  cached[p][y] = "fresh" /\ Stray(y) => y \in quiet[p]

(* A page loses the state packs it has just looked up only to a bust that  *)
(* came in between, and cannot build them only over a stray directory.     *)
PagesAnswered == \A p \in Procs :
  /\ page[p].at = "lost" => page[p].overtaken
  /\ page[p].at = "unavailable" => Stray(page[p].year)

(* As discover_available_years has it, no directory without a manifest     *)
(* makes warm_caches fail: a server that is started comes up.              *)
StartsUp == \A p \in Procs : server[p] # "failed"
=============================================================================
