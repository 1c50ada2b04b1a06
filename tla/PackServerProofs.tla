--------------------------- MODULE PackServerProofs ---------------------------
(***************************************************************************)
(* The theorems of PackServer, for any processes, places, packs and rules, *)
(* with the lemmas about PackWorkspace they rest on.                       *)
(*                                                                         *)
(* WsInv, the invariant of the workspace, is kept by every step of a       *)
(* request.  It has three parts: what a request carries; that the files of *)
(* a slot and the requests on it are of one pack; and how far the requests *)
(* on a slot have brought it.  The invariant of the server adds what the   *)
(* pages and the caches of a process know of the year directories, and     *)
(* what the open form knows of the pack it shows.                          *)
(***************************************************************************)
EXTENDS PackServer, WellFoundedInduction, TLAPS

Op(p) == req[p].op
Step(p) == req[p].at
Edits == {"save_rule", "delete_rule", "save_constant", "delete_constant"}
Removals == {"delete", "reject"}

(* A request that works on s: a creation that has made its directory, or   *)
(* any other.                                                              *)
On(p, s) == Op(p) # "none" /\ ~(Op(p) \in Creations /\ Step(p) = 1) /\ Slot(p) = s

Removing(s) == \E p \in Procs : On(p, s) /\ Op(p) \in Removals
Half(s) == \E p \in Procs : On(p, s) /\ Op(p) \in Removals \cup {"create", "import"}

-----------------------------------------------------------------------------
(* What a request carries. *)
Carries(p) ==
  /\ Op(p) = "none" => req[p] = NoRequest
  /\ Op(p) # "none" => Slot(p) \in Slots
  /\ Op(p) \in Creations \cup {"reject"} =>
       req[p].man \in Packs /\ (req[p].doc \in Document => req[p].doc.pack = req[p].man)
  /\ Op(p) \in Creations => Slot(p)[1] \in years
  /\ Op(p) \in {"create", "import", "reject"} => req[p].doc \in Document
  /\ Op(p) = "create" => req[p].doc.entries = {}
  /\ Op(p) \in Edits => req[p].man \in Packs /\ req[p].doc \in Document
                          /\ Loadable(req[p].doc.entries)
  /\ Op(p) = "delete" => req[p].man = None /\ req[p].doc = None
  /\ Op(p) = "clone" => req[p].src \in Numbers \cup {Standard}
  /\ Op(p) # "clone" => req[p].src = None

Requests == \A p \in Procs : Carries(p)

(* The files of a slot, and those the requests on it write, are of pack k. *)
OfPack(s, k) ==
  /\ dir[s] # Absent => /\ dir[s].m \in {None, k}
                        /\ dir[s].r \in {None, Torn} \/ dir[s].r.pack = k
  /\ \A p \in Procs : On(p, s) =>
       /\ req[p].man \in {None, k}
       /\ req[p].doc \in {None, Torn} \/ req[p].doc.pack = k

OnePack == \A s \in Slots \ overtaken : \E k \in Packs \cup {None} : OfPack(s, k)

-----------------------------------------------------------------------------
(* How far a slot has come. *)
RulesDue(p) == \/ Op(p) \in {"create", "clone"} /\ Step(p) \in {2, 3}
               \/ Op(p) = "import" /\ Step(p) \in {2, 3, 4}
ManifestDue(p) == Op(p) = "clone" /\ Step(p) \in {2, 3, 4}

Due(p) == RulesDue(p) \/ ManifestDue(p)

Unfilled(d) == d = Absent \/ d.r \in {None, Torn}
Unnamed(d) == d = Absent \/ d.m = None
Sound(d) == d # Absent => d.r \notin {None, Torn} /\ Loadable(d.r.entries)

(* While a pack is being made, others can only delete it. *)
Exclusive(s) == \A p, q \in Procs :
  On(p, s) /\ On(q, s) /\ p # q /\ Due(p) => Op(q) = "delete"
NoRulesYet(s) == \A p \in Procs : On(p, s) /\ RulesDue(p) => Unfilled(dir[s])
NoManifestYet(s) == \A p \in Procs : On(p, s) /\ ManifestDue(p) => Unnamed(dir[s])

(* A clone has the rules of its source when it comes to its manifest. *)
CloneSound(s) == s \notin cut => \A p \in Procs : On(p, s) /\ Op(p) = "clone" =>
  /\ Step(p) = 3 => req[p].doc \in Document /\ Loadable(req[p].doc.entries)
  /\ Step(p) = 4 /\ ~Removing(s) => Sound(dir[s])

(* What an import checked, or a creation wrote, is what it leaves. *)
CreationSound(s) == s \notin cut /\ ~Removing(s) => \A p \in Procs : On(p, s) =>
  /\ Op(p) = "create" /\ Step(p) = 3 => dir[s] = Absent \/ dir[s].m # None
  /\ Op(p) = "create" /\ Step(p) = 4 => dir[s] = Absent \/ Loads(dir[s])
  /\ Op(p) = "import" /\ Step(p) = 6 => dir[s] = Absent \/ Loads(dir[s])

RemovedIsGone(s) == \A p \in Procs :
  On(p, s) /\ Op(p) \in Removals /\ Step(p) = 3 => dir[s] = Absent
EditedIsNamed(s) == s \notin cut /\ ~Half(s) =>
  \A p \in Procs : On(p, s) /\ Op(p) \in Edits => dir[s] = Absent \/ dir[s].m # None
ListedIsSound(s) == s \notin cut /\ ~Half(s) => Unnamed(dir[s]) \/ Loads(dir[s])

SlotInv(s) ==
  /\ Exclusive(s) /\ NoRulesYet(s) /\ NoManifestYet(s)
  /\ CloneSound(s) /\ CreationSound(s)
  /\ RemovedIsGone(s) /\ EditedIsNamed(s) /\ ListedIsSound(s)

SlotsInv == \A s \in Slots \ overtaken : SlotInv(s)

(* The source of a clone loads, or is about to be seen to be gone. *)
Loose(d) == d = Absent \/ d.r \in {None, Torn} \/ Loadable(d.r.entries)
Sources == \A p \in Procs :
  Op(p) = "clone" /\ req[p].src \in Numbers /\ Step(p) \in {1, 2} =>
    /\ SourceSlot(p) # Slot(p)
    /\ SourceSlot(p) \notin overtaken =>
         /\ Loose(dir[SourceSlot(p)])
         /\ \A q \in Procs : On(q, SourceSlot(p)) => ~RulesDue(q)

WsInv == TypeOK /\ Requests /\ OnePack /\ SlotsInv /\ Sources

WsStep(p) == Receive(p) \/ Write(p) \/ Finish(p) \/ Stops(p)

-----------------------------------------------------------------------------
(* The plans, step by step. *)
LEMMA PlanFacts ==
  ASSUME TypeOK, NEW p \in Procs
  PROVE  /\ Op(p) \in {"none"} \cup Creations \cup Removals \cup Edits
         /\ Step(p) \in 1..6
         /\ At(p, "idle") <=> Op(p) = "none"
         /\ At(p, "mkdir") <=> Op(p) \in Creations /\ Step(p) = 1
         /\ At(p, "manifest") <=> \/ Op(p) \in {"create", "import"} /\ Step(p) = 2
                                  \/ Op(p) = "clone" /\ Step(p) = 4
                                  \/ Op(p) = "save_rule" /\ Step(p) = 1
         /\ At(p, "rules") <=> \/ Op(p) = "create" /\ Step(p) = 3
                               \/ Op(p) = "save_rule" /\ Step(p) = 2
                               \/ Op(p) \in Edits \ {"save_rule"} /\ Step(p) = 1
         /\ At(p, "truncate") <=> \/ Op(p) = "clone" /\ Step(p) = 2
                                  \/ Op(p) = "import" /\ Step(p) = 3
         /\ At(p, "fill") <=> \/ Op(p) = "clone" /\ Step(p) = 3
                              \/ Op(p) = "import" /\ Step(p) = 4
         /\ At(p, "check") <=> Op(p) = "import" /\ Step(p) = 5
         /\ At(p, "unlink") <=> Op(p) \in Removals /\ Step(p) = 1
         /\ At(p, "rmdir") <=> Op(p) \in Removals /\ Step(p) = 2
         /\ At(p, "bust") <=> \/ Op(p) = "create" /\ Step(p) = 4
                              \/ Op(p) = "clone" /\ Step(p) = 5
                              \/ Op(p) = "import" /\ Step(p) = 6
                              \/ Op(p) = "delete" /\ Step(p) = 3
                              \/ Op(p) = "save_rule" /\ Step(p) = 3
                              \/ Op(p) \in Edits \ {"save_rule"} /\ Step(p) = 2
         /\ At(p, "fail") <=> Op(p) = "reject" /\ Step(p) = 3
<1>1. Op(p) \in Ops /\ Step(p) \in 1..6 /\ Step(p) \in DOMAIN Plan[Op(p)]
  BY DEF TypeOK, Request, Op, Step
<1>2. Op(p) \in {"none"} \cup Creations \cup Removals \cup Edits
  BY <1>1 DEF Ops, Plan, Creations, Removals, Edits
<1>3. CASE Op(p) = "none"
  BY <1>1, <1>3 DEF At, Op, Step, Plan, Creations, Removals, Edits
<1>4. CASE Op(p) = "create"
  BY <1>1, <1>4 DEF At, Op, Step, Plan, Creations, Removals, Edits
<1>5. CASE Op(p) = "clone"
  BY <1>1, <1>5 DEF At, Op, Step, Plan, Creations, Removals, Edits
<1>6. CASE Op(p) = "import"
  BY <1>1, <1>6 DEF At, Op, Step, Plan, Creations, Removals, Edits
<1>7. CASE Op(p) \in Removals
  BY <1>1, <1>7 DEF At, Op, Step, Plan, Creations, Removals, Edits
<1>8. CASE Op(p) \in Edits
  BY <1>1, <1>8 DEF At, Op, Step, Plan, Creations, Removals, Edits
<1> QED
  BY <1>2, <1>3, <1>4, <1>5, <1>6, <1>7, <1>8 DEF Creations

LEMMA PlanEnds ==
  /\ Plan["none"] = <<"idle">>
  /\ DOMAIN Plan["none"] = 1..1
  /\ DOMAIN Plan["create"] = 1..4 /\ DOMAIN Plan["clone"] = 1..5
  /\ DOMAIN Plan["import"] = 1..6 /\ DOMAIN Plan["save_rule"] = 1..3
  /\ \A o \in Removals : DOMAIN Plan[o] = 1..3
  /\ \A o \in Edits \ {"save_rule"} : DOMAIN Plan[o] = 1..2
  /\ \A o \in {"none"} \cup Creations \cup Removals \cup Edits :
       o \in Ops /\ 1 \in DOMAIN Plan[o]
<1>1. \A o \in {"none"} \cup Creations \cup Removals \cup Edits : o \in Ops
  BY DEF Ops, Plan, Creations, Removals, Edits
<1> QED
  BY <1>1 DEF Plan, Creations, Removals, Edits

(* What the sentinels are not. *)
LEMMA Sentinels ==
  /\ None \notin Document /\ None \notin Packs /\ None \notin Slots /\ None \notin Numbers
  /\ Torn \notin Document /\ None # Torn /\ Absent \notin {None, Torn}
  /\ Standard \notin Numbers /\ Standard # None /\ Absent \notin Directory
BY WorkspaceAssumption

LEMMA Typed ==
  ASSUME TypeOK
  PROVE  /\ \A s \in Slots : dir[s] # Absent =>
              /\ dir[s] \in Directory
              /\ dir[s].m \in Packs \cup {None}
              /\ dir[s].r \in Document \cup {None, Torn}
         /\ \A p \in Procs : /\ req[p] \in Request
                             /\ Slot(p) \in Slots \cup {None}
                             /\ req[p].man \in Packs \cup {None}
                             /\ req[p].doc \in Document \cup {None, Torn}
                             /\ req[p].src \in Numbers \cup {Standard, None}
                             /\ req[p].todo \subseteq {"m", "r"}
         /\ \A d \in Document : d.pack \in Packs /\ d.entries \subseteq Entries
BY DEF TypeOK, Request, Directory, Document, Slot

-----------------------------------------------------------------------------
(* The kinds of steps. *)
Others(p) == \A q \in Procs \ {p} : req'[q] = req[q]
OtherSlots(p) == \A t \in Slots \ {Slot(p)} : dir'[t] = dir[t] /\ (t \in cut' <=> t \in cut)

(* The request goes on to its step n. *)
GoesOn(p, n) ==
  /\ Op(p)' = Op(p) /\ Step(p)' = n /\ Slot(p)' = Slot(p)
  /\ req'[p].man = req[p].man /\ req'[p].src = req[p].src

(* It ends. What it leaves half done is in cut. *)
Leaves(p) ==
  /\ req'[p] = NoRequest
  /\ dir' = dir /\ overtaken' = overtaken
  /\ Op(p) \in Removals => Step(p) = 3 \/ Slot(p) \in cut'
  /\ Op(p) \in {"create", "import"} =>
       \/ Step(p) = 1 \/ dir[Slot(p)] = Absent \/ Slot(p) \in cut'
       \/ Op(p) = "create" /\ Step(p) = 4
       \/ Op(p) = "import" /\ Step(p) = 6
  /\ \A t \in Slots : t \in cut => t \in cut'

Makes(p) ==
  /\ Op(p) \in Creations /\ Step(p) = 1
  /\ GoesOn(p, 2) /\ req'[p].doc = req[p].doc
  /\ dir[Slot(p)] = Absent /\ dir'[Slot(p)] = [m |-> None, r |-> None]
  /\ Slot(p) \notin cut'
  /\ overtaken \subseteq overtaken'
  /\ Slot(p) \notin overtaken' => \A q \in Procs \ {p} : ~On(q, Slot(p))
  /\ \A q \in Procs \ {p} : Op(q) = "clone" /\ req[q].src \in Numbers
       /\ SourceSlot(q) = Slot(p) /\ Slot(q) # Slot(p) => Slot(p) \in overtaken'

(* A file of its slot, which is there, is written whole. *)
Puts(p, manifest, rules) ==
  /\ GoesOn(p, Step(p) + 1) /\ req'[p].doc = req[p].doc
  /\ dir[Slot(p)] # Absent
  /\ dir'[Slot(p)] = [m |-> manifest, r |-> rules]
  /\ cut' = cut /\ overtaken' = overtaken

PutsManifest(p) ==
  /\ \/ Op(p) \in {"create", "import"} /\ Step(p) = 2
     \/ Op(p) = "clone" /\ Step(p) = 4
     \/ Op(p) = "save_rule" /\ Step(p) = 1
  /\ Puts(p, req[p].man, dir[Slot(p)].r)

PutsRules(p) ==
  /\ \/ Op(p) \in {"create", "clone"} /\ Step(p) = 3
     \/ Op(p) = "import" /\ Step(p) = 4
     \/ Op(p) = "save_rule" /\ Step(p) = 2
     \/ Op(p) \in Edits \ {"save_rule"} /\ Step(p) = 1
  /\ Puts(p, dir[Slot(p)].m, req[p].doc)

Tears(p) ==
  /\ \/ Op(p) = "clone" /\ Step(p) = 2
     \/ Op(p) = "import" /\ Step(p) = 3
  /\ GoesOn(p, Step(p) + 1)
  /\ req'[p].doc = IF Op(p) = "import" THEN req[p].doc ELSE SourceRules(p)
  /\ dir[Slot(p)] # Absent
  /\ dir'[Slot(p)] = [m |-> dir[Slot(p)].m, r |-> Torn]
  /\ overtaken' = overtaken
  /\ Op(p) = "clone" /\ (SourceRules(p) \in {None, Torn} \/ SourceSlot(p) \in overtaken)
       => Slot(p) \in cut'
  /\ \A t \in Slots : t \in cut => t \in cut'

Skips(p) ==
  /\ Op(p) = "clone" /\ Step(p) = 2
  /\ GoesOn(p, 4) /\ req'[p].doc = req[p].doc
  /\ dir' = dir /\ overtaken' = overtaken
  /\ Slot(p) \in cut'

Passes(p) ==
  /\ Op(p) = "import" /\ Step(p) = 5 /\ Loads(dir[Slot(p)])
  /\ GoesOn(p, 6) /\ req'[p].doc = req[p].doc
  /\ dir' = dir /\ cut' = cut /\ overtaken' = overtaken

Rejects(p) ==
  /\ Op(p) = "import" /\ Step(p) = 5
  /\ Op(p)' = "reject" /\ Step(p)' = 1 /\ Slot(p)' = Slot(p)
  /\ req'[p].man = req[p].man /\ req'[p].src = req[p].src /\ req'[p].doc = req[p].doc
  /\ dir' = dir /\ cut' = cut /\ overtaken' = overtaken

(* Files go, and then the directory. *)
Clears(p) ==
  /\ Op(p) \in Removals /\ Step(p) \in {1, 2}
  /\ GoesOn(p, Step(p)') /\ req'[p].doc = req[p].doc
  /\ \/ Step(p)' \in {1, 2} /\ dir[Slot(p)] = Absent /\ dir' = dir
     \/ Step(p)' \in {1, 2} /\ dir[Slot(p)] # Absent /\ \E d \in Directory :
          /\ dir'[Slot(p)] = d
          /\ d.m \in {None, dir[Slot(p)].m} /\ d.r \in {None, dir[Slot(p)].r}
     \/ Step(p)' = 3 /\ dir'[Slot(p)] = Absent
  /\ cut' = cut /\ overtaken' = overtaken

-----------------------------------------------------------------------------
(* Each step of a request is of one of these kinds. *)
LEMMA AdvanceFields ==
  ASSUME TypeOK, NEW p \in Procs, Advance(p)
  PROVE  /\ GoesOn(p, Step(p) + 1) /\ req'[p].doc = req[p].doc
         /\ req'[p].todo = req[p].todo
         /\ Others(p) /\ DOMAIN req' = Procs
         /\ Step(p) + 1 \in 1..6 => req'[p] \in Request
<1>1. DOMAIN req = Procs /\ req[p] \in Request
  BY DEF TypeOK
<1>2. req'[p] = [req[p] EXCEPT !.at = @ + 1] /\ Others(p) /\ DOMAIN req' = Procs
  BY <1>1 DEF Advance, Others
<1> QED
  BY <1>1, <1>2 DEF GoesOn, Op, Step, Slot, Request

LEMMA EndFields ==
  ASSUME TypeOK, NEW p \in Procs, End(p)
  PROVE  req'[p] = NoRequest /\ Others(p) /\ DOMAIN req' = Procs
BY DEF TypeOK, End, Others

LEMMA MakeDirectoryKind ==
  ASSUME TypeOK, Requests, NEW p \in Procs, MakeDirectory(p)
  PROVE  Makes(p) \/ Leaves(p)
<1>1. /\ Op(p) \in Creations /\ Step(p) = 1 /\ At(p, "mkdir")
      /\ Slot(p) \in Slots /\ DOMAIN req = Procs
  BY PlanFacts DEF MakeDirectory, Requests, Carries, Creations, TypeOK
<1>2. CASE Here(p) # Absent
  BY <1>1, <1>2 DEF MakeDirectory, Leaves, End, Removals, Creations
<1>3. CASE Here(p) = Absent
  <2>1. GoesOn(p, 2) /\ req'[p].doc = req[p].doc
    BY <1>1, <1>3, AdvanceFields DEF MakeDirectory
  <2>2. dir'[Slot(p)] = [m |-> None, r |-> None] /\ Slot(p) \notin cut'
    BY <1>1, <1>3 DEF MakeDirectory, TypeOK
  <2>3. overtaken \subseteq overtaken'
    BY <1>3 DEF MakeDirectory
  <2>4. ASSUME NEW q \in Procs \ {p}, Slot(p) \in Holds(q),
               ~(Slot(q) = Slot(p) /\ At(q, "mkdir"))
        PROVE  Slot(p) \in overtaken'
    BY <1>3, <2>4 DEF MakeDirectory
  <2>5. ASSUME NEW q \in Procs \ {p}, On(q, Slot(p)) PROVE Slot(p) \in overtaken'
    <3>1. Op(q) # "none" /\ Slot(q) = Slot(p) /\ ~At(q, "mkdir") /\ ~Idle(q)
      BY <2>5, PlanFacts DEF On, Idle
    <3> QED
      BY <3>1, <2>4 DEF Holds
  <2>6. ASSUME NEW q \in Procs \ {p}, Op(q) = "clone", req[q].src \in Numbers,
               SourceSlot(q) = Slot(p), Slot(q) # Slot(p), Slot(p) \notin overtaken'
        PROVE  FALSE
    <3>1. ~Idle(q) /\ Slot(p) \in Holds(q)
      BY <2>6, PlanFacts DEF Holds, Idle
    <3>2. Slot(q) = Slot(p) /\ At(q, "mkdir")
      BY <3>1, <2>4, <2>6
    <3> QED
      BY <2>6, <3>2
  <2> QED
    BY <1>1, <1>3, <2>1, <2>2, <2>3, <2>5, <2>6 DEF Makes, Here
<1> QED
  BY <1>2, <1>3

LEMMA WriteManifestKind ==
  ASSUME TypeOK, Requests, NEW p \in Procs, WriteManifest(p)
  PROVE  PutsManifest(p) \/ Leaves(p)
<1>1. /\ \/ Op(p) \in {"create", "import"} /\ Step(p) = 2
         \/ Op(p) = "clone" /\ Step(p) = 4
         \/ Op(p) = "save_rule" /\ Step(p) = 1
      /\ Slot(p) \in Slots /\ Op(p) \notin Removals
      /\ Op(p) # "clone" => req[p].src = None
  BY PlanFacts DEF WriteManifest, Requests, Carries, Creations, Edits, Removals
<1>2. cut' = cut /\ overtaken' = overtaken
  BY DEF WriteManifest, Put
<1>3. CASE Here(p) # Absent /\ (req[p].src \in Numbers => Listed(Source(p)))
  <2>1. Advance(p) /\ dir' = [dir EXCEPT ![Slot(p)]["m"] = req[p].man]
    BY <1>3 DEF WriteManifest, Put
  <2>2. dir[Slot(p)] \in Directory
    BY <1>1, <1>3, Typed DEF Here
  <2>3. dir'[Slot(p)] = [m |-> req[p].man, r |-> dir[Slot(p)].r]
    BY <1>1, <2>1, <2>2 DEF TypeOK, Directory
  <2> QED
    BY <1>1, <1>2, <1>3, <2>1, <2>3, AdvanceFields DEF PutsManifest, Puts, Here
<1>4. CASE ~(Here(p) # Absent /\ (req[p].src \in Numbers => Listed(Source(p))))
  <2>1. End(p) /\ dir' = dir
    BY <1>4 DEF WriteManifest, Put
  <2>2. Op(p) \in {"create", "import"} => dir[Slot(p)] = Absent
    BY <1>1, <1>4, Sentinels DEF Here
  <2> QED
    BY <1>1, <1>2, <2>1, <2>2, EndFields DEF Leaves
<1> QED
  BY <1>3, <1>4

LEMMA WriteRulesKind ==
  ASSUME TypeOK, Requests, NEW p \in Procs, WriteRules(p) \/ FillRules(p)
  PROVE  PutsRules(p) \/ Leaves(p)
<1>1. /\ \/ Op(p) \in {"create", "clone"} /\ Step(p) = 3
         \/ Op(p) = "import" /\ Step(p) = 4
         \/ Op(p) = "save_rule" /\ Step(p) = 2
         \/ Op(p) \in Edits \ {"save_rule"} /\ Step(p) = 1
      /\ Slot(p) \in Slots /\ Op(p) \notin Removals
  BY PlanFacts DEF WriteRules, FillRules, Requests, Carries, Creations, Edits, Removals
<1>2. cut' = cut /\ overtaken' = overtaken
  BY DEF WriteRules, FillRules, Put
<1>3. CASE Here(p) # Absent
  <2>1. Advance(p) /\ dir' = [dir EXCEPT ![Slot(p)]["r"] = req[p].doc]
    BY <1>3 DEF WriteRules, FillRules, Put
  <2>2. dir[Slot(p)] \in Directory
    BY <1>1, <1>3, Typed DEF Here
  <2>3. dir'[Slot(p)] = [m |-> dir[Slot(p)].m, r |-> req[p].doc]
    BY <1>1, <2>1, <2>2 DEF TypeOK, Directory
  <2> QED
    BY <1>1, <1>2, <1>3, <2>1, <2>3, AdvanceFields DEF PutsRules, Puts, Here
<1>4. CASE Here(p) = Absent
  <2>1. End(p) /\ dir' = dir
    BY <1>4 DEF WriteRules, FillRules, Put
  <2> QED
    BY <1>1, <1>2, <1>4, <2>1, EndFields DEF Leaves, Here
<1> QED
  BY <1>3, <1>4

LEMMA TruncateRulesKind ==
  ASSUME TypeOK, Requests, NEW p \in Procs, TruncateRules(p)
  PROVE  Tears(p) \/ Skips(p) \/ Leaves(p)
<1>1. /\ \/ Op(p) = "clone" /\ Step(p) = 2
         \/ Op(p) = "import" /\ Step(p) = 3
      /\ Slot(p) \in Slots /\ Op(p) \notin Removals
      /\ DOMAIN req = Procs /\ req[p] \in Request
  BY PlanFacts DEF TruncateRules, Requests, Carries, Creations, Removals, TypeOK
<1>2. /\ overtaken' = overtaken
      /\ \A t \in Slots : t \in cut => t \in cut'
      /\ Op(p) = "clone" /\ (SourceRules(p) \in {None, Torn} \/ SourceSlot(p) \in overtaken)
           => Slot(p) \in cut'
  BY <1>1 DEF TruncateRules, Op
<1>3. CASE Op(p) = "clone" /\ SourceRules(p) = None
  <2>1. dir' = dir /\ req' = [req EXCEPT ![p].at = @ + 2]
    BY <1>3 DEF TruncateRules, Op
  <2>2. req'[p] = [req[p] EXCEPT !.at = @ + 2]
    BY <1>1, <2>1
  <2>3. GoesOn(p, 4) /\ req'[p].doc = req[p].doc
    BY <1>1, <1>3, <2>2 DEF GoesOn, Op, Step, Slot, Request
  <2> QED
    BY <1>1, <1>2, <1>3, <2>1, <2>3 DEF Skips
<1>4. CASE ~(Op(p) = "clone" /\ SourceRules(p) = None) /\ Here(p) # Absent
  <2>1. /\ dir' = [dir EXCEPT ![Slot(p)].r = Torn]
        /\ req' = [req EXCEPT ![p].at = @ + 1,
                 ![p].doc = IF req[p].op = "import" THEN @ ELSE SourceRules(p)]
    BY <1>4 DEF TruncateRules, Op
  <2>2. dir[Slot(p)] \in Directory
    BY <1>1, <1>4, Typed DEF Here
  <2>3. dir'[Slot(p)] = [m |-> dir[Slot(p)].m, r |-> Torn]
    BY <1>1, <2>1, <2>2 DEF TypeOK, Directory
  <2>4. req'[p] = [req[p] EXCEPT !.at = @ + 1,
                     !.doc = IF req[p].op = "import" THEN @ ELSE SourceRules(p)]
    BY <1>1, <2>1
  <2>5. /\ GoesOn(p, Step(p) + 1)
        /\ req'[p].doc = IF Op(p) = "import" THEN req[p].doc ELSE SourceRules(p)
    BY <1>1, <2>4 DEF GoesOn, Op, Step, Slot, Request
  <2> QED
    BY <1>1, <1>2, <1>4, <2>3, <2>5 DEF Tears, Here
<1>5. CASE ~(Op(p) = "clone" /\ SourceRules(p) = None) /\ Here(p) = Absent
  <2>1. dir' = dir /\ End(p)
    BY <1>5 DEF TruncateRules, Op
  <2> QED
    BY <1>1, <1>2, <1>5, <2>1, EndFields DEF Leaves, Here
<1> QED
  BY <1>3, <1>4, <1>5

LEMMA CheckImportKind ==
  ASSUME TypeOK, Requests, NEW p \in Procs, CheckImport(p)
  PROVE  Passes(p) \/ Rejects(p)
<1>1. /\ Op(p) = "import" /\ Step(p) = 5
      /\ dir' = dir /\ cut' = cut /\ overtaken' = overtaken
      /\ DOMAIN req = Procs /\ req[p] \in Request
  BY PlanFacts DEF CheckImport, TypeOK
<1>2. CASE Loads(Here(p))
  BY <1>1, <1>2, AdvanceFields DEF CheckImport, Passes, Here
<1>3. CASE ~Loads(Here(p))
  <2> DEFINE files == IF Here(p) = Absent THEN {} ELSE Files(Here(p))
  <2>1. req' = [req EXCEPT ![p].op = "reject", ![p].at = 1, ![p].todo = files]
    BY <1>3 DEF CheckImport
  <2>2. req'[p] = [req[p] EXCEPT !.op = "reject", !.at = 1, !.todo = files]
    BY <1>1, <2>1
  <2> QED
    BY <1>1, <2>2 DEF Rejects, Op, Step, Slot, Request
<1> QED
  BY <1>2, <1>3

LEMMA RemovalKind ==
  ASSUME TypeOK, Requests, NEW p \in Procs,
         Unlink(p) \/ NothingToUnlink(p) \/ RemoveDirectory(p)
  PROVE  Clears(p) \/ Leaves(p)
<1>1. Slot(p) \in Slots \/ Op(p) = "none"
  BY DEF Requests, Carries
<1>2. CASE Unlink(p)
  <2>1. PICK f \in req[p].todo :
          /\ dir' = [dir EXCEPT ![Slot(p)] = IF @ = Absent THEN @ ELSE [@ EXCEPT ![f] = None]]
          /\ req' = [req EXCEPT ![p].todo = @ \ {f},
                                ![p].at = IF req[p].todo = {f} THEN 2 ELSE 1]
          /\ cut' = cut /\ overtaken' = overtaken
          /\ At(p, "unlink")
    BY <1>2 DEF Unlink
  <2>2. Op(p) \in Removals /\ Step(p) = 1 /\ Slot(p) \in Slots
    BY <1>1, <2>1, PlanFacts DEF Removals
  <2>3. req[p] \in Request /\ DOMAIN req = Procs /\ f \in {"m", "r"}
    BY <2>1, Typed DEF TypeOK
  <2>4. req'[p] = [req[p] EXCEPT !.todo = @ \ {f},
                                 !.at = IF req[p].todo = {f} THEN 2 ELSE 1]
    BY <2>1, <2>3
  <2>5. GoesOn(p, Step(p)') /\ Step(p)' \in {1, 2} /\ req'[p].doc = req[p].doc
    BY <2>3, <2>4 DEF GoesOn, Op, Step, Slot, Request
  <2>6. CASE dir[Slot(p)] = Absent
    <3>1. dir' = dir
      BY <2>1, <2>2, <2>6 DEF TypeOK
    <3> QED
      BY <2>1, <2>2, <2>5, <2>6, <3>1 DEF Clears
  <2>7. CASE dir[Slot(p)] # Absent
    <3> DEFINE d == [dir[Slot(p)] EXCEPT ![f] = None]
    <3>1. dir[Slot(p)] \in Directory
      BY <2>2, <2>7, Typed
    <3>2. dir'[Slot(p)] = d
      BY <2>1, <2>2, <2>7 DEF TypeOK
    <3>3. d \in Directory /\ d.m \in {None, dir[Slot(p)].m} /\ d.r \in {None, dir[Slot(p)].r}
      <4>1. CASE f = "m"
        BY <3>1, <4>1 DEF Directory
      <4>2. CASE f = "r"
        BY <3>1, <4>2 DEF Directory
      <4> QED
        BY <2>3, <4>1, <4>2
    <3> HIDE DEF d
    <3> QED
      BY <2>1, <2>2, <2>5, <2>7, <3>2, <3>3 DEF Clears
  <2> QED
    BY <2>6, <2>7
<1>3. CASE NothingToUnlink(p)
  <2>1. /\ Op(p) \in Removals /\ Step(p) = 1 /\ Slot(p) \in Slots
        /\ dir' = dir /\ cut' = cut /\ overtaken' = overtaken /\ Advance(p)
    BY <1>1, <1>3, PlanFacts DEF NothingToUnlink, Removals
  <2>2. GoesOn(p, 2) /\ Step(p)' = 2 /\ req'[p].doc = req[p].doc
    BY <2>1, AdvanceFields DEF GoesOn
  <2>3. dir[Slot(p)] # Absent => dir[Slot(p)] \in Directory
    BY <2>1, Typed
  <2> QED
    BY <2>1, <2>2, <2>3 DEF Clears
<1>4. CASE RemoveDirectory(p)
  <2>1. /\ Op(p) \in Removals /\ Step(p) = 2 /\ Slot(p) \in Slots
        /\ overtaken' = overtaken
    BY <1>1, <1>4, PlanFacts DEF RemoveDirectory, Removals
  <2>2. CASE Here(p) # Absent /\ Files(Here(p)) = {}
    <3>1. dir' = [dir EXCEPT ![Slot(p)] = Absent] /\ Advance(p) /\ cut' = cut
      BY <1>4, <2>2 DEF RemoveDirectory
    <3>2. dir'[Slot(p)] = Absent
      BY <2>1, <3>1 DEF TypeOK
    <3>3. GoesOn(p, 3) /\ Step(p)' = 3 /\ req'[p].doc = req[p].doc
      BY <2>1, <3>1, AdvanceFields DEF GoesOn
    <3> QED
      BY <2>1, <3>1, <3>2, <3>3 DEF Clears
  <2>3. CASE ~(Here(p) # Absent /\ Files(Here(p)) = {})
    <3>1. End(p) /\ cut' = cut \cup {Slot(p)} /\ dir' = dir
      BY <1>4, <2>3 DEF RemoveDirectory
    <3> QED
      BY <2>1, <3>1, EndFields DEF Leaves, Removals
  <2> QED
    BY <2>2, <2>3
<1> QED
  BY <1>2, <1>3, <1>4

LEMMA EndKind ==
  ASSUME TypeOK, Requests, NEW p \in Procs, Finish(p) \/ Stops(p)
  PROVE  Leaves(p)
<1>1. CASE Finish(p)
  <2>1. /\ \/ Op(p) \in Removals /\ Step(p) = 3
           \/ Op(p) = "create" /\ Step(p) = 4
           \/ Op(p) = "import" /\ Step(p) = 6
           \/ Op(p) = "clone" \/ Op(p) \in Edits
        /\ dir' = dir /\ cut' = cut /\ overtaken' = overtaken /\ End(p)
    BY <1>1, PlanFacts DEF Finish, Removals, Edits
  <2> QED
    BY <2>1, EndFields DEF Leaves, Removals, Edits
<1>2. CASE Stops(p)
  <2>1. Op(p) \in {"create", "import"} => Step(p) = 1 \/ Slot(p) \in cut'
    BY <1>2, PlanFacts DEF Stops, Creations, Op
  <2>2. Op(p) \in Removals => Slot(p) \in cut'
    BY <1>2, PlanFacts DEF Stops, Creations, Removals, Op
  <2>3. /\ End(p) /\ dir' = dir /\ overtaken' = overtaken
        /\ \A t \in Slots : t \in cut => t \in cut'
    BY <1>2 DEF Stops
  <2> QED
    BY <2>1, <2>2, <2>3, EndFields DEF Leaves
<1> QED
  BY <1>1, <1>2

-----------------------------------------------------------------------------
(* Requests that are taken up. *)
LEMMA MaxIsAbove ==
  ASSUME NEW n \in Nat, NEW S \in SUBSET (0..n), S # {}
  PROVE  Max(S) \in S /\ \A y \in S : y <= Max(S)
<1> DEFINE T == {n - y : y \in S}
           R == OpToRel(<, Nat)
<1>1. T \in SUBSET Nat /\ T # {}
  <2>1. \A y \in S : y \in 0..n
    OBVIOUS
  <2>2. \A y \in S : n - y \in Nat
    BY <2>1
  <2>3. PICK y \in S : TRUE
    OBVIOUS
  <2>4. n - y \in T
    OBVIOUS
  <2> QED
    BY <2>2, <2>4
<1>2. IsWellFoundedOn(R, Nat)
  BY NatLessThanWellFounded
<1>3. PICK x \in T : \A y \in T : <<y, x>> \notin R
  <2> HIDE DEF R, T
  <2> QED
    BY <1>1, <1>2, WFMin, Zenon
<1>4. \A y \in T : y < x => <<y, x>> \in R
  BY <1>1 DEF OpToRel
<1> HIDE DEF R
<1>5. \A y \in T : ~(y < x)
  BY <1>3, <1>4
<1>6. PICK z \in S : x = n - z
  BY <1>3
<1>7. \A y \in S : z >= y
  <2> SUFFICES ASSUME NEW y \in S PROVE z >= y
    OBVIOUS
  <2>1. n - y \in T
    OBVIOUS
  <2>2. ~(n - y < n - z)
    BY <1>5, <1>6, <2>1
  <2> QED
    BY <2>2
<1>8. Max(S) \in S /\ \A y \in S : Max(S) >= y
  BY <1>7 DEF Max
<1> QED
  BY <1>8

LEMMA NumberIsNew ==
  ASSUME TypeOK, NEW pl \in Places, NEW n \in Numbers, dir[<<pl, n>>] # Absent
  PROVE  n # _next_custom_variant_number(pl)
<1> DEFINE S == {0} \cup {m \in Numbers : dir[<<pl, m>>] # Absent}
<1>1. MaxNumber \in Nat
  BY WorkspaceAssumption
<1>2. S \in SUBSET (0..MaxNumber) /\ S # {} /\ n \in S
  BY <1>1 DEF Numbers
<1> HIDE DEF S
<1>3. n <= Max(S) /\ Max(S) \in 0..MaxNumber
  BY <1>1, <1>2, MaxIsAbove
<1>4. n # 1 + Max(S)
  BY <1>1, <1>3 DEF Numbers
<1> QED
  BY <1>4 DEF S, _next_custom_variant_number

TakesCreation(p) ==
  /\ Op(p) = "none" /\ Op(p)' \in Creations /\ Step(p)' = 1
  /\ Slot(p)' \in Slots /\ Slot(p)'[1] \in years'
  /\ req'[p].man \in Packs
  /\ Op(p)' = "clone" => /\ req'[p].doc = None /\ req'[p].src \in Numbers \cup {Standard}
                         /\ req'[p].src \in Numbers =>
                              /\ SourceSlot(p)' \in Slots /\ SourceSlot(p)' # Slot(p)'
                              /\ Loads(dir[SourceSlot(p)'])
  /\ Op(p)' # "clone" => /\ req'[p].src = None /\ req'[p].doc \in Document
                         /\ req'[p].doc.pack = req'[p].man
  /\ Op(p)' = "create" => req'[p].doc.entries = {}

TakesEdit(p) ==
  /\ Op(p) = "none" /\ Op(p)' \in Edits /\ Step(p)' = 1 /\ Slot(p)' \in Slots
  /\ Readable(dir[Slot(p)']) /\ req'[p].man = dir[Slot(p)'].m
  /\ req'[p].doc \in Document /\ req'[p].doc.pack = dir[Slot(p)'].r.pack
  /\ Loadable(req'[p].doc.entries) /\ req'[p].src = None

TakesDeletion(p) ==
  /\ Op(p) = "none" /\ Op(p)' = "delete" /\ Step(p)' = 1 /\ Slot(p)' \in Slots
  /\ req'[p].man = None /\ req'[p].doc = None /\ req'[p].src = None

LEMMA ReceiveKind ==
  ASSUME TypeOK, Requests, NEW p \in Procs, Receive(p)
  PROVE  TakesCreation(p) \/ TakesEdit(p) \/ TakesDeletion(p)
<1>1. Op(p) = "none" /\ DOMAIN req = Procs
  BY PlanFacts DEF Receive, Idle, TypeOK
<1>2. ASSUME NEW op \in {"create", "import"}, NEW pl \in Places, NEW k \in Packs,
             NEW entries \in SUBSET Entries, BeginNew(p, op, pl, k, entries),
             op = "create" => entries = {}
      PROVE  TakesCreation(p)
  <2> DEFINE n == _next_custom_variant_number(pl)
             d == [pack |-> k, entries |-> entries]
  <2>1. n \in Numbers /\ pl \in years'
    BY <1>2 DEF BeginNew
  <2>2. req'[p] = [op |-> op, at |-> 1, slot |-> <<pl, n>>, src |-> None,
                   man |-> k, doc |-> d, todo |-> {}]
    BY <1>1, <1>2 DEF BeginNew, Begin
  <2>3. <<pl, n>> \in Slots /\ d \in Document /\ d.pack = k /\ d.entries = entries
    BY <2>1 DEF Slots, Document
  <2> HIDE DEF n, d
  <2> QED
    BY <1>1, <1>2, <2>1, <2>2, <2>3 DEF TakesCreation, Op, Step, Slot, Creations
<1>3. ASSUME NEW pl \in Places, NEW src \in Numbers \cup {Standard}, NEW k \in Packs,
             clone_pack(p, pl, src, k)
      PROVE  TakesCreation(p)
  <2> DEFINE n == _next_custom_variant_number(pl)
  <2>1. n \in Numbers /\ years' = years
    BY <1>3 DEF clone_pack
  <2>2. req'[p] = [op |-> "clone", at |-> 1, slot |-> <<pl, n>>, src |-> src,
                   man |-> k, doc |-> None, todo |-> {}]
    BY <1>1, <1>3 DEF clone_pack, Begin
  <2>3. <<pl, n>> \in Slots
    BY <2>1 DEF Slots
  <2>4. ASSUME src \in Numbers
        PROVE  <<pl, src>> \in Slots /\ src # n /\ Loads(dir[<<pl, src>>]) /\ pl \in years
    <3>1. Loads(dir[<<pl, src>>]) /\ dir[<<pl, src>>] # Absent
      BY <1>3, <2>4, Sentinels DEF clone_pack, Loads, Readable
    <3>2. <<pl, src>> \in Slots
      BY <2>4 DEF Slots
    <3>3. pl \in years
      BY <3>1, <3>2 DEF TypeOK
    <3> QED
      BY <2>4, <3>1, <3>2, <3>3, NumberIsNew
  <2>5. pl \in years'
    <3>1. CASE src = Standard
      BY <1>3, <2>1, <3>1 DEF clone_pack, TypeOK
    <3>2. CASE src \in Numbers
      BY <2>1, <2>4, <3>2
    <3> QED
      BY <3>1, <3>2
  <2>6. SourceSlot(p)' = <<pl, src>> /\ Slot(p)' = <<pl, n>>
    BY <2>2 DEF SourceSlot, Slot
  <2> HIDE DEF n
  <2>7. src \in Numbers => SourceSlot(p)' # Slot(p)'
    BY <2>4, <2>6
  <2> QED
    BY <1>1, <1>3, <2>2, <2>3, <2>4, <2>5, <2>6, <2>7
    DEF TakesCreation, Op, Step, Creations
<1>4. ASSUME NEW op \in Edits, NEW s \in Slots, NEW entries \in SUBSET Entries,
             BeginEdit(p, op, s, entries)
      PROVE  TakesEdit(p)
  <2>1. Readable(dir[s]) /\ Loadable(entries)
    BY <1>4 DEF BeginEdit, _validate_candidate_rules
  <2>2. dir[s].r \in Document /\ dir[s].m \in Packs
    BY <2>1, Typed DEF Readable
  <2> DEFINE d == [dir[s].r EXCEPT !.entries = entries]
  <2>3. d \in Document /\ d.pack = dir[s].r.pack /\ d.entries = entries
    BY <2>2 DEF Document
  <2>4. req'[p] = [op |-> op, at |-> 1, slot |-> s, src |-> None,
                   man |-> dir[s].m, doc |-> d, todo |-> {}]
    BY <1>1, <1>4 DEF BeginEdit, Begin
  <2> HIDE DEF d
  <2> QED
    BY <1>1, <2>1, <2>3, <2>4 DEF TakesEdit, Op, Step, Slot
<1>5. ASSUME NEW s \in Slots, delete_pack(p, s) PROVE TakesDeletion(p)
  <2>1. req'[p] = [NoRequest EXCEPT !.op = "delete", !.slot = s, !.todo = Files(dir[s])]
    BY <1>1, <1>5 DEF delete_pack
  <2> QED
    BY <1>1, <2>1 DEF TakesDeletion, NoRequest, Op, Step, Slot
<1>6. ASSUME NEW s \in Slots, Readable(dir[s])
      PROVE  dir[s].r.entries \subseteq Entries
  BY <1>6, Typed DEF Readable
<1>7. rule_packs_create(p) \/ rule_packs_import_post(p) \/ rule_pack_clone(p)
        => TakesCreation(p)
  BY <1>2, <1>3 DEF rule_packs_create, create_empty_pack, rule_packs_import_post,
     import_yaml, rule_pack_clone
<1>8. rule_pack_delete(p) => TakesDeletion(p)
  BY <1>5 DEF rule_pack_delete
<1>9. ASSUME NEW s \in Slots, NEW id \in Rules, NEW r \in Rules, save_rule(p, s, id, r)
      PROVE  TakesEdit(p)
  BY <1>4, <1>6, <1>9 DEF save_rule, Edits, Entries
<1>10. ASSUME NEW s \in Slots, NEW r \in Rules, delete_rule(p, s, r)
       PROVE  TakesEdit(p)
  BY <1>4, <1>6, <1>10 DEF delete_rule, Edits, Entries
<1>11. ASSUME NEW s \in Slots, NEW c \in Consts, save_constant(p, s, c)
       PROVE  TakesEdit(p)
  BY <1>4, <1>6, <1>11 DEF save_constant, Edits, Entries
<1>12. ASSUME NEW s \in Slots, NEW c \in Consts, delete_constant(p, s, c)
       PROVE  TakesEdit(p)
  BY <1>4, <1>6, <1>12 DEF delete_constant, Edits, Entries
<1> QED
  BY <1>7, <1>8, <1>9, <1>10, <1>11, <1>12
  DEF Receive, rule_add_submit, rule_save_submit, rule_delete_submit,
      constant_save_submit, constant_delete_submit

-----------------------------------------------------------------------------
(* Types. *)
LEMMA BeginFields ==
  ASSUME TypeOK, NEW p \in Procs, NEW op \in Creations \cup Removals \cup Edits,
         NEW s \in Slots, NEW src \in Numbers \cup {Standard, None},
         NEW man \in Packs \cup {None}, NEW doc \in Document \cup {None},
         Begin(p, op, s, src, man, doc)
  PROVE  /\ Others(p) /\ DOMAIN req' = Procs
         /\ req'[p] \in Request /\ req'[p].at \in DOMAIN Plan[req'[p].op]
<1> DEFINE rq == [op |-> op, at |-> 1, slot |-> s, src |-> src,
                  man |-> man, doc |-> doc, todo |-> {}]
<1>1. op \in Ops /\ 1 \in DOMAIN Plan[op]
  BY PlanEnds
<1>2. rq \in Request
  BY <1>1 DEF Request
<1>3. rq.at \in DOMAIN Plan[rq.op]
  BY <1>1
<1>4. req'[p] = rq /\ Others(p) /\ DOMAIN req' = Procs
  BY DEF Begin, TypeOK, Others
<1> HIDE DEF rq
<1> QED
  BY <1>2, <1>3, <1>4

LEMMA RequestTypes ==
  ASSUME TypeOK, Requests, NEW p \in Procs, WsStep(p)
  PROVE  /\ Others(p) /\ DOMAIN req' = Procs
         /\ req'[p] \in Request /\ req'[p].at \in DOMAIN Plan[req'[p].op]
<1> DEFINE Goal == /\ Others(p) /\ DOMAIN req' = Procs
                   /\ req'[p] \in Request /\ req'[p].at \in DOMAIN Plan[req'[p].op]
<1> SUFFICES Goal
  OBVIOUS
<1>1. /\ DOMAIN req = Procs /\ req[p] \in Request
      /\ Op(p) = "none" => req[p] = NoRequest
  BY DEF TypeOK, Requests, Carries
<1>2. NoRequest \in Request /\ NoRequest.at \in DOMAIN Plan[NoRequest.op]
  BY PlanEnds DEF NoRequest, Request, Ops, Plan
<1>3. ASSUME End(p) PROVE Goal
  BY <1>2, <1>3, EndFields
<1>4. ASSUME Advance(p), Step(p) + 1 \in DOMAIN Plan[Op(p)] PROVE Goal
  <2>1. Step(p) + 1 \in 1..6
    BY <1>4, PlanFacts, PlanEnds DEF Creations
  <2>2. Op(p)' = Op(p) /\ Step(p)' = Step(p) + 1
    BY <1>4, AdvanceFields DEF GoesOn
  <2> QED
    BY <1>4, <2>1, <2>2, AdvanceFields DEF Op, Step
<1> HIDE DEF Goal
<1>6. ASSUME NEW op \in {"create", "import"}, NEW pl \in Places, NEW k \in Packs,
             NEW entries \in SUBSET Entries, BeginNew(p, op, pl, k, entries)
      PROVE  Goal
  <2>1. <<pl, _next_custom_variant_number(pl)>> \in Slots
    BY <1>6 DEF BeginNew, Slots
  <2>2. [pack |-> k, entries |-> entries] \in Document
    BY DEF Document
  <2> QED
    BY <1>6, <2>1, <2>2, BeginFields DEF BeginNew, Creations, Goal
<1>7. ASSUME NEW pl \in Places, NEW src \in Numbers \cup {Standard}, NEW k \in Packs,
             clone_pack(p, pl, src, k)
      PROVE  Goal
  <2>1. <<pl, _next_custom_variant_number(pl)>> \in Slots
    BY <1>7 DEF clone_pack, Slots
  <2> QED
    BY <1>7, <2>1, BeginFields DEF clone_pack, Creations, Goal
<1>8. ASSUME NEW op \in Edits, NEW s \in Slots, NEW entries \in SUBSET Entries,
             BeginEdit(p, op, s, entries)
      PROVE  Goal
  <2>1. dir[s].r \in Document /\ dir[s].m \in Packs
    BY <1>8, Typed DEF BeginEdit, _validate_candidate_rules, Readable
  <2>2. [dir[s].r EXCEPT !.entries = entries] \in Document
    BY <2>1 DEF Document
  <2> QED
    BY <1>8, <2>1, <2>2, BeginFields DEF BeginEdit, Goal
<1>9. ASSUME NEW s \in Slots, delete_pack(p, s) PROVE Goal
  <2> DEFINE rq == [NoRequest EXCEPT !.op = "delete", !.slot = s, !.todo = Files(dir[s])]
  <2>1. Files(dir[s]) \in SUBSET {"m", "r"} /\ "delete" \in Ops /\ 1 \in DOMAIN Plan["delete"]
    BY PlanEnds DEF Files, Removals
  <2>2. rq \in Request
    BY <1>2, <2>1 DEF Request
  <2>3. rq.op = "delete" /\ rq.at = 1
    BY DEF NoRequest
  <2>4. req'[p] = rq /\ Others(p) /\ DOMAIN req' = Procs
    BY <1>1, <1>9 DEF delete_pack, Others
  <2> HIDE DEF rq
  <2> QED
    BY <2>1, <2>2, <2>3, <2>4 DEF Goal
<1>10. ASSUME NEW s \in Slots, Readable(dir[s])
       PROVE  dir[s].r.entries \subseteq Entries
  BY <1>10, Typed DEF Readable
<1>11. CASE Receive(p)
  <2>1. ASSUME NEW s \in Slots, NEW id \in Rules, NEW r \in Rules, save_rule(p, s, id, r)
        PROVE  Goal
    BY <1>8, <1>10, <2>1 DEF save_rule, Edits, Entries
  <2>2. ASSUME NEW s \in Slots, NEW r \in Rules, delete_rule(p, s, r) PROVE Goal
    BY <1>8, <1>10, <2>2 DEF delete_rule, Edits, Entries
  <2>3. ASSUME NEW s \in Slots, NEW c \in Consts, save_constant(p, s, c) PROVE Goal
    BY <1>8, <1>10, <2>3 DEF save_constant, Edits, Entries
  <2>4. ASSUME NEW s \in Slots, NEW c \in Consts, delete_constant(p, s, c) PROVE Goal
    BY <1>8, <1>10, <2>4 DEF delete_constant, Edits, Entries
  <2>5. rule_packs_create(p) \/ rule_packs_import_post(p) \/ rule_pack_clone(p) => Goal
    BY <1>6, <1>7 DEF rule_packs_create, create_empty_pack, rule_packs_import_post,
       import_yaml, rule_pack_clone
  <2> QED
    BY <1>9, <1>11, <2>1, <2>2, <2>3, <2>4, <2>5
    DEF Receive, rule_pack_delete, rule_add_submit, rule_save_submit, rule_delete_submit,
        constant_save_submit, constant_delete_submit
<1>12. CASE MakeDirectory(p)
  <2>1. Step(p) + 1 \in DOMAIN Plan[Op(p)]
    BY <1>12, PlanFacts, PlanEnds DEF MakeDirectory, Creations
  <2> QED
    BY <1>3, <1>4, <1>12, <2>1 DEF MakeDirectory
<1>13. CASE WriteManifest(p)
  <2>1. Step(p) + 1 \in DOMAIN Plan[Op(p)]
    BY <1>13, PlanFacts, PlanEnds DEF WriteManifest
  <2> QED
    BY <1>3, <1>4, <1>13, <2>1 DEF WriteManifest, Put
<1>14. CASE WriteRules(p)
  <2>1. Step(p) + 1 \in DOMAIN Plan[Op(p)]
    BY <1>14, PlanFacts, PlanEnds DEF WriteRules
  <2> QED
    BY <1>3, <1>4, <1>14, <2>1 DEF WriteRules, Put
<1>15. CASE FillRules(p)
  <2>1. Step(p) + 1 \in DOMAIN Plan[Op(p)]
    BY <1>15, PlanFacts, PlanEnds DEF FillRules
  <2> QED
    BY <1>3, <1>4, <1>15, <2>1 DEF FillRules, Put
<1>16. CASE CheckImport(p)
  <2>1. Op(p) = "import" /\ Step(p) = 5
    BY <1>16, PlanFacts DEF CheckImport
  <2>2. CASE Loads(Here(p))
    BY <1>4, <1>16, <2>1, <2>2, PlanEnds DEF CheckImport
  <2>3. CASE ~Loads(Here(p))
    <3> DEFINE files == IF Here(p) = Absent THEN {} ELSE Files(Here(p))
    <3>1. req' = [req EXCEPT ![p].op = "reject", ![p].at = 1, ![p].todo = files]
      BY <1>16, <2>3 DEF CheckImport
    <3>2. files \in SUBSET {"m", "r"}
      BY DEF Files
    <3>3. req'[p] = [req[p] EXCEPT !.op = "reject", !.at = 1, !.todo = files]
      BY <1>1, <3>1
    <3> HIDE DEF files
    <3>4. "reject" \in Ops /\ 1 \in DOMAIN Plan["reject"]
      BY PlanEnds DEF Removals
    <3>z. PICK rq \in Request, o \in Ops, n \in 1..6, todo \in SUBSET {"m", "r"} :
            rq = req[p] /\ o = "reject" /\ n = 1 /\ todo = files
      BY <1>1, <3>2, <3>4
    <3>a. [rq EXCEPT !.op = o, !.at = n, !.todo = todo] \in Request
      BY DEF Request
    <3>b. req'[p].op = "reject" /\ req'[p].at = 1
      BY <1>1, <3>3 DEF Request
    <3>5. req'[p] \in Request /\ req'[p].op = "reject" /\ req'[p].at = 1
      BY <3>3, <3>z, <3>a, <3>b
    <3> QED
      BY <1>1, <3>1, <3>4, <3>5 DEF Goal, Others
  <2> QED
    BY <2>2, <2>3
<1>17. CASE TruncateRules(p)
  <2>1. \/ Op(p) = "clone" /\ Step(p) = 2
        \/ Op(p) = "import" /\ Step(p) = 3
    BY <1>17, PlanFacts DEF TruncateRules
  <2>2. SourceRules(p) \in Document \cup {None, Torn} \/ Op(p) # "clone"
    <3>1. CASE Op(p) = "clone" /\ req[p].src = Standard
      BY <3>1, WorkspaceAssumption DEF SourceRules, Document, Requests, Carries, Creations
    <3>2. CASE Op(p) = "clone" /\ req[p].src # Standard
      <4>1. req[p].src \in Numbers /\ Slot(p)[1] \in Places /\ req[p].man \in Packs
        BY <3>2 DEF Requests, Carries, Creations, Slots
      <4>2. SourceSlot(p) \in Slots
        BY <4>1 DEF SourceSlot, Slots
      <4>3. Source(p) # Absent => Source(p).r \in Document \cup {None, Torn}
        BY <4>2, Typed DEF Source
      <4> QED
        BY <3>2, <4>1, <4>3 DEF SourceRules, Document
    <3> QED
      BY <3>1, <3>2
  <2>3. CASE Op(p) = "clone" /\ SourceRules(p) = None
    <3>1. req' = [req EXCEPT ![p].at = @ + 2]
      BY <1>17, <2>3 DEF TruncateRules, Op
    <3>2. req'[p] = [req[p] EXCEPT !.at = @ + 2]
      BY <1>1, <3>1
    <3>3. req'[p] \in Request /\ req'[p].op = "clone" /\ req'[p].at = 4
      BY <1>1, <2>1, <2>3, <3>2 DEF Request, Op, Step
    <3> QED
      BY <1>1, <3>1, <3>3, PlanEnds DEF Goal, Others
  <2>4. CASE ~(Op(p) = "clone" /\ SourceRules(p) = None) /\ Here(p) # Absent
    <3> DEFINE doc == IF req[p].op = "import" THEN req[p].doc ELSE SourceRules(p)
    <3>1. req' = [req EXCEPT ![p].at = @ + 1,
                   ![p].doc = IF req[p].op = "import" THEN @ ELSE SourceRules(p)]
      BY <1>17, <2>4 DEF TruncateRules, Op
    <3>2. req'[p] = [req[p] EXCEPT !.at = @ + 1, !.doc = doc]
      BY <1>1, <3>1
    <3>3. doc \in Document \cup {None, Torn}
      BY <1>1, <2>1, <2>2 DEF Request, Op
    <3> HIDE DEF doc
    <3>a. Step(p) + 1 \in 1..6 /\ req[p].at = Step(p)
      BY <2>1 DEF Step
    <3>b. [req[p] EXCEPT !.at = @ + 1, !.doc = doc] \in Request
      BY <1>1, <3>3, <3>a DEF Request
    <3>c. req'[p].op = Op(p) /\ req'[p].at = Step(p) + 1
      BY <1>1, <3>2 DEF Request, Op, Step
    <3>4. req'[p] \in Request /\ req'[p].op = Op(p) /\ req'[p].at = Step(p) + 1
      BY <3>2, <3>b, <3>c
    <3> QED
      BY <1>1, <2>1, <3>1, <3>4, PlanEnds DEF Goal, Others
  <2>5. CASE ~(Op(p) = "clone" /\ SourceRules(p) = None) /\ Here(p) = Absent
    BY <1>3, <1>17, <2>5 DEF TruncateRules, Op
  <2> QED
    BY <2>3, <2>4, <2>5
<1>18. CASE Unlink(p)
  <2>1. PICK f \in req[p].todo :
          /\ req' = [req EXCEPT ![p].todo = @ \ {f},
                                ![p].at = IF req[p].todo = {f} THEN 2 ELSE 1]
          /\ At(p, "unlink")
    BY <1>18 DEF Unlink
  <2>2. Op(p) \in Removals
    BY <2>1, PlanFacts
  <2>3. req'[p] = [req[p] EXCEPT !.todo = @ \ {f},
                                 !.at = IF req[p].todo = {f} THEN 2 ELSE 1]
    BY <1>1, <2>1
  <2> DEFINE n == IF req[p].todo = {f} THEN 2 ELSE 1
             todo == req[p].todo \ {f}
  <2>4. n \in {1, 2} /\ todo \in SUBSET {"m", "r"}
    BY <1>1 DEF Request
  <2>5. req'[p] = [req[p] EXCEPT !.todo = todo, !.at = n]
    BY <2>3
  <2> HIDE DEF n, todo
  <2>z. PICK rq \in Request, k \in 1..6, t \in SUBSET {"m", "r"} :
          rq = req[p] /\ k = n /\ t = todo
    BY <1>1, <2>4
  <2>a. [rq EXCEPT !.todo = t, !.at = k] \in Request
    BY DEF Request
  <2>b. req'[p].op = Op(p) /\ req'[p].at \in {1, 2}
    BY <1>1, <2>4, <2>5 DEF Request, Op
  <2>6. req'[p] \in Request /\ req'[p].op = Op(p) /\ req'[p].at \in {1, 2}
    BY <2>5, <2>z, <2>a, <2>b
  <2> QED
    BY <1>1, <2>1, <2>2, <2>6, PlanEnds DEF Goal, Others
<1>19. CASE NothingToUnlink(p)
  <2>1. Step(p) + 1 \in DOMAIN Plan[Op(p)]
    BY <1>19, PlanFacts, PlanEnds DEF NothingToUnlink
  <2> QED
    BY <1>4, <1>19, <2>1 DEF NothingToUnlink
<1>20. CASE RemoveDirectory(p)
  <2>1. Step(p) + 1 \in DOMAIN Plan[Op(p)]
    BY <1>20, PlanFacts, PlanEnds DEF RemoveDirectory
  <2> QED
    BY <1>3, <1>4, <1>20, <2>1 DEF RemoveDirectory
<1>21. CASE Finish(p) \/ Stops(p)
  BY <1>3, <1>21 DEF Finish, Stops
<1> QED
  BY <1>11, <1>12, <1>13, <1>14, <1>15, <1>16, <1>17, <1>18, <1>19, <1>20, <1>21
  DEF WsStep, Write, Goal

LEMMA PreservedTypes ==
  ASSUME TypeOK, Requests, NEW p \in Procs, WsStep(p)
  PROVE  TypeOK'
<1> DEFINE Rest == /\ dir' \in [Slots -> Directory \cup {Absent}]
                   /\ years' \in SUBSET Places /\ years \subseteq years'
                   /\ used' \subseteq Packs
                   /\ cut' \subseteq Slots /\ overtaken' \subseteq Slots
                   /\ \A s \in Slots : dir[s] = Absent /\ dir'[s] # Absent => s[1] \in years
<1>1. /\ dir \in [Slots -> Directory \cup {Absent}]
      /\ years \in SUBSET Places /\ Shipped \subseteq years /\ used \subseteq Packs
      /\ cut \subseteq Slots /\ overtaken \subseteq Slots
      /\ \A s \in Slots : dir[s] # Absent => s[1] \in years
  BY DEF TypeOK
<1>2. /\ \A k \in Packs, d \in Document : [m |-> k, r |-> d] \in Directory
      /\ [m |-> None, r |-> None] \in Directory
      /\ \A q \in Procs : Op(q) # "none" => Slot(q) \in Slots
  BY DEF Directory, Requests, Carries
<1> SUFFICES Rest
  <2>1. \A q \in Procs : req'[q] \in Request /\ req'[q].at \in DOMAIN Plan[req'[q].op]
    BY RequestTypes DEF Others, TypeOK
  <2>2. DOMAIN req' = Procs
    BY RequestTypes
  <2>3. Shipped \subseteq years' /\ \A s \in Slots : dir'[s] # Absent => s[1] \in years'
    BY <1>1 DEF Rest
  <2> QED
    BY <2>1, <2>2, <2>3 DEF TypeOK, Rest
<1>3. CASE Receive(p)
  <2>1. /\ dir' = dir /\ cut' = cut /\ overtaken' = overtaken
        /\ years' \in SUBSET Places /\ years \subseteq years' /\ used' \subseteq Packs
    BY <1>1, <1>3 DEF Receive, rule_packs_create, rule_packs_import_post, rule_pack_clone,
       create_empty_pack, import_yaml, BeginNew, clone_pack, rule_pack_delete, delete_pack,
       rule_add_submit, rule_save_submit, rule_delete_submit, constant_save_submit,
       constant_delete_submit, save_rule, delete_rule, save_constant, delete_constant, BeginEdit
  <2> QED
    BY <1>1, <2>1
<1>4. CASE MakeDirectory(p)
  <2>1. /\ Slot(p) \in Slots /\ Slot(p)[1] \in years
        /\ years' = years /\ used' = used
    BY <1>4, PlanFacts DEF MakeDirectory, Requests, Carries, Creations
  <2>2. CASE Here(p) # Absent
    BY <1>1, <1>4, <2>1, <2>2 DEF MakeDirectory
  <2>3. CASE Here(p) = Absent
    <3>1. dir' = [dir EXCEPT ![Slot(p)] = [m |-> None, r |-> None]]
      BY <1>4, <2>3 DEF MakeDirectory
    <3>2. cut' \subseteq Slots
      BY <1>1, <1>4, <2>3 DEF MakeDirectory
    <3>3. \A q \in Procs : Holds(q) # {} => Slot(q) \in Slots
      BY <1>2, PlanFacts DEF Holds, Idle
    <3>4. overtaken' \subseteq Slots
      BY <1>1, <1>4, <2>1, <2>3, <3>3 DEF MakeDirectory
    <3> QED
      BY <1>1, <1>2, <2>1, <3>1, <3>2, <3>4
  <2> QED
    BY <2>2, <2>3
<1>5. ASSUME NEW file \in {"m", "r"}, NEW content, NEW possible,
             Put(p, file, content, possible), Op(p) # "none",
             file = "m" => content \in Packs \cup {None},
             file = "r" => content \in Document \cup {None, Torn}
      PROVE  Rest
  <2>1. /\ cut' = cut /\ overtaken' = overtaken /\ years' = years /\ used' = used
        /\ Slot(p) \in Slots
    BY <1>2, <1>5 DEF Put
  <2>2. CASE dir' = dir
    BY <1>1, <2>1, <2>2
  <2>3. CASE Here(p) # Absent /\ dir' = [dir EXCEPT ![Slot(p)][file] = content]
    <3>1. dir[Slot(p)] \in Directory
      BY <1>1, <2>1, <2>3 DEF Here
    <3>2. [dir[Slot(p)] EXCEPT ![file] = content] \in Directory
      BY <1>5, <3>1 DEF Directory
    <3>3. dir' = [dir EXCEPT ![Slot(p)] = [@ EXCEPT ![file] = content]]
      BY <2>3
    <3> QED
      BY <1>1, <2>1, <3>1, <3>2, <3>3, Sentinels
  <2> QED
    BY <1>5, <2>2, <2>3 DEF Put
<1>6. CASE WriteManifest(p)
  <2>1. Op(p) # "none" /\ req[p].man \in Packs \cup {None}
    BY <1>6, PlanFacts, Typed DEF WriteManifest, Creations, Edits
  <2> QED
    BY <1>5, <1>6, <2>1 DEF WriteManifest
<1>7. CASE WriteRules(p) \/ FillRules(p)
  <2>1. Op(p) # "none" /\ req[p].doc \in Document \cup {None, Torn}
    BY <1>7, PlanFacts, Typed DEF WriteRules, FillRules, Creations, Edits
  <2> QED
    BY <1>5, <1>7, <2>1 DEF WriteRules, FillRules
<1>8. CASE TruncateRules(p)
  <2>1. /\ cut' \subseteq Slots /\ overtaken' = overtaken /\ years' = years /\ used' = used
        /\ Slot(p) \in Slots
    <3>1. Op(p) # "none"
      BY <1>8, PlanFacts DEF TruncateRules
    <3> QED
      BY <1>1, <1>2, <1>8, <3>1 DEF TruncateRules
  <2>2. CASE dir' = dir
    BY <1>1, <2>1, <2>2
  <2>3. CASE Here(p) # Absent /\ dir' = [dir EXCEPT ![Slot(p)].r = Torn]
    <3>1. dir[Slot(p)] \in Directory
      BY <1>1, <2>1, <2>3 DEF Here
    <3>2. [dir[Slot(p)] EXCEPT !.r = Torn] \in Directory
      BY <3>1 DEF Directory
    <3>3. dir' = [dir EXCEPT ![Slot(p)] = [@ EXCEPT !.r = Torn]]
      BY <2>3
    <3> QED
      BY <1>1, <2>1, <3>1, <3>2, <3>3, Sentinels
  <2> QED
    BY <1>8, <2>2, <2>3 DEF TruncateRules
<1>9. CASE CheckImport(p) \/ NothingToUnlink(p) \/ Finish(p)
  BY <1>1, <1>9 DEF CheckImport, NothingToUnlink, Finish
<1>10. CASE Unlink(p)
  <2>1. PICK f \in req[p].todo :
          /\ dir' = [dir EXCEPT ![Slot(p)] = IF @ = Absent THEN @ ELSE [@ EXCEPT ![f] = None]]
          /\ cut' = cut /\ overtaken' = overtaken /\ years' = years /\ used' = used
          /\ At(p, "unlink")
    BY <1>10 DEF Unlink
  <2>2. Slot(p) \in Slots /\ f \in {"m", "r"}
    BY <1>2, <2>1, PlanFacts, Typed DEF Removals
  <2>3. CASE dir[Slot(p)] = Absent
    <3>1. dir' = dir
      BY <1>1, <2>1, <2>2, <2>3
    <3> QED
      BY <1>1, <2>1, <3>1
  <2>4. CASE dir[Slot(p)] # Absent
    <3>1. dir[Slot(p)] \in Directory
      BY <1>1, <2>2, <2>4
    <3>2. [dir[Slot(p)] EXCEPT ![f] = None] \in Directory
      BY <2>2, <3>1 DEF Directory
    <3>3. dir' = [dir EXCEPT ![Slot(p)] = [@ EXCEPT ![f] = None]]
      BY <2>1, <2>4
    <3> QED
      BY <1>1, <2>1, <2>2, <3>1, <3>2, <3>3, Sentinels
  <2> QED
    BY <2>3, <2>4
<1>11. CASE RemoveDirectory(p)
  <2>1. Slot(p) \in Slots
    BY <1>2, <1>11, PlanFacts DEF RemoveDirectory, Removals
  <2> QED
    BY <1>1, <1>11, <2>1 DEF RemoveDirectory
<1>12. CASE Stops(p)
  <2>1. Slot(p) \in Slots
    BY <1>2, <1>12, PlanFacts DEF Stops, Idle
  <2> QED
    BY <1>1, <1>12, <2>1 DEF Stops
<1> QED
  BY <1>3, <1>4, <1>6, <1>7, <1>8, <1>9, <1>10, <1>11, <1>12 DEF WsStep, Write

-----------------------------------------------------------------------------
(* What a step leaves alone. *)
LEMMA ReceiveFootprint ==
  ASSUME NEW p \in Procs, Receive(p)
  PROVE  /\ dir' = dir /\ cut' = cut /\ overtaken' = overtaken
         /\ years \subseteq years'
BY DEF Receive, rule_packs_create, rule_packs_import_post, rule_pack_clone,
   create_empty_pack, import_yaml, BeginNew, clone_pack, rule_pack_delete, delete_pack,
   rule_add_submit, rule_save_submit, rule_delete_submit, constant_save_submit,
   constant_delete_submit, save_rule, delete_rule, save_constant, delete_constant, BeginEdit

LEMMA WriteFootprint ==
  ASSUME TypeOK, Requests, NEW p \in Procs, Write(p) \/ Finish(p) \/ Stops(p)
  PROVE  /\ Op(p) # "none" /\ Slot(p) \in Slots
         /\ OtherSlots(p) /\ years' = years
<1>1. Op(p) # "none"
  BY PlanFacts DEF Write, MakeDirectory, WriteManifest, WriteRules, FillRules, TruncateRules,
     CheckImport, Unlink, NothingToUnlink, RemoveDirectory, Finish, Stops, Idle,
     Creations, Removals, Edits
<1>2. Slot(p) \in Slots /\ DOMAIN dir = Slots
  BY <1>1 DEF Requests, Carries, TypeOK
<1>3. ASSUME MakeDirectory(p) PROVE OtherSlots(p)
  BY <1>2, <1>3 DEF MakeDirectory, OtherSlots
<1>4. ASSUME WriteManifest(p) \/ WriteRules(p) \/ FillRules(p) PROVE OtherSlots(p)
  BY <1>2, <1>4 DEF WriteManifest, WriteRules, FillRules, Put, OtherSlots
<1>5. ASSUME TruncateRules(p) PROVE OtherSlots(p)
  BY <1>2, <1>5 DEF TruncateRules, OtherSlots
<1>6. ASSUME CheckImport(p) \/ NothingToUnlink(p) \/ Finish(p) \/ Stops(p) PROVE OtherSlots(p)
  BY <1>2, <1>6 DEF CheckImport, NothingToUnlink, Finish, Stops, OtherSlots
<1>7. ASSUME Unlink(p) PROVE OtherSlots(p)
  BY <1>2, <1>7 DEF Unlink, OtherSlots
<1>8. ASSUME RemoveDirectory(p) PROVE OtherSlots(p)
  BY <1>2, <1>8 DEF RemoveDirectory, OtherSlots
<1>9. years' = years
  BY DEF Write, MakeDirectory, WriteManifest, WriteRules, FillRules, TruncateRules, Put,
     CheckImport, Unlink, NothingToUnlink, RemoveDirectory, Finish, Stops
<1> QED
  BY <1>1, <1>2, <1>3, <1>4, <1>5, <1>6, <1>7, <1>8, <1>9 DEF Write

LEMMA WriteKind ==
  ASSUME TypeOK, Requests, NEW p \in Procs, Write(p) \/ Finish(p) \/ Stops(p)
  PROVE  \/ Leaves(p) \/ Makes(p) \/ PutsManifest(p) \/ PutsRules(p) \/ Tears(p)
         \/ Skips(p) \/ Passes(p) \/ Rejects(p) \/ Clears(p)
BY MakeDirectoryKind, WriteManifestKind, WriteRulesKind, TruncateRulesKind,
   CheckImportKind, RemovalKind, EndKind DEF Write

(* A request stays on its slot or ends; all but making a directory leave
   overtaken alone, and all that go on but that are on the slot already. *)
LEMMA KindFacts ==
  ASSUME TypeOK, Requests, NEW p \in Procs, Write(p) \/ Finish(p) \/ Stops(p)
  PROVE  /\ overtaken \subseteq overtaken'
         /\ Leaves(p) => Op(p)' = "none"
         /\ ~Leaves(p) => Slot(p)' = Slot(p) /\ req'[p].man = req[p].man
         /\ ~Makes(p) => overtaken' = overtaken
         /\ ~Makes(p) /\ ~Leaves(p) => On(p, Slot(p))
<1>1. Op(p) # "none"
  BY WriteFootprint
<1>2. Leaves(p) => Op(p)' = "none" /\ overtaken' = overtaken
  BY DEF Leaves, Op, NoRequest
<1>3. Makes(p) => Slot(p)' = Slot(p) /\ overtaken \subseteq overtaken'
                    /\ req'[p].man = req[p].man
  BY DEF Makes, GoesOn
<1>4. ASSUME PutsManifest(p) \/ PutsRules(p) \/ Tears(p) \/ Skips(p) \/ Passes(p)
             \/ Rejects(p) \/ Clears(p)
      PROVE  /\ Slot(p)' = Slot(p) /\ overtaken' = overtaken
             /\ req'[p].man = req[p].man /\ On(p, Slot(p))
  <2>1. CASE PutsManifest(p)
    BY <1>1, <2>1 DEF PutsManifest, Puts, GoesOn, On, Creations
  <2>2. CASE PutsRules(p)
    BY <1>1, <2>2 DEF PutsRules, Puts, GoesOn, On, Creations, Edits
  <2>3. CASE Tears(p)
    BY <1>1, <2>3 DEF Tears, GoesOn, On, Creations
  <2>4. CASE Skips(p) \/ Passes(p) \/ Rejects(p)
    BY <1>1, <2>4 DEF Skips, Passes, Rejects, GoesOn, On, Creations
  <2>5. CASE Clears(p)
    BY <1>1, <2>5 DEF Clears, GoesOn, On, Creations, Removals
  <2> QED
    BY <1>4, <2>1, <2>2, <2>3, <2>4, <2>5
<1> QED
  BY <1>2, <1>3, <1>4, WriteKind

LEMMA PreservedRequests ==
  ASSUME TypeOK, Requests, NEW p \in Procs, WsStep(p)
  PROVE  Requests'
<1>1. Others(p) /\ years \subseteq years'
  BY RequestTypes, ReceiveFootprint, WriteFootprint DEF WsStep
<1>2. ASSUME NEW q \in Procs \ {p} PROVE Carries(q)'
  <2>1. req'[q] = req[q] /\ Carries(q)
    BY <1>1 DEF Others, Requests
  <2> QED
    BY <1>1, <2>1 DEF Carries, Op, Slot
<1> SUFFICES Carries(p)'
  BY <1>2 DEF Requests
<1>3. Carries(p) /\ (Op(p) # "none" => Slot(p) \in Slots)
  BY DEF Requests, Carries
<1>4. CASE Receive(p)
  <2>1. CASE TakesCreation(p)
    BY <2>1, Sentinels DEF TakesCreation, Carries, Creations, Edits
  <2>2. CASE TakesEdit(p)
    <3>1. req'[p].man \in Packs
      BY <2>2, Typed DEF TakesEdit, Readable
    <3> QED
      BY <2>2, <3>1 DEF TakesEdit, Carries, Creations, Edits
  <2>3. CASE TakesDeletion(p)
    BY <2>3 DEF TakesDeletion, Carries, Creations, Edits
  <2> QED
    BY <1>4, <2>1, <2>2, <2>3, ReceiveKind
<1>5. CASE Write(p) \/ Finish(p) \/ Stops(p)
  <2>1. Op(p) # "none" /\ Slot(p) \in Slots
    BY <1>5, WriteFootprint
  <2>2. CASE Leaves(p)
    <3>1. Op(p)' = "none" /\ req'[p] = NoRequest /\ req'[p].src = None
      BY <2>2 DEF Leaves, NoRequest, Op
    <3> QED
      BY <3>1 DEF Carries, Creations, Edits
  <2>3. ASSUME NEW n, GoesOn(p, n), req'[p].doc = req[p].doc PROVE Carries(p)'
    BY <1>1, <1>3, <2>1, <2>3 DEF GoesOn, Carries
  <2>4. CASE Makes(p)
    BY <2>3, <2>4 DEF Makes
  <2>5. CASE PutsManifest(p) \/ PutsRules(p)
    BY <2>3, <2>5 DEF PutsManifest, PutsRules, Puts
  <2>6. CASE Tears(p)
    <3>1. CASE Op(p) = "import"
      BY <2>3, <2>6, <3>1 DEF Tears
    <3>2. CASE Op(p) = "clone"
      <4>1. req[p].man \in Packs
        BY <1>3, <3>2 DEF Carries, Creations
      <4>2. SourceRules(p) \in {None, Torn} \/ SourceRules(p).pack = req[p].man
        <5>1. CASE req[p].src = Standard
          BY <5>1 DEF SourceRules
        <5>2. CASE req[p].src \in Numbers
          <6>1. SourceSlot(p) \in Slots
            BY <2>1, <5>2 DEF SourceSlot, Slots
          <6>2. Source(p) # Absent => Source(p).r \in Document \cup {None, Torn}
            BY <6>1, Typed DEF Source
          <6> QED
            BY <5>2, <6>2, Sentinels DEF SourceRules, Document
        <5> QED
          BY <1>3, <3>2, <5>1, <5>2 DEF Carries
      <4>3. req'[p].doc = SourceRules(p)
        BY <2>6, <3>2 DEF Tears
      <4>4. req'[p].doc \in Document => req'[p].doc.pack = req'[p].man
        BY <2>6, <4>2, <4>3, Sentinels DEF Tears, GoesOn
      <4> QED
        BY <1>1, <1>3, <2>1, <2>6, <3>2, <4>4 DEF Tears, GoesOn, Carries, Creations, Edits
    <3> QED
      BY <2>6, <3>1, <3>2 DEF Tears
  <2>7. CASE Skips(p) \/ Passes(p)
    BY <2>3, <2>7 DEF Skips, Passes
  <2>8. CASE Rejects(p)
    BY <1>3, <2>1, <2>8 DEF Rejects, Carries, Creations, Edits
  <2>9. CASE Clears(p)
    BY <2>3, <2>9 DEF Clears
  <2> QED
    BY <1>5, <2>2, <2>4, <2>5, <2>6, <2>7, <2>8, <2>9, WriteKind
<1> QED
  BY <1>4, <1>5 DEF WsStep

-----------------------------------------------------------------------------
(* One pack. *)
(* A slot stays with its pack, unless it is made anew. *)
LEMMA OfPackKept ==
  ASSUME TypeOK, Requests, TypeOK', Requests', NEW p \in Procs, WsStep(p),
         NEW s \in Slots, s \notin overtaken', NEW k \in Packs \cup {None}, OfPack(s, k),
         ~(Makes(p) /\ Slot(p) = s)
  PROVE  OfPack(s, k)'
<1>1. Others(p)
  BY RequestTypes
<1>2. /\ \A q \in Procs \ {p} : On(q, s)' <=> On(q, s)
      /\ \A q \in Procs \ {p} : req'[q] = req[q]
  BY <1>1 DEF Others, On, Op, Step, Slot
<1>3. /\ req[p].man \in Packs \cup {None} /\ req[p].doc \in Document \cup {None, Torn}
      /\ req'[p].doc \in Document \cup {None, Torn}
      /\ dir[s] # Absent => dir[s].m \in Packs \cup {None}
      /\ dir[s] # Absent => dir[s].r \in Document \cup {None, Torn}
  BY Typed DEF TypeOK, Request
<1>4. Carries(p) /\ Carries(p)'
  BY DEF Requests
<1>5. CASE Receive(p)
  <2>1. dir' = dir
    BY <1>5, ReceiveFootprint
  <2>2. ASSUME On(p, s)' => /\ req'[p].man \in {None, k}
                            /\ req'[p].doc \in {None, Torn} \/ req'[p].doc.pack = k
        PROVE  OfPack(s, k)'
    BY <1>2, <2>1, <2>2 DEF OfPack
  <2>3. CASE TakesCreation(p)
    <3>1. ~On(p, s)'
      BY <2>3 DEF TakesCreation, On
    <3> QED
      BY <2>2, <3>1
  <2>4. CASE TakesEdit(p)
    <3>1. Slot(p)' = s => /\ dir[s] # Absent /\ dir[s].m # None /\ dir[s].r \notin {None, Torn}
                          /\ req'[p].man = dir[s].m /\ req'[p].doc.pack = dir[s].r.pack
      BY <2>4 DEF TakesEdit, Readable
    <3>2. On(p, s)' => Slot(p)' = s
      BY DEF On
    <3>3. Slot(p)' = s => req'[p].man \in {None, k} /\ req'[p].doc.pack = k
      BY <3>1 DEF OfPack
    <3> QED
      BY <2>2, <3>2, <3>3
  <2>5. CASE TakesDeletion(p)
    BY <2>2, <2>5 DEF TakesDeletion
  <2> QED
    BY <1>5, <2>3, <2>4, <2>5, ReceiveKind
<1>6. CASE (Write(p) \/ Finish(p) \/ Stops(p)) /\ Slot(p) # s
  <2>1. dir'[s] = dir[s]
    BY <1>6, WriteFootprint DEF OtherSlots
  <2>2. Slot(p)' = Slot(p) \/ Op(p)' = "none"
    BY <1>6, KindFacts
  <2>3. ~On(p, s)'
    BY <1>6, <2>2 DEF On
  <2> QED
    BY <1>2, <2>1, <2>3 DEF OfPack
<1>7. CASE (Write(p) \/ Finish(p) \/ Stops(p)) /\ Slot(p) = s
  <2>1. ~Makes(p)
    BY <1>7
  <2>2. CASE Leaves(p)
    <3>1. ~On(p, s)' /\ dir' = dir
      BY <2>2 DEF Leaves, On, Op, NoRequest
    <3> QED
      BY <1>2, <3>1 DEF OfPack
  <2>3. ASSUME ~Leaves(p)
        PROVE  On(p, s) /\ req'[p].man = req[p].man
    BY <1>7, <2>1, <2>3, KindFacts
  <2>4. ASSUME ~Leaves(p), req'[p].doc = req[p].doc,
               dir'[s] # Absent => /\ dir'[s].m \in {None, k}
                                   /\ dir'[s].r \in {None, Torn} \/ dir'[s].r.pack = k
        PROVE  OfPack(s, k)'
    BY <1>2, <2>3, <2>4 DEF OfPack
  <2>5. /\ On(p, s) => /\ req[p].man \in {None, k}
                       /\ req[p].doc \in {None, Torn} \/ req[p].doc.pack = k
        /\ dir[s] # Absent => /\ dir[s].m \in {None, k}
                              /\ dir[s].r \in {None, Torn} \/ dir[s].r.pack = k
    BY DEF OfPack
  <2>6. CASE ~Leaves(p) /\ PutsManifest(p)
    BY <1>7, <2>3, <2>4, <2>5, <2>6 DEF PutsManifest, Puts
  <2>7. CASE ~Leaves(p) /\ PutsRules(p)
    BY <1>7, <2>3, <2>4, <2>5, <2>7 DEF PutsRules, Puts
  <2>8. CASE ~Leaves(p) /\ Tears(p)
    <3>1. dir'[s] = [m |-> dir[s].m, r |-> Torn] /\ dir[s] # Absent
      BY <1>7, <2>8 DEF Tears
    <3>2. req[p].man \in Packs /\ (req'[p].doc \in Document => req'[p].doc.pack = req[p].man)
      BY <1>4, <2>3, <2>8 DEF Tears, GoesOn, Carries, Creations
    <3>3. req'[p].doc \in {None, Torn} \/ req'[p].doc.pack = k
      BY <1>3, <2>3, <2>5, <2>8, <3>2, Sentinels
    <3> QED
      BY <1>2, <2>3, <2>5, <2>8, <3>1, <3>3 DEF OfPack
  <2>9. CASE ~Leaves(p) /\ (Skips(p) \/ Passes(p) \/ Rejects(p))
    BY <1>7, <2>4, <2>5, <2>9 DEF Skips, Passes, Rejects
  <2>10. CASE ~Leaves(p) /\ Clears(p)
    BY <1>7, <2>4, <2>5, <2>10 DEF Clears
  <2> QED
    BY <1>7, <2>1, <2>2, <2>6, <2>7, <2>8, <2>9, <2>10, WriteKind
<1> QED
  BY <1>5, <1>6, <1>7 DEF WsStep

LEMMA PreservedOnePack ==
  ASSUME TypeOK, Requests, OnePack, TypeOK', Requests', NEW p \in Procs, WsStep(p)
  PROVE  OnePack'
<1> SUFFICES ASSUME NEW s \in Slots, s \notin overtaken'
             PROVE  \E k \in Packs \cup {None} : OfPack(s, k)'
  BY DEF OnePack
<1>1. CASE Makes(p) /\ Slot(p) = s
  <2>1. \A q \in Procs \ {p} : ~On(q, s)'
    BY <1>1, RequestTypes DEF Makes, Others, On, Op, Step, Slot
  <2>2. /\ dir'[s] = [m |-> None, r |-> None]
        /\ req'[p].man = req[p].man /\ req[p].man \in Packs
        /\ req'[p].doc \in Document => req'[p].doc.pack = req[p].man
        /\ req'[p].doc \in Document \cup {None, Torn}
    BY <1>1 DEF Makes, GoesOn, Requests, Carries, TypeOK, Request
  <2> QED
    BY <2>1, <2>2 DEF OfPack
<1>2. CASE ~(Makes(p) /\ Slot(p) = s)
  <2>1. s \notin overtaken
    BY ReceiveFootprint, KindFacts DEF WsStep
  <2>2. PICK k \in Packs \cup {None} : OfPack(s, k)
    BY <2>1 DEF OnePack
  <2> QED
    BY <1>2, <2>2, OfPackKept
<1> QED
  BY <1>1, <1>2

-----------------------------------------------------------------------------
(* How far slots have come. *)
LEMMA SlotFrame ==
  ASSUME NEW s \in Slots, SlotInv(s), dir'[s] = dir[s], s \in cut' <=> s \in cut,
         \A q \in Procs : On(q, s)' <=> On(q, s),
         \A q \in Procs : On(q, s) => req'[q] = req[q]
  PROVE  SlotInv(s)'
<1>1. \A q \in Procs : On(q, s) => /\ Op(q)' = Op(q) /\ Step(q)' = Step(q)
                                   /\ req'[q].doc = req[q].doc
  BY DEF Op, Step
<1>2. \A q \in Procs : On(q, s) => /\ RulesDue(q)' <=> RulesDue(q)
                                   /\ ManifestDue(q)' <=> ManifestDue(q)
                                   /\ Due(q)' <=> Due(q)
  BY <1>1 DEF RulesDue, ManifestDue, Due
<1>3. (Removing(s)' <=> Removing(s)) /\ (Half(s)' <=> Half(s))
  BY <1>1 DEF Removing, Half
<1>4. Exclusive(s)' /\ NoRulesYet(s)' /\ NoManifestYet(s)' /\ RemovedIsGone(s)'
  BY <1>1, <1>2 DEF SlotInv, Exclusive, NoRulesYet, NoManifestYet, RemovedIsGone
<1>5. CloneSound(s)'
  BY <1>1, <1>3 DEF SlotInv, CloneSound
<1>6. CreationSound(s)'
  BY <1>1, <1>3 DEF SlotInv, CreationSound
<1>7. EditedIsNamed(s)' /\ ListedIsSound(s)'
  BY <1>1, <1>3 DEF SlotInv, EditedIsNamed, ListedIsSound
<1> QED
  BY <1>4, <1>5, <1>6, <1>7 DEF SlotInv

(* The other requests on the slot of a step. *)
Same(p, s) == \A q \in Procs \ {p} :
  /\ On(q, s)' <=> On(q, s)
  /\ Op(q)' = Op(q) /\ Step(q)' = Step(q) /\ req'[q].doc = req[q].doc
  /\ RulesDue(q)' <=> RulesDue(q)
  /\ ManifestDue(q)' <=> ManifestDue(q)
  /\ Due(q)' <=> Due(q)

LEMMA OthersAreSame ==
  ASSUME NEW p \in Procs, NEW s \in Slots, Others(p)
  PROVE  Same(p, s)
<1>1. \A q \in Procs \ {p} : /\ On(q, s)' <=> On(q, s)
                             /\ Op(q)' = Op(q) /\ Step(q)' = Step(q)
                             /\ req'[q].doc = req[q].doc
  BY DEF Others, On, Op, Step, Slot
<1>2. \A q \in Procs \ {p} : /\ RulesDue(q)' <=> RulesDue(q)
                             /\ ManifestDue(q)' <=> ManifestDue(q)
                             /\ Due(q)' <=> Due(q)
  BY <1>1 DEF RulesDue, ManifestDue, Due
<1> QED
  BY <1>1, <1>2 DEF Same

(* Who is on a slot with whom. *)
LEMMA Company ==
  ASSUME NEW s \in Slots, Exclusive(s), NEW p \in Procs, On(p, s)
  PROVE  /\ Op(p) # "delete" => \A q \in Procs \ {p} : On(q, s) => ~Due(q)
         /\ Due(p) => \A q \in Procs \ {p} : On(q, s) => Op(q) = "delete" /\ ~Due(q)
BY DEF Exclusive, Due, RulesDue, ManifestDue

LEMMA ExclusiveKept ==
  ASSUME NEW s \in Slots, Exclusive(s), NEW p \in Procs, Same(p, s),
         On(p, s)' /\ Due(p)' => On(p, s) /\ Due(p),
         On(p, s)' => \/ Op(p)' = "delete"
                      \/ \A q \in Procs \ {p} : On(q, s) => ~Due(q)
  PROVE  Exclusive(s)'
<1> SUFFICES ASSUME NEW q \in Procs, NEW w \in Procs, On(q, s)', On(w, s)', q # w, Due(q)'
             PROVE  Op(w)' = "delete"
  BY DEF Exclusive
<1>1. CASE q = p
  BY <1>1 DEF Same, Exclusive
<1>2. CASE w = p
  BY <1>2 DEF Same, Exclusive
<1>3. CASE q # p /\ w # p
  BY <1>3 DEF Same, Exclusive
<1> QED
  BY <1>1, <1>2, <1>3

(* A request that has ended leaves the slot to the others. *)
LEMMA LeavesSlot ==
  ASSUME TypeOK, Requests, NEW p \in Procs, NEW s \in Slots, SlotInv(s),
         Slot(p) = s, Op(p) # "none", Others(p), Leaves(p)
  PROVE  SlotInv(s)'
<1>1. Same(p, s)
  BY OthersAreSame
<1>2. ~On(p, s)' /\ dir' = dir /\ (s \in cut => s \in cut')
  BY DEF Leaves, On, Op, NoRequest
<1>3. \A q \in Procs : On(q, s)' =>
        /\ q # p /\ On(q, s) /\ Op(q)' = Op(q) /\ Step(q)' = Step(q)
        /\ req'[q].doc = req[q].doc
        /\ (RulesDue(q)' <=> RulesDue(q)) /\ (ManifestDue(q)' <=> ManifestDue(q))
        /\ (Due(q)' <=> Due(q))
  BY <1>1, <1>2 DEF Same
<1>4. Exclusive(s)' /\ NoRulesYet(s)' /\ NoManifestYet(s)' /\ RemovedIsGone(s)'
  BY <1>2, <1>3 DEF SlotInv, Exclusive, NoRulesYet, NoManifestYet, RemovedIsGone
<1>5. Removing(s) /\ s \notin cut' => Removing(s)' \/ dir[s] = Absent
  <2>1. CASE On(p, s) /\ Op(p) \in Removals
    <3>1. Step(p) = 3 \/ s \in cut'
      BY <2>1 DEF Leaves
    <3> QED
      BY <2>1, <3>1 DEF SlotInv, RemovedIsGone
  <2>2. CASE ~(On(p, s) /\ Op(p) \in Removals)
    BY <1>1, <2>2 DEF Removing, Same
  <2> QED
    BY <2>1, <2>2
<1>6. CloneSound(s)'
  BY <1>2, <1>3, <1>5 DEF SlotInv, CloneSound, Sound
<1>7. CreationSound(s)'
  BY <1>2, <1>3, <1>5 DEF SlotInv, CreationSound
<1>8. Half(s) /\ ~Half(s)' /\ s \notin cut' => dir[s] = Absent \/ Loads(dir[s])
  <2> SUFFICES ASSUME Half(s), ~Half(s)', s \notin cut'
               PROVE  dir[s] = Absent \/ Loads(dir[s])
    OBVIOUS
  <2>1. On(p, s) /\ Op(p) \in Removals \cup {"create", "import"}
    BY <1>1 DEF Half, Same
  <2>2. CASE Removing(s)
    <3>1. ~Removing(s)'
      BY DEF Half, Removing
    <3> QED
      BY <1>5, <2>2, <3>1
  <2>3. CASE ~Removing(s)
    <3>1. Op(p) \in {"create", "import"} /\ Step(p) # 1 /\ s \notin cut
      BY <1>2, <2>1, <2>3 DEF Removing, On, Creations
    <3>2. \/ dir[s] = Absent
          \/ Op(p) = "create" /\ Step(p) = 4
          \/ Op(p) = "import" /\ Step(p) = 6
      BY <3>1 DEF Leaves
    <3> QED
      BY <2>1, <2>3, <3>1, <3>2 DEF SlotInv, CreationSound
  <2> QED
    BY <2>2, <2>3
<1>9. EditedIsNamed(s)'
  <2> SUFFICES ASSUME s \notin cut', ~Half(s)', NEW q \in Procs, On(q, s)', Op(q)' \in Edits
               PROVE  dir[s] = Absent \/ dir[s].m # None
    BY <1>2 DEF EditedIsNamed
  <2>1. On(q, s) /\ Op(q) \in Edits /\ s \notin cut
    BY <1>2, <1>3
  <2>2. CASE Half(s)
    BY <1>8, <2>2 DEF Loads, Readable
  <2>3. CASE ~Half(s)
    BY <2>1, <2>3 DEF SlotInv, EditedIsNamed
  <2> QED
    BY <2>2, <2>3
<1>10. ListedIsSound(s)'
  BY <1>2, <1>8 DEF SlotInv, ListedIsSound, Unnamed
<1> QED
  BY <1>4, <1>6, <1>7, <1>9, <1>10 DEF SlotInv

LEMMA MakesSlot ==
  ASSUME NEW p \in Procs, NEW s \in Slots, Slot(p) = s, Others(p), Makes(p),
         s \notin overtaken'
  PROVE  SlotInv(s)'
<1>1. \A q \in Procs \ {p} : ~On(q, s)'
  BY OthersAreSame DEF Same, Makes
<1>2. /\ Op(p)' \in Creations /\ Step(p)' = 2
      /\ dir'[s] = [m |-> None, r |-> None]
  BY DEF Makes, GoesOn
<1>3. \A q \in Procs : On(q, s)' => /\ q = p /\ Op(q)' \notin Removals \cup Edits
                                    /\ Step(q)' = 2
  BY <1>1, <1>2 DEF Creations, Removals, Edits
<1>4. Unnamed(dir[s])' /\ Unfilled(dir[s])'
  BY <1>2 DEF Unnamed, Unfilled
<1>5. Exclusive(s)' /\ NoRulesYet(s)' /\ NoManifestYet(s)' /\ RemovedIsGone(s)'
  BY <1>3, <1>4 DEF Exclusive, NoRulesYet, NoManifestYet, RemovedIsGone
<1>6. CloneSound(s)' /\ CreationSound(s)' /\ EditedIsNamed(s)' /\ ListedIsSound(s)'
  BY <1>3, <1>4 DEF CloneSound, CreationSound, EditedIsNamed, ListedIsSound
<1> QED
  BY <1>5, <1>6 DEF SlotInv

(* A manifest: of a creation, with only deletions beside it; or of an edit. *)
LEMMA PutsManifestSlot ==
  ASSUME TypeOK, Requests, NEW p \in Procs, NEW s \in Slots, SlotInv(s),
         Slot(p) = s, On(p, s), Others(p), PutsManifest(p)
  PROVE  SlotInv(s)'
<1>1. Same(p, s)
  BY OthersAreSame
<1>2. /\ dir[s] # Absent /\ dir'[s] = [m |-> req[p].man, r |-> dir[s].r] /\ cut' = cut
      /\ Op(p)' = Op(p) /\ Step(p)' = Step(p) + 1 /\ Slot(p)' = s
      /\ req'[p].doc = req[p].doc
  BY DEF PutsManifest, Puts, GoesOn
<1>3. /\ Op(p) \notin Removals
      /\ req[p].man \in Packs /\ req[p].man # None
      /\ dir'[s] # Absent /\ dir'[s].m # None /\ dir'[s].r = dir[s].r
  <2>1. Op(p) \notin Removals /\ req[p].man \in Packs
    BY DEF PutsManifest, Removals, Requests, Carries, Creations, Edits
  <2>2. dir[s] \in Directory
    BY <1>2, Typed
  <2>3. [m |-> req[p].man, r |-> dir[s].r] \in Directory
    BY <2>1, <2>2 DEF Directory
  <2> QED
    BY <1>2, <2>1, <2>3, Sentinels
<1>4. /\ Op(p) \in {"create", "import"} /\ Step(p) = 2 => Step(p)' = 3 /\ Due(p) /\ ~ManifestDue(p)'
      /\ Op(p) = "clone" => Step(p) = 4 /\ Step(p)' = 5 /\ Due(p) /\ ~Due(p)'
      /\ Op(p) = "save_rule" => ~Due(p)'
      /\ On(p, s)'
      /\ RulesDue(p)' => RulesDue(p)
      /\ ManifestDue(p)' => ManifestDue(p)
      /\ ~ManifestDue(p)'
  BY <1>2 DEF PutsManifest, Due, RulesDue, ManifestDue, On, Creations
<1>5. /\ \A q \in Procs \ {p} : On(q, s) => ~Due(q) /\ ~RulesDue(q) /\ ~ManifestDue(q)
      /\ Op(p) # "save_rule" => \A q \in Procs \ {p} : On(q, s) => Op(q) = "delete"
  BY <1>3, <1>4, Company DEF SlotInv, PutsManifest, Removals, Due
<1>6. (Removing(s)' <=> Removing(s)) /\ (Half(s)' <=> Half(s))
  <2>1. \A q \in Procs : (On(q, s)' <=> On(q, s)) /\ Op(q)' = Op(q)
    BY <1>1, <1>2, <1>4 DEF Same
  <2> QED
    BY <2>1 DEF Removing, Half
<1>7. Exclusive(s)'
  BY <1>1, <1>4, <1>5, ExclusiveKept DEF SlotInv, Due
<1>8. NoRulesYet(s)' /\ NoManifestYet(s)'
  BY <1>1, <1>2, <1>3, <1>4, <1>5 DEF Same, SlotInv, NoRulesYet, NoManifestYet, Unfilled
<1>9. RemovedIsGone(s)'
  BY <1>1, <1>2, <1>3 DEF Same, SlotInv, RemovedIsGone
<1>10. CloneSound(s)'
  <2>1. \A q \in Procs \ {p} : On(q, s) /\ Op(q) = "clone" => Step(q) \notin {3, 4}
    BY <1>5 DEF ManifestDue
  <2> QED
    BY <1>1, <1>2, <1>4, <2>1 DEF Same, CloneSound
<1>11. Loads(dir[s]) => Loads(dir[s])'
  BY <1>3 DEF Loads, Readable
<1>12. CreationSound(s)'
  <2> SUFFICES ASSUME s \notin cut', ~Removing(s)', NEW q \in Procs, On(q, s)'
               PROVE  /\ Op(q)' = "create" /\ Step(q)' = 3 => dir'[s] = Absent \/ dir'[s].m # None
                      /\ Op(q)' = "create" /\ Step(q)' = 4 => dir'[s] = Absent \/ Loads(dir[s])'
                      /\ Op(q)' = "import" /\ Step(q)' = 6 => dir'[s] = Absent \/ Loads(dir[s])'
    BY DEF CreationSound
  <2>1. CASE q = p
    BY <1>2, <1>3, <1>4, <2>1 DEF PutsManifest
  <2>2. CASE q # p
    <3>1. On(q, s) /\ Op(q)' = Op(q) /\ Step(q)' = Step(q)
      BY <1>1, <2>2 DEF Same
    <3> QED
      BY <1>2, <1>3, <1>6, <1>11, <3>1 DEF SlotInv, CreationSound
  <2> QED
    BY <2>1, <2>2
<1>13. EditedIsNamed(s)'
  BY <1>3 DEF EditedIsNamed
<1>14. ListedIsSound(s)'
  <2> SUFFICES ASSUME s \notin cut', ~Half(s)' PROVE Loads(dir[s])'
    BY DEF ListedIsSound
  <2>1. ~Half(s) /\ ~Removing(s) /\ s \notin cut
    BY <1>2, <1>6 DEF Half, Removing
  <2>2. Op(p) \notin {"create", "import"}
    BY <2>1 DEF Half
  <2>3. CASE Op(p) = "clone"
    <3>1. Sound(dir[s])
      BY <1>4, <2>1, <2>3 DEF SlotInv, CloneSound
    <3> QED
      BY <1>2, <1>3, <3>1 DEF Sound, Loads, Readable
  <2>4. CASE Op(p) = "save_rule"
    <3>1. dir[s].m # None
      BY <1>2, <2>1, <2>4 DEF SlotInv, EditedIsNamed, Edits
    <3>2. Loads(dir[s])
      BY <1>2, <2>1, <3>1 DEF SlotInv, ListedIsSound, Unnamed
    <3> QED
      BY <1>11, <3>2
  <2> QED
    BY <2>2, <2>3, <2>4 DEF PutsManifest
<1> QED
  BY <1>7, <1>8, <1>9, <1>10, <1>12, <1>13, <1>14 DEF SlotInv

(* Rules: of a creation, with only deletions beside it; or of an edit. *)
LEMMA PutsRulesSlot ==
  ASSUME TypeOK, Requests, NEW p \in Procs, NEW s \in Slots, SlotInv(s),
         Slot(p) = s, On(p, s), Others(p), PutsRules(p)
  PROVE  SlotInv(s)'
<1>1. Same(p, s)
  BY OthersAreSame
<1>2. /\ dir[s] # Absent /\ dir'[s] = [m |-> dir[s].m, r |-> req[p].doc] /\ cut' = cut
      /\ Op(p)' = Op(p) /\ Step(p)' = Step(p) + 1 /\ Slot(p)' = s
      /\ req'[p].doc = req[p].doc
  BY DEF PutsRules, Puts, GoesOn
<1>3. /\ Op(p) \notin Removals
      /\ dir'[s] # Absent /\ dir'[s].m = dir[s].m /\ dir'[s].r = req[p].doc
  <2>1. Op(p) \notin Removals
    BY DEF PutsRules, Removals, Edits
  <2>2. dir[s] \in Directory /\ req[p].doc \in Document \cup {None, Torn}
    BY <1>2, Typed
  <2>3. [m |-> dir[s].m, r |-> req[p].doc] \in Directory
    BY <2>2 DEF Directory
  <2> QED
    BY <1>2, <2>1, <2>3, Sentinels
<1>4. /\ Op(p) = "create" => Step(p) = 3 /\ Step(p)' = 4 /\ Due(p) /\ ~Due(p)'
      /\ Op(p) = "import" => Step(p) = 4 /\ Step(p)' = 5 /\ Due(p) /\ ~Due(p)'
      /\ Op(p) = "clone" => Step(p) = 3 /\ Step(p)' = 4 /\ Due(p)
      /\ Op(p) \in Edits => ~Due(p)'
      /\ On(p, s)' /\ ~RulesDue(p)'
      /\ ManifestDue(p)' => ManifestDue(p)
      /\ Op(p) \in {"create", "import", "clone"} \cup Edits
  BY <1>2 DEF PutsRules, Due, RulesDue, ManifestDue, On, Creations, Edits
<1>5. /\ \A q \in Procs \ {p} : On(q, s) => ~Due(q) /\ ~RulesDue(q) /\ ~ManifestDue(q)
      /\ Op(p) \notin Edits => \A q \in Procs \ {p} : On(q, s) => Op(q) = "delete"
  BY <1>3, <1>4, Company DEF SlotInv, Removals, Due
<1>6. (Removing(s)' <=> Removing(s)) /\ (Half(s)' <=> Half(s))
  <2>1. \A q \in Procs : (On(q, s)' <=> On(q, s)) /\ Op(q)' = Op(q)
    BY <1>1, <1>2, <1>4 DEF Same
  <2> QED
    BY <2>1 DEF Removing, Half
<1>7. Exclusive(s)'
  BY <1>1, <1>4, <1>5, ExclusiveKept DEF SlotInv, Due
<1>8. NoRulesYet(s)' /\ NoManifestYet(s)'
  BY <1>1, <1>2, <1>3, <1>4, <1>5 DEF Same, SlotInv, NoRulesYet, NoManifestYet, Unnamed
<1>9. RemovedIsGone(s)'
  BY <1>1, <1>2, <1>3 DEF Same, SlotInv, RemovedIsGone
<1>10. CloneSound(s)'
  <2>1. \A q \in Procs \ {p} : On(q, s) /\ Op(q) = "clone" => Step(q) \notin {3, 4}
    BY <1>5 DEF ManifestDue
  <2>2. Op(p) = "clone" /\ s \notin cut => Sound(dir[s])'
    BY <1>3, <1>4, Sentinels DEF SlotInv, CloneSound, Sound
  <2> QED
    BY <1>1, <1>2, <1>4, <2>1, <2>2 DEF Same, CloneSound
<1>11. Op(p) \in Edits => req[p].doc \in Document /\ Loadable(req[p].doc.entries)
  BY DEF Requests, Carries
<1>12. Op(p) \in Edits /\ dir[s].m # None => Loads(dir[s])'
  BY <1>3, <1>11, Sentinels DEF Loads, Readable
<1>13. CreationSound(s)'
  <2> SUFFICES ASSUME s \notin cut', ~Removing(s)', NEW q \in Procs, On(q, s)'
               PROVE  /\ Op(q)' = "create" /\ Step(q)' = 3 => dir'[s] = Absent \/ dir'[s].m # None
                      /\ Op(q)' = "create" /\ Step(q)' = 4 => dir'[s] = Absent \/ Loads(dir[s])'
                      /\ Op(q)' = "import" /\ Step(q)' = 6 => dir'[s] = Absent \/ Loads(dir[s])'
    BY DEF CreationSound
  <2>1. CASE q = p
    <3>1. CASE Op(p) = "create"
      <4>1. dir[s].m # None
        BY <1>2, <1>4, <1>6, <3>1 DEF SlotInv, CreationSound
      <4>2. req[p].doc \in Document /\ Loadable(req[p].doc.entries)
        BY <3>1 DEF Requests, Carries, Loadable
      <4>3. Loads(dir[s])'
        BY <1>3, <4>1, <4>2, Sentinels DEF Loads, Readable
      <4> QED
        BY <1>2, <1>4, <2>1, <3>1, <4>3
    <3>2. CASE Op(p) # "create"
      BY <1>2, <1>4, <2>1, <3>2
    <3> QED
      BY <3>1, <3>2
  <2>2. CASE q # p
    <3>1. On(q, s) /\ Op(q)' = Op(q) /\ Step(q)' = Step(q)
      BY <1>1, <2>2 DEF Same
    <3>2. CASE Op(p) \in Edits
      <4>1. Op(q) = "create" => Step(q) # 3
        BY <1>5, <2>2, <3>1 DEF RulesDue
      <4>2. /\ Op(q) = "create" /\ Step(q) = 4 => dir[s].m # None
            /\ Op(q) = "import" /\ Step(q) = 6 => dir[s].m # None
        BY <1>2, <1>6, <3>1 DEF SlotInv, CreationSound, Loads, Readable
      <4> QED
        BY <1>12, <3>1, <3>2, <4>1, <4>2
    <3>3. CASE Op(p) \notin Edits
      BY <1>5, <2>2, <3>1, <3>3
    <3> QED
      BY <3>2, <3>3
  <2> QED
    BY <2>1, <2>2
<1>14. EditedIsNamed(s)'
  <2> SUFFICES ASSUME s \notin cut', ~Half(s)', NEW q \in Procs, On(q, s)', Op(q)' \in Edits
               PROVE  dir'[s].m # None
    BY DEF EditedIsNamed
  <2>1. On(q, s) /\ Op(q) \in Edits
    BY <1>1, <1>2 DEF Same
  <2> QED
    BY <1>2, <1>3, <1>6, <2>1 DEF SlotInv, EditedIsNamed
<1>15. ListedIsSound(s)'
  <2> SUFFICES ASSUME s \notin cut', ~Half(s)' PROVE Unnamed(dir[s])' \/ Loads(dir[s])'
    BY DEF ListedIsSound
  <2>1. Op(p) \notin {"create", "import"}
    BY <1>6 DEF Half
  <2>2. CASE Op(p) = "clone"
    <3>1. Unnamed(dir[s])
      BY <1>4, <2>2 DEF SlotInv, NoManifestYet, ManifestDue
    <3> QED
      BY <1>2, <1>3, <3>1 DEF Unnamed
  <2>3. CASE Op(p) \in Edits
    BY <1>3, <1>12, <2>3 DEF Unnamed
  <2> QED
    BY <1>4, <2>1, <2>2, <2>3
<1> QED
  BY <1>7, <1>8, <1>9, <1>10, <1>13, <1>14, <1>15 DEF SlotInv

(* Rules that are cut short, or that a clone passes over. *)
LEMMA TearsSlot ==
  ASSUME TypeOK, Requests, Sources, NEW p \in Procs, NEW s \in Slots, SlotInv(s),
         Slot(p) = s, On(p, s), Others(p), Tears(p) \/ Skips(p)
  PROVE  SlotInv(s)'
<1>1. Same(p, s)
  BY OthersAreSame
<1>2. /\ Op(p) \in {"clone", "import"} /\ RulesDue(p) /\ Due(p)
      /\ Op(p)' = Op(p) /\ Slot(p)' = s /\ On(p, s)'
      /\ Op(p) = "import" => Step(p)' = 4 /\ RulesDue(p)' /\ ~ManifestDue(p)'
      /\ Op(p) = "clone" => /\ Step(p) = 2 /\ Step(p)' \in {3, 4}
                            /\ ManifestDue(p) /\ ManifestDue(p)'
      /\ s \in cut => s \in cut'
  BY DEF Tears, Skips, GoesOn, RulesDue, ManifestDue, Due, On, Creations
<1>3. \A q \in Procs \ {p} : On(q, s)' => /\ Op(q)' = "delete" /\ ~Due(q)'
                                          /\ ~RulesDue(q)' /\ ~ManifestDue(q)'
  BY <1>1, <1>2, Company DEF SlotInv, Same, Due
<1>4. /\ dir[s] = Absent => dir'[s] = Absent
      /\ Unnamed(dir[s]) => Unnamed(dir[s])'
      /\ RulesDue(p)' => Unfilled(dir[s])'
  <2>1. CASE Tears(p)
    <3>1. dir[s] # Absent /\ dir'[s] = [m |-> dir[s].m, r |-> Torn]
      BY <2>1 DEF Tears
    <3> QED
      BY <3>1 DEF Unnamed, Unfilled
  <2>2. CASE Skips(p)
    <3>1. dir' = dir /\ ~RulesDue(p)'
      BY <2>2 DEF Skips, GoesOn, RulesDue
    <3> QED
      BY <3>1 DEF Unnamed
  <2> QED
    BY <2>1, <2>2
<1>5. Exclusive(s)'
  BY <1>1, <1>2, <1>3, ExclusiveKept DEF SlotInv, Same
<1>6. NoRulesYet(s)'
  BY <1>3, <1>4 DEF NoRulesYet
<1>7. NoManifestYet(s)'
  BY <1>2, <1>3, <1>4 DEF SlotInv, NoManifestYet
<1>8. RemovedIsGone(s)'
  <2>1. \A q \in Procs : On(q, s)' /\ Op(q)' \in Removals =>
          On(q, s) /\ Op(q) = Op(q)' /\ Step(q) = Step(q)'
    BY <1>1, <1>2 DEF Same, Removals
  <2> QED
    BY <1>4, <2>1 DEF SlotInv, RemovedIsGone
<1>9. CloneSound(s)'
  <2> SUFFICES ASSUME s \notin cut', Op(p) = "clone"
               PROVE  /\ Step(p)' = 3
                      /\ req'[p].doc \in Document /\ Loadable(req'[p].doc.entries)
    BY <1>2, <1>3 DEF CloneSound
  <2>1. /\ Tears(p) /\ Step(p)' = 3 /\ req'[p].doc = SourceRules(p)
        /\ SourceRules(p) \notin {None, Torn} /\ SourceSlot(p) \notin overtaken
    BY <1>2 DEF Tears, Skips, GoesOn
  <2>2. req[p].man \in Packs /\ req[p].src \in Numbers \cup {Standard} /\ s[1] \in Places
    BY DEF Requests, Carries, Creations, Slots
  <2>3. CASE req[p].src = Standard
    BY <2>1, <2>2, <2>3, WorkspaceAssumption DEF SourceRules, Document
  <2>4. CASE req[p].src \in Numbers
    <3>1. SourceSlot(p) \in Slots
      BY <2>2, <2>4 DEF SourceSlot, Slots
    <3>2. Loose(Source(p))
      BY <1>2, <2>1, <2>4 DEF Sources, Source
    <3>3. /\ Source(p) # Absent /\ Source(p).r \notin {None, Torn}
          /\ SourceRules(p) = [Source(p).r EXCEPT !.pack = req[p].man]
      BY <2>1, <2>4, Sentinels DEF SourceRules
    <3>4. Source(p).r \in Document /\ Loadable(Source(p).r.entries)
      BY <3>1, <3>2, <3>3, Typed DEF Source, Loose
    <3>5. SourceRules(p) \in Document /\ SourceRules(p).entries = Source(p).r.entries
      BY <2>2, <3>3, <3>4 DEF Document
    <3> QED
      BY <2>1, <3>4, <3>5
  <2> QED
    BY <2>2, <2>3, <2>4
<1>10. CreationSound(s)'
  BY <1>2, <1>3 DEF CreationSound
<1>11. Op(p) = "import" => Half(s)'
  BY <1>2 DEF Half
<1>12. Op(p) = "clone" => Unnamed(dir[s])'
  BY <1>2, <1>4 DEF SlotInv, NoManifestYet
<1>13. EditedIsNamed(s)' /\ ListedIsSound(s)'
  BY <1>2, <1>3, <1>11, <1>12 DEF EditedIsNamed, ListedIsSound, Edits
<1> QED
  BY <1>5, <1>6, <1>7, <1>8, <1>9, <1>10, <1>13 DEF SlotInv

(* An import is checked. *)
LEMMA ChecksSlot ==
  ASSUME NEW p \in Procs, NEW s \in Slots, SlotInv(s),
         Slot(p) = s, On(p, s), Others(p), Passes(p) \/ Rejects(p)
  PROVE  SlotInv(s)'
<1>1. Same(p, s)
  BY OthersAreSame
<1>2. /\ Op(p) = "import" /\ Slot(p)' = s /\ On(p, s)' /\ ~Due(p)'
      /\ ~RulesDue(p)' /\ ~ManifestDue(p)'
      /\ dir' = dir /\ cut' = cut
      /\ \/ Op(p)' = "import" /\ Step(p)' = 6 /\ Loads(dir[s])
         \/ Op(p)' = "reject" /\ Step(p)' = 1
  BY DEF Passes, Rejects, GoesOn, RulesDue, ManifestDue, Due, On, Creations
<1>3. \A q \in Procs \ {p} : On(q, s) => ~Due(q) /\ ~RulesDue(q) /\ ~ManifestDue(q)
  BY <1>2, Company DEF SlotInv, Due
<1>4. /\ Half(s)' /\ Half(s)
      /\ Op(p)' = "reject" => Removing(s)'
      /\ Op(p)' = "import" => (Removing(s)' <=> Removing(s))
  BY <1>1, <1>2 DEF Half, Removing, Removals, Same
<1>5. Exclusive(s)'
  BY <1>1, <1>2, <1>3, ExclusiveKept DEF SlotInv
<1>6. NoRulesYet(s)' /\ NoManifestYet(s)'
  BY <1>1, <1>2, <1>3 DEF Same, NoRulesYet, NoManifestYet
<1>7. RemovedIsGone(s)'
  BY <1>1, <1>2 DEF Same, SlotInv, RemovedIsGone
<1>8. CloneSound(s)'
  <2>1. \A q \in Procs \ {p} : On(q, s) /\ Op(q) = "clone" => Step(q) \notin {3, 4}
    BY <1>3 DEF ManifestDue
  <2> QED
    BY <1>1, <1>2, <2>1 DEF Same, CloneSound
<1>9. CreationSound(s)'
  BY <1>1, <1>2, <1>4 DEF Same, SlotInv, CreationSound
<1>10. EditedIsNamed(s)' /\ ListedIsSound(s)'
  BY <1>4 DEF EditedIsNamed, ListedIsSound
<1> QED
  BY <1>5, <1>6, <1>7, <1>8, <1>9, <1>10 DEF SlotInv

(* Files go. *)
LEMMA ClearsSlot ==
  ASSUME NEW p \in Procs, NEW s \in Slots, SlotInv(s),
         Slot(p) = s, On(p, s), Others(p), Clears(p)
  PROVE  SlotInv(s)'
<1>1. Same(p, s)
  BY OthersAreSame
<1>2. /\ Op(p) \in Removals /\ Op(p)' = Op(p) /\ Slot(p)' = s /\ On(p, s)'
      /\ ~Due(p)' /\ ~RulesDue(p)' /\ ~ManifestDue(p)' /\ cut' = cut
      /\ Step(p)' = 3 => dir'[s] = Absent
  BY DEF Clears, GoesOn, RulesDue, ManifestDue, Due, On, Creations, Removals
<1>3. /\ dir[s] = Absent => dir'[s] = Absent
      /\ Unnamed(dir[s]) => Unnamed(dir[s])'
      /\ Unfilled(dir[s]) => Unfilled(dir[s])'
  BY DEF Clears, Unnamed, Unfilled
<1>4. Half(s)' /\ Removing(s)' /\ Removing(s)
  BY <1>2 DEF Half, Removing
<1>5. Op(p) # "delete" => \A q \in Procs \ {p} : On(q, s) => ~Due(q)
  BY Company DEF SlotInv
<1>6. Exclusive(s)'
  BY <1>1, <1>2, <1>5, ExclusiveKept DEF SlotInv
<1>7. NoRulesYet(s)' /\ NoManifestYet(s)'
  BY <1>1, <1>2, <1>3 DEF Same, SlotInv, NoRulesYet, NoManifestYet
<1>8. RemovedIsGone(s)'
  BY <1>1, <1>2, <1>3 DEF Same, SlotInv, RemovedIsGone
<1>9. CloneSound(s)'
  BY <1>1, <1>2, <1>4 DEF Same, SlotInv, CloneSound, Removals
<1>10. CreationSound(s)' /\ EditedIsNamed(s)' /\ ListedIsSound(s)'
  BY <1>4 DEF CreationSound, EditedIsNamed, ListedIsSound
<1> QED
  BY <1>6, <1>7, <1>8, <1>9, <1>10 DEF SlotInv

(* An edit is taken up where a pack loads, a deletion anywhere. *)
LEMMA TakesSlot ==
  ASSUME NEW p \in Procs, NEW s \in Slots, SlotInv(s), Others(p),
         Op(p) = "none", dir' = dir, cut' = cut, Slot(p)' = s,
         TakesEdit(p) \/ TakesDeletion(p)
  PROVE  SlotInv(s)'
<1>1. Same(p, s)
  BY OthersAreSame
<1>2. /\ ~On(p, s) /\ On(p, s)'
      /\ ~Due(p)' /\ ~RulesDue(p)' /\ ~ManifestDue(p)' /\ Step(p)' = 1
      /\ Op(p)' = "delete" \/ Op(p)' \in Edits
  BY DEF TakesEdit, TakesDeletion, On, Due, RulesDue, ManifestDue, Creations, Edits
<1>3. Op(p)' \in Edits => /\ dir[s] # Absent /\ dir[s].m # None /\ dir[s].r \notin {None, Torn}
  BY DEF TakesEdit, TakesDeletion, Readable, Edits
<1>4. Op(p)' \in Edits => \A q \in Procs \ {p} : On(q, s) => ~Due(q)
  BY <1>3 DEF SlotInv, NoRulesYet, NoManifestYet, Due, Unfilled, Unnamed
<1>5. Exclusive(s)'
  BY <1>1, <1>2, <1>4, ExclusiveKept DEF SlotInv
<1>6. NoRulesYet(s)' /\ NoManifestYet(s)' /\ RemovedIsGone(s)'
  BY <1>1, <1>2 DEF Same, SlotInv, NoRulesYet, NoManifestYet, RemovedIsGone
<1>7. (Removing(s) => Removing(s)') /\ (Half(s) => Half(s)')
  BY <1>1, <1>2 DEF Removing, Half, Same
<1>8. CloneSound(s)' /\ CreationSound(s)'
  BY <1>1, <1>2, <1>7 DEF Same, SlotInv, CloneSound, CreationSound, Edits
<1>9. EditedIsNamed(s)'
  BY <1>1, <1>2, <1>3, <1>7 DEF Same, SlotInv, EditedIsNamed, Edits
<1>10. ListedIsSound(s)'
  BY <1>7 DEF SlotInv, ListedIsSound
<1> QED
  BY <1>5, <1>6, <1>8, <1>9, <1>10 DEF SlotInv

LEMMA PreservedSlots ==
  ASSUME TypeOK, Requests, SlotsInv, Sources, NEW p \in Procs, WsStep(p)
  PROVE  SlotsInv'
<1> SUFFICES ASSUME NEW s \in Slots, s \notin overtaken' PROVE SlotInv(s)'
  BY DEF SlotsInv
<1>1. Others(p)
  BY RequestTypes
<1>2. Same(p, s) /\ \A q \in Procs \ {p} : req'[q] = req[q]
  BY <1>1, OthersAreSame DEF Others
<1>3. CASE Receive(p)
  <2>1. dir' = dir /\ cut' = cut /\ overtaken' = overtaken
    BY <1>3, ReceiveFootprint
  <2>2. SlotInv(s) /\ Op(p) = "none"
    BY <1>3, <2>1, ReceiveKind DEF SlotsInv, TakesCreation, TakesEdit, TakesDeletion
  <2>3. ASSUME ~On(p, s)' PROVE SlotInv(s)'
    <3>1. ~On(p, s)
      BY <2>2 DEF On
    <3> QED
      BY <1>2, <2>1, <2>2, <2>3, <3>1, SlotFrame DEF Same
  <2>4. CASE TakesCreation(p)
    BY <2>3, <2>4 DEF TakesCreation, On
  <2>5. CASE TakesEdit(p) \/ TakesDeletion(p)
    BY <1>1, <2>1, <2>2, <2>3, <2>5, TakesSlot DEF On
  <2> QED
    BY <1>3, <2>4, <2>5, ReceiveKind
<1>4. CASE Write(p) \/ Finish(p) \/ Stops(p)
  <2>1. Op(p) # "none" /\ s \notin overtaken
    BY <1>4, WriteFootprint, KindFacts
  <2>2. SlotInv(s)
    BY <2>1 DEF SlotsInv
  <2>3. CASE Slot(p) # s
    <3>1. dir'[s] = dir[s] /\ (s \in cut' <=> s \in cut)
      BY <1>4, <2>3, WriteFootprint DEF OtherSlots
    <3>2. ~On(p, s) /\ ~On(p, s)'
      BY <1>4, <2>3, KindFacts DEF On
    <3> QED
      BY <1>2, <2>2, <3>1, <3>2, SlotFrame DEF Same
  <2>4. CASE Slot(p) = s /\ (Leaves(p) \/ Makes(p))
    BY <1>1, <2>1, <2>2, <2>4, LeavesSlot, MakesSlot
  <2>5. CASE Slot(p) = s /\ ~Leaves(p) /\ ~Makes(p)
    <3>1. On(p, s)
      BY <1>4, <2>5, KindFacts
    <3> QED
      BY <1>1, <1>4, <2>2, <2>5, <3>1, WriteKind, PutsManifestSlot, PutsRulesSlot, TearsSlot,
         ChecksSlot, ClearsSlot
  <2> QED
    BY <2>3, <2>4, <2>5
<1> QED
  BY <1>3, <1>4 DEF WsStep

LEMMA PreservedSources ==
  ASSUME TypeOK, Requests, SlotsInv, Sources, NEW p \in Procs, WsStep(p)
  PROVE  Sources'
<1> SUFFICES ASSUME NEW q \in Procs, Op(q)' = "clone", req'[q].src \in Numbers,
                    Step(q)' \in {1, 2}, NEW t, t = SourceSlot(q)'
             PROVE  /\ t # Slot(q)'
                    /\ t \notin overtaken' =>
                         /\ Loose(dir'[t])
                         /\ \A w \in Procs : On(w, t)' => ~RulesDue(w)'
  BY DEF Sources, On
<1>1. Others(p)
  BY RequestTypes
<1>2. overtaken \subseteq overtaken'
  BY ReceiveFootprint, KindFacts DEF WsStep
<1>3. CASE q = p /\ Receive(p)
  <2>1. /\ TakesCreation(p) /\ t \in Slots /\ t # Slot(p)' /\ Loads(dir[t])
        /\ dir' = dir /\ overtaken' = overtaken
    <3>1. TakesCreation(p)
      BY <1>3, ReceiveKind DEF TakesEdit, TakesDeletion, Edits
    <3> QED
      BY <1>3, <3>1, ReceiveFootprint DEF TakesCreation
  <2>2. Loose(dir[t])
    BY <2>1 DEF Loads, Loose
  <2>3. ASSUME t \notin overtaken, NEW w \in Procs, On(w, t)' PROVE ~RulesDue(w)'
    <3>1. w # p
      BY <2>1, <2>3 DEF On
    <3>2. Same(p, t)
      BY <1>1, <2>1, OthersAreSame
    <3>3. On(w, t) /\ (RulesDue(w)' <=> RulesDue(w))
      BY <2>3, <3>1, <3>2 DEF Same
    <3>4. ~Unfilled(dir[t])
      BY <2>1 DEF Loads, Readable, Unfilled
    <3> QED
      BY <2>1, <2>3, <3>3, <3>4 DEF SlotsInv, SlotInv, NoRulesYet
  <2> QED
    BY <1>3, <2>1, <2>2, <2>3
<1>4. CASE q = p /\ ~Receive(p)
  <2>1. Write(p) \/ Finish(p) \/ Stops(p)
    BY <1>4 DEF WsStep
  <2>2. Makes(p)
    <3>1. ~Leaves(p)
      BY <1>4, <2>1, KindFacts
    <3>2. ~PutsManifest(p)
      BY <1>4 DEF PutsManifest, Puts, GoesOn
    <3>3. ~PutsRules(p)
      BY <1>4 DEF PutsRules, Puts, GoesOn, Edits
    <3>4. ~Tears(p) /\ ~Skips(p) /\ ~Passes(p) /\ ~Rejects(p)
      BY <1>4 DEF Tears, Skips, Passes, Rejects, GoesOn
    <3>5. ~Clears(p)
      BY <1>4 DEF Clears, GoesOn, Removals
    <3> QED
      BY <2>1, <3>1, <3>2, <3>3, <3>4, <3>5, WriteKind
  <2>3. /\ Op(p) = "clone" /\ Step(p) = 1 /\ Slot(p)' = Slot(p)
        /\ req'[p].src = req[p].src /\ req[p].src \in Numbers
    BY <1>4, <2>2 DEF Makes, GoesOn
  <2>4. t = SourceSlot(p)
    BY <1>4, <2>3 DEF SourceSlot
  <2>6. /\ t # Slot(p)
        /\ t \notin overtaken => /\ Loose(dir[t])
                                 /\ \A w \in Procs : On(w, t) => ~RulesDue(w)
    BY <2>3, <2>4 DEF Sources
  <2>7. t \in Slots /\ dir'[t] = dir[t]
    <3>1. t \in Slots
      BY <2>3, <2>4 DEF Requests, Carries, SourceSlot, Slots
    <3> QED
      BY <2>1, <2>6, <3>1, WriteFootprint DEF OtherSlots
  <2>8. ~On(p, t)'
    BY <2>3, <2>6 DEF On
  <2>9. \A w \in Procs : On(w, t)' => On(w, t) /\ (RulesDue(w)' <=> RulesDue(w))
    BY <1>1, <2>7, <2>8, OthersAreSame DEF Same
  <2> QED
    BY <1>2, <1>4, <2>3, <2>6, <2>7, <2>9
<1>5. CASE q # p
  <2>1. /\ req'[q] = req[q] /\ Op(q) = "clone" /\ Step(q) \in {1, 2}
        /\ Slot(q)' = Slot(q) /\ t = SourceSlot(q) /\ req[q].src \in Numbers
    BY <1>1, <1>5 DEF Others, Op, Step, Slot, SourceSlot
  <2>3. t \in Slots
    BY <2>1 DEF Requests, Carries, SourceSlot, Slots
  <2>4. t # Slot(q)
    BY <2>1 DEF Sources
  <2> SUFFICES ASSUME t \notin overtaken'
               PROVE  Loose(dir'[t]) /\ \A w \in Procs : On(w, t)' => ~RulesDue(w)'
    BY <2>1, <2>4
  <2>5. Loose(dir[t]) /\ \A w \in Procs : On(w, t) => ~RulesDue(w)
    BY <1>2, <2>1 DEF Sources
  <2>6. \A w \in Procs \ {p} : On(w, t)' => ~RulesDue(w)'
    BY <1>1, <2>3, <2>5, OthersAreSame DEF Same
  <2>7. CASE Receive(p)
    <3>1. dir' = dir
      BY <2>7, ReceiveFootprint
    <3>2. On(p, t)' => ~RulesDue(p)'
      BY <2>7, ReceiveKind DEF TakesCreation, TakesEdit, TakesDeletion, RulesDue, Edits
    <3> QED
      BY <2>5, <2>6, <3>1, <3>2
  <2>8. CASE (Write(p) \/ Finish(p) \/ Stops(p)) /\ Slot(p) # t
    <3>1. dir'[t] = dir[t] /\ ~On(p, t)'
      BY <2>3, <2>8, WriteFootprint, KindFacts DEF OtherSlots, On
    <3> QED
      BY <2>5, <2>6, <3>1
  <2>9. CASE (Write(p) \/ Finish(p) \/ Stops(p)) /\ Slot(p) = t
    <3>1. ~Makes(p)
      BY <1>5, <2>1, <2>4, <2>9 DEF Makes
    <3>2. CASE Leaves(p)
      BY <2>5, <2>6, <2>9, <3>2, KindFacts DEF Leaves, On
    <3>3. ASSUME ~Leaves(p) PROVE On(p, t) /\ ~RulesDue(p)
      BY <2>5, <2>9, <3>1, <3>3, KindFacts
    <3>4. CASE ~Leaves(p) /\ PutsManifest(p)
      <4>1. dir'[t] = [m |-> req[p].man, r |-> dir[t].r] /\ dir[t] # Absent
        BY <2>9, <3>4 DEF PutsManifest, Puts
      <4>2. ~RulesDue(p)'
        BY <3>3, <3>4 DEF PutsManifest, Puts, GoesOn, RulesDue
      <4> QED
        BY <2>5, <2>6, <4>1, <4>2 DEF Loose
    <3>5. CASE ~Leaves(p) /\ PutsRules(p)
      <4>1. Op(p) \in Edits
        BY <3>3, <3>5 DEF PutsRules, RulesDue, Edits
      <4>2. dir'[t] = [m |-> dir[t].m, r |-> req[p].doc] /\ Loadable(req[p].doc.entries)
        BY <2>9, <3>5, <4>1 DEF PutsRules, Puts, Requests, Carries
      <4>3. ~RulesDue(p)'
        BY <3>5, <4>1 DEF PutsRules, Puts, GoesOn, RulesDue, Edits
      <4> QED
        BY <2>6, <4>2, <4>3 DEF Loose
    <3>6. CASE ~Leaves(p) /\ (Tears(p) \/ Skips(p))
      BY <3>3, <3>6 DEF Tears, Skips, RulesDue
    <3>7. CASE ~Leaves(p) /\ (Passes(p) \/ Rejects(p))
      BY <2>5, <2>6, <3>7 DEF Passes, Rejects, GoesOn, RulesDue
    <3>8. CASE ~Leaves(p) /\ Clears(p)
      <4>1. Loose(dir'[t])
        BY <2>5, <2>9, <3>8 DEF Clears, Loose
      <4>2. ~RulesDue(p)'
        BY <3>8 DEF Clears, GoesOn, RulesDue, Removals
      <4> QED
        BY <2>6, <4>1, <4>2
    <3> QED
      BY <2>9, <3>1, <3>2, <3>4, <3>5, <3>6, <3>7, <3>8, WriteKind
  <2> QED
    BY <2>7, <2>8, <2>9 DEF WsStep
<1> QED
  BY <1>3, <1>4, <1>5

-----------------------------------------------------------------------------
LEMMA WsInitHolds == WorkspaceInit => WsInv
<1> SUFFICES ASSUME WorkspaceInit PROVE WsInv
  OBVIOUS
<1>1. /\ \A p \in Procs : req[p] = NoRequest /\ Op(p) = "none" /\ Step(p) = 1
      /\ DOMAIN req = Procs /\ dir = [s \in Slots |-> Absent]
      /\ years = Shipped /\ used = {} /\ cut = {} /\ overtaken = {}
  BY DEF WorkspaceInit, NoRequest, Op, Step
<1>2. NoRequest \in Request /\ NoRequest.at \in DOMAIN Plan[NoRequest.op]
  BY PlanEnds DEF NoRequest, Request
<1>3. TypeOK
  BY <1>1, <1>2, WorkspaceAssumption DEF TypeOK
<1>4. Requests
  BY <1>1 DEF Requests, Carries, Creations, Edits, NoRequest
<1>5. \A s \in Slots, p \in Procs : ~On(p, s)
  BY <1>1 DEF On
<1>6. OnePack
  BY <1>1, <1>5 DEF OnePack, OfPack
<1>7. SlotsInv
  BY <1>1, <1>5 DEF SlotsInv, SlotInv, Exclusive, NoRulesYet, NoManifestYet, CloneSound,
     CreationSound, RemovedIsGone, EditedIsNamed, ListedIsSound, Unnamed
<1>8. Sources
  BY <1>1 DEF Sources
<1> QED
  BY <1>3, <1>4, <1>6, <1>7, <1>8 DEF WsInv

LEMMA WsInvKept ==
  ASSUME WsInv, NEW p \in Procs, WsStep(p)
  PROVE  WsInv'
<1>1. TypeOK' /\ Requests'
  BY PreservedTypes, PreservedRequests DEF WsInv
<1> QED
  BY <1>1, PreservedOnePack, PreservedSlots, PreservedSources DEF WsInv

LEMMA WsInvSame ==
  ASSUME WsInv, UNCHANGED wsVars
  PROVE  WsInv'
BY DEF WsInv, wsVars, TypeOK, Requests, Carries, OnePack, OfPack, SlotsInv, SlotInv, Exclusive,
   NoRulesYet, NoManifestYet, CloneSound, CreationSound, RemovedIsGone, EditedIsNamed,
   ListedIsSound, Sources, Loose, Unnamed, Unfilled, Sound, Loads, Readable, Removing, Half, On,
   Op, Step, Slot, SourceSlot, RulesDue, ManifestDue, Due

LEMMA WsInvIsSafe == WsInv => ListedLoads /\ FilesBelongTogether
<1> SUFFICES ASSUME WsInv, NEW s \in Slots, s \notin overtaken
             PROVE  /\ Listed(dir[s]) /\ s \notin cut /\ ~UnderWay(s) => Loads(dir[s])
                    /\ Readable(dir[s]) => dir[s].m = dir[s].r.pack
  BY DEF ListedLoads, FilesBelongTogether
<1>1. ~UnderWay(s) => ~Half(s)
  BY DEF UnderWay, Half, On, Op, Removals
<1>2. Listed(dir[s]) /\ s \notin cut /\ ~UnderWay(s) => Loads(dir[s])
  BY <1>1 DEF WsInv, SlotsInv, SlotInv, ListedIsSound, Listed, Unnamed
<1>3. Readable(dir[s]) => dir[s].m = dir[s].r.pack
  BY DEF WsInv, OnePack, OfPack, Readable
<1> QED
  BY <1>2, <1>3

-----------------------------------------------------------------------------
(* The pages, the caches and the open form.                                *)

(* A page that read the state packs of a year before it became stray knows *)
(* that no bust has come since; one that has lost them was overtaken.      *)
PageInv(p) ==
  /\ page[p].at # "idle" => page[p].year \in Years
  /\ page[p].at = "scanned" /\ ~page[p].overtaken /\ Stray(page[p].year) =>
       page[p].year \in quiet[p]
  /\ page[p].at = "stored" /\ cached[p][page[p].year] = "no" => page[p].overtaken
  /\ page[p].at = "lost" => page[p].overtaken
  /\ page[p].at = "unavailable" => Stray(page[p].year)

CacheInv(p) ==
  /\ ~Up(p) => \A y \in Years : cached[p][y] = "no"
  /\ \A y \in Years : cached[p][y] = "fresh" /\ Stray(y) => y \in quiet[p]

ServingInv == \A p \in Procs : PageInv(p) /\ CacheInv(p)

(* While its number is not given out again, what an open form shows is the *)
(* pack in the directory, and the pack of every request on it.             *)
FormInv == form # None =>
  /\ IF form.slot = Standard THEN form.pack = Standard ELSE form.pack \in Packs
  /\ form.slot # Standard /\ ~form.again /\ form.slot \notin overtaken =>
       OfPack(form.slot, form.pack)

ServerInv == WsInv /\ ServerTypeOK /\ ServingInv /\ FormInv /\ RunUsesChosenPack

Moves(p) == warm_caches(p) \/ Dies(p) \/ Edit(p) \/ Serve(p)

-----------------------------------------------------------------------------
LEMMA YearFacts ==
  /\ Federal \subseteq Places
  /\ available_years \subseteq Years
  /\ \A pl \in Places : YearOf[pl] \in Years
BY ServerAssumption DEF available_years, Years

LEMMA ServerTypes ==
  ASSUME ServerTypeOK, NEW p \in Procs
  PROVE  /\ page[p] \in Page /\ page[p].overtaken \in BOOLEAN
         /\ DOMAIN page = Procs /\ DOMAIN quiet = Procs
         /\ DOMAIN cached = Procs /\ DOMAIN server = Procs
         /\ cached[p] \in [Years -> {"no", "fresh", "late"}]
         /\ quiet[p] \subseteq Years
         /\ page[p].at # "idle" => Up(p)
BY DEF ServerTypeOK, Page, Up, NoPage

(* A process that takes part in a request takes one of its steps; no other *)
(* move touches the workspace.                                             *)
LEMMA MovesOnWorkspace ==
  ASSUME NEW p \in Procs, Moves(p)
  PROVE  (UNCHANGED wsVars /\ ~Handle(p)) \/ WsStep(p)
BY DEF Moves, warm_caches, Dies, Edit, Serve, Handle, Work, Respond, Raises, WsStep,
   LookUp, Scan, Store, calculate_form, ShowError, calculate_submit, SubmitFails

LEMMA IdleFrame ==
  ASSUME WsInv, WsInv', NEW p \in Procs, UNCHANGED wsVars \/ WsStep(p)
  PROVE  /\ \A q \in Procs \ {p} : Idle(q) => Idle(q)'
         /\ years \subseteq years' /\ years' \subseteq Places
         /\ years' = years \/ Receive(p)
<1>1. years' \subseteq Places
  BY DEF WsInv, TypeOK
<1>2. CASE UNCHANGED wsVars
  BY <1>1, <1>2 DEF wsVars, Idle, At
<1>3. CASE WsStep(p)
  <2>1. \A q \in Procs \ {p} : req'[q] = req[q]
    BY <1>3, RequestTypes DEF WsInv, Others
  <2>2. years \subseteq years' /\ (years' = years \/ Receive(p))
    BY <1>3, ReceiveFootprint, WriteFootprint DEF WsStep, WsInv
  <2> QED
    BY <1>1, <2>1, <2>2 DEF Idle, At
<1> QED
  BY <1>2, <1>3

LEMMA WorkspaceKept ==
  ASSUME WsInv, NEW p \in Procs, Moves(p)
  PROVE  WsInv'
BY MovesOnWorkspace, WsInvKept, WsInvSame

(* Directories are made and stay; a year that becomes stray is one of them. *)
LEMMA StrayFrame ==
  ASSUME years \subseteq years', NEW y
  PROVE  /\ Stray(y) => Stray(y)'
         /\ Stray(y)' /\ ~Stray(y) => y \in {YearOf[pl] : pl \in years' \ years}
         /\ years' = years => (Stray(y)' <=> Stray(y))
BY DEF Stray

LEMMA EndIsIdle ==
  ASSUME TypeOK, NEW p \in Procs, End(p)
  PROVE  Idle(p)'
<1>1. req'[p] = NoRequest
  BY EndFields
<1> QED
  BY <1>1, PlanEnds DEF Idle, At, NoRequest

-----------------------------------------------------------------------------
(* What each move does to what the servers keep.                           *)
LEMMA OfferedForms ==
  ASSUME TypeOK
  PROVE  \A f \in Offered :
           /\ f \in Choice
           /\ f.slot = Standard => f.pack = Standard
           /\ f.slot # Standard => /\ f.slot \in Slots
                                   /\ dir[f.slot] # Absent
                                   /\ f.pack = dir[f.slot].m /\ f.pack \in Packs
<1> SUFFICES ASSUME NEW f \in Offered
             PROVE  /\ f \in Choice
                    /\ f.slot = Standard => f.pack = Standard
                    /\ f.slot # Standard => /\ f.slot \in Slots
                                            /\ dir[f.slot] # Absent
                                            /\ f.pack = dir[f.slot].m /\ f.pack \in Packs
  OBVIOUS
<1>1. CASE \E y \in available_years :
             f = [slot |-> Standard, year |-> y, pack |-> Standard, again |-> FALSE]
  BY <1>1, YearFacts DEF Choice
<1>2. CASE \E s \in Slots : /\ s \in list_all_packs /\ s[1] \in Federal
                            /\ YearOf[s[1]] \in available_years
                            /\ f = [slot |-> s, year |-> YearOf[s[1]], pack |-> dir[s].m,
                                    again |-> FALSE]
  <2>1. PICK s \in Slots : /\ s \in list_all_packs /\ s[1] \in Federal
                           /\ YearOf[s[1]] \in available_years
                           /\ f = [slot |-> s, year |-> YearOf[s[1]], pack |-> dir[s].m,
                                   again |-> FALSE]
    BY <1>2
  <2>2. dir[s] # Absent /\ dir[s].m \in Packs
    BY <2>1, Typed DEF list_all_packs, Listed
  <2>3. s \in Federal \X Numbers /\ s # Standard
    BY <2>1, WorkspaceAssumption DEF Slots
  <2>4. YearOf[s[1]] \in Years
    BY <2>1, YearFacts
  <2> QED
    BY <2>1, <2>2, <2>3, <2>4 DEF Choice
<1> QED
  BY <1>1, <1>2 DEF Offered, list_all_packs

LEMMA FillTypes ==
  ASSUME ServerTypeOK, NEW p \in Procs, NEW y \in Years, FillCache(p, y)
  PROVE  /\ cached' \in [Procs -> [Years -> {"no", "fresh", "late"}]]
         /\ \A q \in Procs, z \in Years :
              cached'[q][z] # cached[q][z] =>
                q = p /\ z = y /\ ~Stray(y) /\ cached'[q][z] = "fresh"
<1>1. cached \in [Procs -> [Years -> {"no", "fresh", "late"}]]
  BY DEF ServerTypeOK
<1>2. CASE cached' = cached
  BY <1>1, <1>2
<1>3. CASE ~Stray(y) /\ cached' = [cached EXCEPT ![p][y] = "fresh"]
  BY <1>1, <1>3
<1> QED
  BY <1>2, <1>3 DEF FillCache

LEMMA BustFacts ==
  ASSUME ServerTypeOK, NEW p \in Procs, NEW pl \in Places, bust_pack_cache(p, pl)
  PROVE  /\ cached' \in [Procs -> [Years -> {"no", "fresh", "late"}]]
         /\ page' \in [Procs -> Page] /\ quiet' \in [Procs -> SUBSET Years]
         /\ \A q \in Procs \ {p} :
              cached'[q] = cached[q] /\ page'[q] = page[q] /\ quiet'[q] = quiet[q]
         /\ page'[p].at = page[p].at /\ page'[p].year = page[p].year
         /\ page[p].overtaken => page'[p].overtaken
         /\ \A y \in Years :
              \/ cached'[p][y] = cached[p][y] /\ (y \in quiet'[p] <=> y \in quiet[p])
              \/ cached'[p][y] = "no" /\ (page[p].year = y => page'[p].overtaken)
<1>1. /\ cached \in [Procs -> [Years -> {"no", "fresh", "late"}]]
      /\ page \in [Procs -> Page] /\ quiet \in [Procs -> SUBSET Years]
      /\ YearOf[pl] \in Years
  BY YearFacts DEF ServerTypeOK
<1>2. page' = [page EXCEPT ![p] = [page[p] EXCEPT
                 !.overtaken = page[p].overtaken \/ page[p].year = YearOf[pl]]]
  BY <1>1 DEF bust_pack_cache
<1>3. /\ page' \in [Procs -> Page] /\ page'[p].at = page[p].at
      /\ page'[p].year = page[p].year /\ \A q \in Procs \ {p} : page'[q] = page[q]
      /\ page'[p].overtaken <=> (page[p].overtaken \/ page[p].year = YearOf[pl])
  BY <1>1, <1>2 DEF Page
<1>4. CASE pl \in Federal
  BY <1>1, <1>3, <1>4 DEF bust_pack_cache
<1>5. CASE pl \notin Federal
  <2>1. /\ cached' = [cached EXCEPT ![p][YearOf[pl]] = "no"]
        /\ quiet' = [quiet EXCEPT ![p] = @ \ {YearOf[pl]}]
    BY <1>5 DEF bust_pack_cache
  <2> QED
    BY <1>1, <1>3, <2>1
<1> QED
  BY <1>4, <1>5

LEMMA PackForTypes ==
  ASSUME TypeOK, NEW f \in Choice
  PROVE  PackFor(f) \in Packs \cup {Standard, None}
<1>1. f.slot # Standard => f.slot \in Slots
  BY YearFacts DEF Choice, Slots
<1>2. ASSUME f.slot # Standard, Loads(dir[f.slot])
      PROVE  dir[f.slot].r.pack \in Packs
  BY <1>1, <1>2, Typed DEF Loads, Readable
<1> QED
  BY <1>2 DEF PackFor

-----------------------------------------------------------------------------
(* Types, and that a process that is down does nothing. *)
LEMMA PreservedServerTypes ==
  ASSUME WsInv, WsInv', ServerTypeOK, ServingInv, NEW p \in Procs, Moves(p)
  PROVE  ServerTypeOK'
<1> DEFINE Types == /\ server' \in [Procs -> {"down", "up", "failed"}]
                    /\ cached' \in [Procs -> [Years -> {"no", "fresh", "late"}]]
                    /\ page' \in [Procs -> Page] /\ quiet' \in [Procs -> SUBSET Years]
                    /\ form' \in Choice \cup {None} /\ outcome' \in Outcome \cup {None}
           Rest(q) == server'[q] # "up" => Idle(q)' /\ page'[q] = NoPage
<1>1. /\ server \in [Procs -> {"down", "up", "failed"}]
      /\ cached \in [Procs -> [Years -> {"no", "fresh", "late"}]]
      /\ page \in [Procs -> Page] /\ quiet \in [Procs -> SUBSET Years]
      /\ form \in Choice \cup {None} /\ outcome \in Outcome \cup {None}
      /\ \A q \in Procs : server[q] # "up" => Idle(q) /\ page[q] = NoPage
  BY DEF ServerTypeOK
<1>2. \A q \in Procs \ {p} : Idle(q) => Idle(q)'
  BY MovesOnWorkspace, IdleFrame
<1>3. NoPage \in Page /\ page[p] \in Page
  BY <1>1 DEF NoPage, Page
<1>4. ASSUME server' = server, UNCHANGED wsVars, Types,
             \A q \in Procs \ {p} : page'[q] = page[q], Up(p)
      PROVE  Types /\ \A q \in Procs : Rest(q)
  BY <1>1, <1>4 DEF wsVars, Idle, At, Up
<1>5. ASSUME server' = server, Types, page' = page, Up(p)
      PROVE  Types /\ \A q \in Procs : Rest(q)
  BY <1>1, <1>2, <1>5 DEF Up
<1> SUFFICES Types /\ \A q \in Procs : Rest(q)
  BY DEF ServerTypeOK, WsInv, Idle
<1>6. CASE warm_caches(p)
  <2>1. Types
    <3>1. UNCHANGED <<page, form, outcome>> /\ quiet' = [quiet EXCEPT ![p] = {}]
      BY <1>6 DEF warm_caches
    <3>2. /\ server' \in [Procs -> {"down", "up", "failed"}]
          /\ cached' \in [Procs -> [Years -> {"no", "fresh", "late"}]]
      <4>1. CASE server' = [server EXCEPT ![p] = "failed"] /\ cached' = cached
        BY <1>1, <4>1
      <4>2. CASE /\ server' = [server EXCEPT ![p] = "up"]
                 /\ cached' = [cached EXCEPT ![p] =
                          [y \in Years |-> IF y \in available_years THEN "fresh" ELSE "no"]]
        BY <1>1, <4>2
      <4> QED
        BY <1>6, <4>1, <4>2 DEF warm_caches
    <3> QED
      BY <1>1, <3>1, <3>2
  <2>2. /\ UNCHANGED <<wsVars, page>> /\ server[p] # "up"
        /\ \A q \in Procs \ {p} : server'[q] = server[q]
    BY <1>1, <1>6 DEF warm_caches
  <2> QED
    BY <1>1, <2>1, <2>2 DEF wsVars, Idle, At
<1>7. CASE Dies(p)
  <2>1. Types
    BY <1>1, <1>3, <1>7 DEF Dies
  <2>2. \A q \in Procs \ {p} : server'[q] = server[q] /\ page'[q] = page[q]
    BY <1>1, <1>7 DEF Dies
  <2>3. Idle(p)'
    BY <1>7, EndIsIdle DEF Dies, Stops, wsVars, Idle, At, WsInv
  <2>4. page'[p] = NoPage
    BY <1>1, <1>7 DEF Dies
  <2> QED
    BY <1>1, <1>2, <2>1, <2>2, <2>3, <2>4
<1>8. CASE Handle(p)
  <2>1. \A pl \in years' \ years : YearOf[pl] \in Years
    BY YearFacts DEF WsInv, TypeOK
  <2> QED
    BY <1>1, <1>5, <1>8, <2>1 DEF Handle
<1>9. CASE Work(p)
  <2>1. form # None => [form EXCEPT !.again = TRUE] \in Choice
    BY <1>1 DEF Choice
  <2> QED
    BY <1>1, <1>5, <1>9, <2>1 DEF Work, GivenOutAgain
<1>10. CASE Respond(p)
  <2>1. CASE At(p, "bust")
    <3>1. Slot(p) \in Slots
      BY <1>10, WriteFootprint DEF Respond, WsInv
    <3>2. bust_pack_cache(p, Slot(p)[1]) /\ Slot(p)[1] \in Places
      BY <1>10, <2>1, <3>1 DEF Respond, Slots
    <3>3. Types /\ \A q \in Procs \ {p} : page'[q] = page[q]
      BY <1>1, <1>10, <3>2, BustFacts DEF Respond
    <3> QED
      BY <1>1, <1>2, <1>10, <3>3 DEF Respond, Up
  <2>2. CASE ~At(p, "bust")
    BY <1>1, <1>5, <1>10, <2>2 DEF Respond
  <2> QED
    BY <2>1, <2>2
<1>11. CASE Raises(p)
  BY <1>1, <1>5, <1>11 DEF Raises, srvVars
<1>12. CASE LookUp(p)
  <2>1. PICK y \in available_years :
          page' = [page EXCEPT ![p] = [NoPage EXCEPT !.year = y,
                          !.at = IF cached[p][y] # "no" THEN "stored" ELSE "looked"]]
    BY <1>12 DEF LookUp
  <2>2. page' \in [Procs -> Page] /\ \A q \in Procs \ {p} : page'[q] = page[q]
    BY <1>1, <2>1, YearFacts DEF Page, NoPage
  <2> QED
    BY <1>1, <1>4, <1>12, <2>2 DEF LookUp
<1>13. ASSUME NEW at \in {"scanned", "stored", "unavailable", "lost"}, GoTo(p, at)
       PROVE  /\ page' \in [Procs -> Page]
              /\ \A q \in Procs \ {p} : page'[q] = page[q]
  BY <1>1, <1>3, <1>13 DEF GoTo, Page
<1>14. CASE Scan(p)
  <2>1. page' \in [Procs -> Page] /\ \A q \in Procs \ {p} : page'[q] = page[q] /\ Up(p)
    BY <1>13, <1>14, ServerTypes DEF Scan
  <2> QED
    BY <1>1, <1>4, <1>14, <2>1, ServerTypes DEF Scan
<1>15. CASE Store(p)
  <2>1. page[p].year \in Years /\ Up(p)
    BY <1>15, ServerTypes DEF Store, ServingInv, PageInv
  <2>2. page' \in [Procs -> Page] /\ \A q \in Procs \ {p} : page'[q] = page[q]
    BY <1>13, <1>15 DEF Store
  <2>3. cached' \in [Procs -> [Years -> {"no", "fresh", "late"}]]
    BY <1>1, <1>15, <2>1 DEF Store
  <2> QED
    BY <1>1, <1>4, <1>15, <2>1, <2>2, <2>3 DEF Store
<1>16. CASE calculate_form(p)
  <2>1. page' \in [Procs -> Page] /\ \A q \in Procs \ {p} : page'[q] = page[q]
    BY <1>1, <1>3, <1>13, <1>16 DEF calculate_form
  <2>2. form' \in Choice \cup {None} /\ outcome' \in Outcome \cup {None}
    BY <1>1, <1>16, OfferedForms DEF calculate_form, WsInv
  <2>3. Up(p)
    BY <1>16, ServerTypes DEF calculate_form
  <2> QED
    BY <1>1, <1>4, <1>16, <2>1, <2>2, <2>3 DEF calculate_form
<1>17. CASE ShowError(p)
  BY <1>1, <1>3, <1>4, <1>17, ServerTypes DEF ShowError
<1>18. CASE calculate_submit(p)
  <2>1. /\ form \in Choice /\ PackFor(form) \in Packs \cup {Standard} /\ FillCache(p, form.year)
        /\ form.year \in Years /\ form.pack \in Packs \cup {Standard} /\ form.again \in BOOLEAN
    BY <1>1, <1>18, PackForTypes DEF calculate_submit, Choice, WsInv
  <2>2. outcome' \in Outcome
    BY <1>18, <2>1 DEF calculate_submit, Outcome
  <2>3. cached' \in [Procs -> [Years -> {"no", "fresh", "late"}]]
    BY <2>1, FillTypes
  <2> QED
    BY <1>1, <1>4, <1>18, <2>2, <2>3 DEF calculate_submit
<1>19. CASE SubmitFails(p)
  <2>1. form.year \in Years
    BY <1>1, <1>19 DEF SubmitFails, Choice
  <2>2. cached' \in [Procs -> [Years -> {"no", "fresh", "late"}]]
    BY <1>1, <1>19, <2>1, FillTypes DEF SubmitFails
  <2>3. form' \in Choice \cup {None}
    BY <1>19, OfferedForms DEF SubmitFails, WsInv
  <2> QED
    BY <1>1, <1>4, <1>19, <2>2, <2>3 DEF SubmitFails
<1> QED
  BY <1>6, <1>7, <1>8, <1>9, <1>10, <1>11, <1>12, <1>14, <1>15, <1>16, <1>17, <1>18, <1>19
     DEF Moves, Edit, Serve

-----------------------------------------------------------------------------
(* What a process knows of a year stays true: a year that becomes stray is *)
(* quiet in every process until the bust, which overtakes the pages.       *)
LEMMA ServingUnmoved ==
  ASSUME ServingInv, ServerTypeOK, NEW q \in Procs, years' = years, server'[q] = server[q],
         page'[q] = page[q], cached'[q] = cached[q], quiet'[q] = quiet[q]
  PROVE  (PageInv(q) /\ CacheInv(q))'
<1>1. \A y : Stray(y)' <=> Stray(y)
  BY DEF Stray
<1> QED
  BY <1>1 DEF ServingInv, PageInv, CacheInv, Up

LEMMA GoToFields ==
  ASSUME ServerTypeOK, NEW p \in Procs, NEW at, GoTo(p, at)
  PROVE  /\ page'[p].at = at /\ page'[p].year = page[p].year
         /\ page'[p].overtaken = page[p].overtaken
         /\ \A q \in Procs \ {p} : page'[q] = page[q]
<1>1. page \in [Procs -> Page] /\ page[p] \in Page
  BY DEF ServerTypeOK
<1> QED
  BY <1>1 DEF GoTo, Page

LEMMA PreservedServing ==
  ASSUME WsInv, WsInv', ServerTypeOK, ServerTypeOK', ServingInv, NEW p \in Procs, Moves(p)
  PROVE  ServingInv'
<1> SUFFICES ASSUME NEW q \in Procs PROVE (PageInv(q) /\ CacheInv(q))'
  BY DEF ServingInv
<1>1. /\ server \in [Procs -> {"down", "up", "failed"}]
      /\ cached \in [Procs -> [Years -> {"no", "fresh", "late"}]]
      /\ page \in [Procs -> Page] /\ quiet \in [Procs -> SUBSET Years]
      /\ \A w \in Procs : server[w] # "up" => page[w] = NoPage
  BY DEF ServerTypeOK
<1>2. PageInv(q) /\ CacheInv(q)
  BY DEF ServingInv
<1>3. years \subseteq years' /\ (years' = years \/ Receive(p))
  BY MovesOnWorkspace, IdleFrame
<1>4. \A y : /\ Stray(y) => Stray(y)'
             /\ Stray(y)' /\ ~Stray(y) => y \in {YearOf[pl] : pl \in years' \ years}
             /\ years' = years => (Stray(y)' <=> Stray(y))
  BY <1>3, StrayFrame
<1>5. NoPage.at = "idle"
  BY DEF NoPage
<1>6. CASE warm_caches(p)
  <2>1. /\ years' = years /\ page' = page /\ server[p] # "up"
        /\ quiet' = [quiet EXCEPT ![p] = {}]
    BY <1>6 DEF warm_caches, wsVars
  <2>2. CASE q # p
    BY <1>1, <1>6, <2>1, <2>2, ServingUnmoved DEF warm_caches
  <2>3. CASE q = p
    <3>1. page[q].at = "idle" /\ \A y \in Years : cached[q][y] = "no"
      BY <1>1, <1>2, <1>5, <2>1, <2>3 DEF CacheInv, Up
    <3>2. PageInv(q)'
      BY <2>1, <3>1 DEF PageInv
    <3>3. CASE \E y \in available_years : Stray(y)
      BY <1>1, <1>6, <2>3, <3>1, <3>2, <3>3 DEF warm_caches, CacheInv
    <3>4. CASE ~\E y \in available_years : Stray(y)
      <4>1. /\ server'[p] = "up"
            /\ \A y \in Years : cached'[p][y] = IF y \in available_years THEN "fresh" ELSE "no"
        BY <1>1, <1>6, <3>4 DEF warm_caches
      <4> QED
        BY <1>4, <2>1, <2>3, <3>2, <3>4, <4>1 DEF CacheInv, Up
    <3> QED
      BY <3>3, <3>4
  <2> QED
    BY <2>2, <2>3
<1>7. CASE Dies(p)
  <2>1. years' = years /\ quiet' = quiet
    BY <1>7 DEF Dies, Stops, wsVars
  <2>2. CASE q # p
    BY <1>1, <1>7, <2>1, <2>2, ServingUnmoved DEF Dies
  <2>3. CASE q = p
    <3>1. page'[q] = NoPage /\ \A y \in Years : cached'[q][y] = "no"
      BY <1>1, <1>7, <2>3 DEF Dies
    <3> QED
      BY <1>5, <3>1 DEF PageInv, CacheInv
  <2> QED
    BY <2>2, <2>3
<1>8. CASE Handle(p)
  <2>1. /\ UNCHANGED <<server, cached, page>>
        /\ quiet'[q] = quiet[q] \cup {YearOf[pl] : pl \in years' \ years}
    BY <1>8 DEF Handle
  <2>2. \A y : Stray(y)' => Stray(y) \/ y \in quiet'[q]
    BY <1>4, <2>1
  <2> QED
    BY <1>2, <1>4, <2>1, <2>2 DEF PageInv, CacheInv, Up
<1>9. CASE Work(p) \/ Raises(p)
  <2>1. years' = years
    BY <1>9, WriteFootprint DEF Work, Raises, WsInv
  <2> QED
    BY <1>9, <2>1, ServingUnmoved DEF Work, Raises, srvVars
<1>10. CASE Respond(p)
  <2>1. years' = years /\ Slot(p) \in Slots /\ server' = server
    BY <1>10, WriteFootprint DEF Respond, WsInv
  <2>2. CASE ~At(p, "bust") \/ q # p
    <3>1. CASE ~At(p, "bust")
      BY <1>10, <2>1, <3>1, ServingUnmoved DEF Respond
    <3>2. CASE At(p, "bust") /\ q # p
      <4>1. bust_pack_cache(p, Slot(p)[1]) /\ Slot(p)[1] \in Places
        BY <1>10, <2>1, <3>2 DEF Respond, Slots
      <4> QED
        BY <2>1, <3>2, <4>1, BustFacts, ServingUnmoved
    <3> QED
      BY <2>2, <3>1, <3>2
  <2>3. CASE At(p, "bust") /\ q = p
    <3>1. bust_pack_cache(p, Slot(p)[1]) /\ Slot(p)[1] \in Places
      BY <1>10, <2>1, <2>3 DEF Respond, Slots
    <3>2. /\ page'[q].at = page[q].at /\ page'[q].year = page[q].year
          /\ page[q].overtaken => page'[q].overtaken
          /\ \A y \in Years :
               \/ cached'[q][y] = cached[q][y] /\ (y \in quiet'[q] <=> y \in quiet[q])
               \/ cached'[q][y] = "no" /\ (page[q].year = y => page'[q].overtaken)
      BY <2>3, <3>1, BustFacts
    <3>3. \A y : Stray(y)' <=> Stray(y)
      BY <1>4, <2>1
    <3>4. PageInv(q)'
      BY <1>2, <3>2, <3>3 DEF PageInv
    <3>5. CacheInv(q)'
      BY <1>2, <2>1, <3>2, <3>3 DEF CacheInv, Up
    <3> QED
      BY <3>4, <3>5
  <2> QED
    BY <2>2, <2>3
<1>11. CASE Serve(p) /\ q # p
  <2>1. years' = years /\ server' = server /\ quiet' = quiet /\ page'[q] = page[q]
    BY <1>1, <1>11 DEF Serve, LookUp, Scan, Store, calculate_form, ShowError, calculate_submit,
       SubmitFails, GoTo, wsVars
  <2>2. cached'[q] = cached[q]
    BY <1>1, <1>11 DEF Serve, LookUp, Scan, Store, calculate_form, ShowError, calculate_submit,
       SubmitFails, FillCache
  <2> QED
    BY <2>1, <2>2, ServingUnmoved
<1>12. CASE Serve(p) /\ q = p
  <2>1. years' = years /\ server' = server /\ quiet' = quiet
    BY <1>12 DEF Serve, LookUp, Scan, Store, calculate_form, ShowError, calculate_submit,
       SubmitFails, wsVars
  <2>2. \A y : Stray(y)' <=> Stray(y)
    BY <1>4, <2>1
  <2>3. cached' = cached => CacheInv(q)'
    BY <1>2, <2>1, <2>2 DEF CacheInv, Up
  <2>4. CASE LookUp(p)
    <3>1. PICK y \in available_years :
            page' = [page EXCEPT ![p] = [NoPage EXCEPT !.year = y,
                          !.at = IF cached[p][y] # "no" THEN "stored" ELSE "looked"]]
      BY <2>4 DEF LookUp
    <3>2. /\ page'[p].year = y /\ y \in Years
          /\ page'[p].at = IF cached[p][y] # "no" THEN "stored" ELSE "looked"
      BY <1>1, <3>1, YearFacts DEF NoPage
    <3>3. cached' = cached
      BY <2>4 DEF LookUp
    <3> QED
      BY <1>12, <2>3, <3>2, <3>3 DEF PageInv
  <2>5. CASE Scan(p)
    <3>1. GoTo(p, IF Stray(page[p].year) THEN "unavailable" ELSE "scanned") /\ cached' = cached
          /\ page[p].at = "looked"
      BY <2>5 DEF Scan
    <3>2. /\ page'[p].at = IF Stray(page[p].year) THEN "unavailable" ELSE "scanned"
          /\ page'[p].year = page[p].year
      BY <3>1, GoToFields
    <3> QED
      BY <1>2, <1>12, <2>2, <2>3, <3>1, <3>2 DEF PageInv
  <2>6. CASE Store(p)
    <3>1. /\ page'[p].at = "stored" /\ page'[p].year = page[p].year
          /\ page[p].at = "scanned" /\ page[p].year \in Years /\ Up(p)
      BY <1>2, <1>12, <2>6, GoToFields, ServerTypes DEF Store, PageInv
    <3>2. \A y \in Years : cached'[p][y] =
            IF y = page[p].year THEN IF page[p].overtaken THEN "late" ELSE "fresh"
            ELSE cached[p][y]
      BY <1>1, <2>6, <3>1 DEF Store
    <3>3. PageInv(q)'
      BY <1>12, <3>1, <3>2 DEF PageInv
    <3>4. CacheInv(q)'
      BY <1>2, <1>12, <2>1, <2>2, <3>1, <3>2 DEF PageInv, CacheInv, Up
    <3> QED
      BY <3>3, <3>4
  <2>7. CASE calculate_form(p)
    <3>1. CASE cached[p][page[p].year] = "no"
      <4>1. GoTo(p, "lost") /\ cached' = cached /\ page[p].at = "stored"
        BY <2>7, <3>1 DEF calculate_form
      <4>2. /\ page'[p].at = "lost" /\ page'[p].year = page[p].year
            /\ page'[p].overtaken = page[p].overtaken
        BY <4>1, GoToFields
      <4> QED
        BY <1>2, <1>12, <2>3, <3>1, <4>1, <4>2 DEF PageInv
    <3>2. CASE cached[p][page[p].year] # "no"
      <4>1. page'[p] = NoPage /\ cached' = cached
        BY <1>1, <2>7, <3>2 DEF calculate_form
      <4> QED
        BY <1>5, <1>12, <2>3, <4>1 DEF PageInv
    <3> QED
      BY <3>1, <3>2
  <2>8. CASE ShowError(p)
    <3>1. page'[p] = NoPage /\ cached' = cached
      BY <1>1, <2>8 DEF ShowError
    <3> QED
      BY <1>5, <1>12, <2>3, <3>1 DEF PageInv
  <2>9. CASE calculate_submit(p) \/ SubmitFails(p)
    <3>1. form.year \in Years /\ page' = page /\ Up(p)
      BY <2>9 DEF calculate_submit, SubmitFails, ServerTypeOK, Choice
    <3>2. cached' = cached \/ FillCache(p, form.year)
      BY <2>9 DEF calculate_submit, SubmitFails
    <3>3. \A y \in Years : cached'[p][y] # cached[p][y] => ~Stray(y) /\ cached'[p][y] = "fresh"
      BY <3>1, <3>2, FillTypes
    <3>4. PageInv(q)'
      BY <1>2, <1>12, <2>1, <2>2, <3>1, <3>3 DEF PageInv
    <3>5. CacheInv(q)'
      BY <1>2, <1>12, <2>1, <2>2, <3>1, <3>3 DEF CacheInv, Up
    <3> QED
      BY <3>4, <3>5
  <2> QED
    BY <1>12, <2>4, <2>5, <2>6, <2>7, <2>8, <2>9 DEF Serve
<1> QED
  BY <1>6, <1>7, <1>8, <1>9, <1>10, <1>11, <1>12 DEF Moves, Edit

-----------------------------------------------------------------------------
(* The open form, and the run it leads to. *)
LEMMA OfferedOnePack ==
  ASSUME WsInv, NEW f \in Offered, f.slot # Standard, f.slot \notin overtaken
  PROVE  OfPack(f.slot, f.pack)
<1>1. /\ f.slot \in Slots /\ dir[f.slot] # Absent
      /\ f.pack = dir[f.slot].m /\ f.pack \in Packs
  BY OfferedForms DEF WsInv
<1>2. PICK k \in Packs \cup {None} : OfPack(f.slot, k)
  BY <1>1 DEF WsInv, OnePack
<1>3. k = f.pack
  BY <1>1, <1>2, Sentinels DEF OfPack
<1> QED
  BY <1>2, <1>3

LEMMA FormFacts ==
  ASSUME ServerTypeOK, form # None
  PROVE  /\ form \in Choice /\ form.again \in BOOLEAN
         /\ form.slot # Standard => form.slot \in Slots
BY YearFacts DEF ServerTypeOK, Choice, Slots

(* Whatever the requests do, but for making its directory anew, the slot   *)
(* of the form stays with its pack.                                        *)
LEMMA FormKept ==
  ASSUME WsInv, WsInv', ServerTypeOK, FormInv, NEW p \in Procs, WsStep(p),
         form' = form, form # None => ~(Makes(p) /\ Slot(p) = form.slot)
  PROVE  FormInv'
<1>1. SUFFICES ASSUME form # None, form.slot # Standard, ~form.again,
                      form.slot \notin overtaken'
               PROVE  OfPack(form.slot, form.pack)'
  BY DEF FormInv
<1>2. form.slot \in Slots /\ form.pack \in Packs
  BY <1>1, FormFacts DEF FormInv
<1>3. overtaken \subseteq overtaken'
  BY ReceiveFootprint, KindFacts DEF WsStep, WsInv
<1>4. OfPack(form.slot, form.pack)
  BY <1>1, <1>3 DEF FormInv
<1>5. /\ TypeOK /\ Requests /\ TypeOK' /\ Requests'
      /\ ~(Makes(p) /\ Slot(p) = form.slot)
  BY <1>1 DEF WsInv
<1>6. \A t \in Slots, j \in Packs \cup {None} :
        t \notin overtaken' /\ OfPack(t, j) /\ ~(Makes(p) /\ Slot(p) = t) => OfPack(t, j)'
  BY <1>5, OfPackKept
<1> QED
  BY <1>1, <1>2, <1>4, <1>5, <1>6 DEF OfPack

LEMMA PreservedForm ==
  ASSUME WsInv, WsInv', ServerTypeOK, FormInv, NEW p \in Procs, Moves(p)
  PROVE  FormInv'
<1>1. ASSUME UNCHANGED wsVars, form' \in Offered PROVE FormInv'
  <2>1. /\ form'.slot = Standard => form'.pack = Standard
        /\ form'.slot # Standard => form'.pack \in Packs
    BY <1>1, OfferedForms DEF WsInv
  <2>2. form'.slot # Standard /\ form'.slot \notin overtaken => OfPack(form'.slot, form'.pack)
    BY <1>1, OfferedOnePack
  <2> QED
    BY <1>1, <2>1, <2>2 DEF FormInv, OfPack, wsVars, On, Op, Step, Slot
<1>2. ASSUME UNCHANGED wsVars, form' = form PROVE FormInv'
  BY <1>2 DEF FormInv, OfPack, wsVars, On, Op, Step, Slot
<1>3. ASSUME form' = None PROVE FormInv'
  BY <1>3 DEF FormInv
<1>4. ASSUME WsStep(p), form' = form, ~Makes(p) PROVE FormInv'
  BY <1>4, FormKept
<1>5. CASE Work(p)
  <2>1. WsStep(p) /\ form' = IF GivenOutAgain THEN [form EXCEPT !.again = TRUE] ELSE form
    BY <1>5 DEF Work, WsStep
  <2>2. CASE GivenOutAgain
    <3>1. form \in Choice /\ form' = [form EXCEPT !.again = TRUE] /\ form.slot # Standard
      BY <2>1, <2>2, FormFacts DEF GivenOutAgain
    <3>2. form'.again = TRUE /\ form'.slot = form.slot /\ form'.pack = form.pack
      BY <3>1 DEF Choice
    <3> QED
      BY <2>2, <3>1, <3>2 DEF FormInv, GivenOutAgain
  <2>3. CASE ~GivenOutAgain
    <3>1. form # None => ~(Makes(p) /\ Slot(p) = form.slot)
      <4> SUFFICES ASSUME form # None, Makes(p), Slot(p) = form.slot PROVE FALSE
        OBVIOUS
      <4>1. Slot(p) \in Slots /\ Slot(p) # Standard
        BY WorkspaceAssumption DEF Makes, WsInv, Requests, Carries, Creations
      <4>2. dir[form.slot] = Absent /\ dir'[form.slot] = [m |-> None, r |-> None]
        BY DEF Makes
      <4>3. [m |-> None, r |-> None] # Absent
        BY Sentinels DEF Directory
      <4> QED
        BY <2>3, <4>1, <4>2, <4>3 DEF GivenOutAgain
    <3> QED
      BY <2>1, <2>3, <3>1, FormKept
  <2> QED
    BY <2>2, <2>3
<1>6. CASE Handle(p) \/ Respond(p) \/ Raises(p)
  <2>1. WsStep(p) /\ form' = form
    BY <1>6 DEF Handle, Respond, Raises, srvVars, WsStep
  <2>2. CASE Handle(p)
    <3>1. dir' = dir /\ Op(p) = "none"
      BY <2>2, ReceiveFootprint, PlanFacts DEF Handle, Receive, Idle, WsInv
    <3> QED
      BY <2>1, <3>1, <1>4 DEF Makes, Creations
  <2>3. CASE Respond(p) \/ Raises(p)
    <3>1. Leaves(p)
      BY <2>3, EndKind DEF Respond, Raises, WsInv
    <3>2. ~Makes(p)
      BY <3>1, Sentinels DEF Leaves, Makes, Directory
    <3> QED
      BY <1>4, <2>1, <3>2
  <2> QED
    BY <1>6, <2>2, <2>3
<1>7. CASE Dies(p)
  <2>1. CASE Idle(p)
    BY <1>2, <1>7, <2>1 DEF Dies
  <2>2. CASE ~Idle(p)
    <3>1. Stops(p) /\ form' = form
      BY <1>7, <2>2 DEF Dies
    <3>2. Leaves(p) /\ WsStep(p)
      BY <3>1, EndKind DEF WsInv, WsStep
    <3>3. ~Makes(p)
      BY <3>2, Sentinels DEF Leaves, Makes, Directory
    <3> QED
      BY <1>4, <3>1, <3>2, <3>3
  <2> QED
    BY <2>1, <2>2
<1>8. CASE warm_caches(p)
  BY <1>2, <1>8 DEF warm_caches
<1>9. CASE Serve(p)
  <2>1. UNCHANGED wsVars
    BY <1>9 DEF Serve, LookUp, Scan, Store, calculate_form, ShowError, calculate_submit,
       SubmitFails
  <2>2. form' = form \/ form' = None \/ form' \in Offered
    BY <1>9 DEF Serve, LookUp, Scan, Store, calculate_form, ShowError, calculate_submit,
       SubmitFails
  <2> QED
    BY <1>1, <1>2, <1>3, <2>1, <2>2
<1> QED
  BY <1>5, <1>6, <1>7, <1>8, <1>9 DEF Moves, Edit

(* The pack a calculation loads from the slot of the form is the form's. *)
LEMMA PreservedRun ==
  ASSUME ServerTypeOK, FormInv, RunUsesChosenPack, NEW p \in Procs, Moves(p)
  PROVE  RunUsesChosenPack'
<1>1. CASE outcome' = outcome \/ outcome' = None
  BY <1>1 DEF RunUsesChosenPack
<1>2. CASE calculate_submit(p)
  <2>1. /\ form \in Choice /\ PackFor(form) # None
        /\ outcome' = [chosen |-> form.pack, used |-> PackFor(form),
                       again |-> form.again \/ form.slot \in overtaken]
    BY <1>2, FormFacts DEF calculate_submit
  <2>2. PackFor(form) = form.pack \/ form.again \/ form.slot \in overtaken
    <3>1. CASE form.slot = Standard
      BY <1>2, <3>1 DEF PackFor, FormInv, calculate_submit
    <3>2. CASE form.slot # Standard /\ ~form.again /\ form.slot \notin overtaken
      <4>1. OfPack(form.slot, form.pack)
        BY <1>2, <3>2 DEF FormInv, calculate_submit
      <4>2. Loads(dir[form.slot]) /\ PackFor(form) = dir[form.slot].r.pack
        BY <2>1, <3>2 DEF PackFor
      <4> QED
        BY <4>1, <4>2 DEF OfPack, Loads, Readable
    <3> QED
      BY <3>1, <3>2
  <2> QED
    BY <2>1, <2>2 DEF RunUsesChosenPack
<1> QED
  BY <1>1, <1>2 DEF Moves, Edit, Serve, warm_caches, Dies, Handle, Work, Respond, Raises, srvVars,
     LookUp, Scan, Store, calculate_form, ShowError, SubmitFails

-----------------------------------------------------------------------------
LEMMA InitHolds == Init => ServerInv
<1> SUFFICES ASSUME Init PROVE ServerInv
  OBVIOUS
<1>1. WsInv
  BY WsInitHolds DEF Init
<1>2. /\ server = [p \in Procs |-> "down"]
      /\ cached = [p \in Procs |-> [y \in Years |-> "no"]]
      /\ page = [p \in Procs |-> NoPage] /\ quiet = [p \in Procs |-> {}]
      /\ form = None /\ outcome = None
      /\ \A p \in Procs : req[p] = NoRequest
  BY DEF Init, WorkspaceInit
<1>3. NoPage \in Page /\ NoPage.at = "idle"
  BY DEF NoPage, Page
<1>4. \A p \in Procs : Idle(p)
  BY <1>2, PlanEnds DEF Idle, At, NoRequest
<1>5. ServerTypeOK
  BY <1>1, <1>2, <1>3, <1>4 DEF ServerTypeOK, WsInv
<1>6. ServingInv
  BY <1>2, <1>3 DEF ServingInv, PageInv, CacheInv
<1>7. FormInv /\ RunUsesChosenPack
  BY <1>2 DEF FormInv, RunUsesChosenPack
<1> QED
  BY <1>1, <1>5, <1>6, <1>7 DEF ServerInv

LEMMA NextKeeps == ServerInv /\ [Next]_vars => ServerInv'
<1> SUFFICES ASSUME ServerInv, [Next]_vars PROVE ServerInv'
  OBVIOUS
<1>1. ASSUME NEW p \in Procs, Moves(p) PROVE ServerInv'
  <2>1. WsInv'
    BY <1>1, WorkspaceKept DEF ServerInv
  <2>2. ServerTypeOK'
    BY <1>1, <2>1, PreservedServerTypes DEF ServerInv
  <2>3. ServingInv'
    BY <1>1, <2>1, <2>2, PreservedServing DEF ServerInv
  <2>4. FormInv'
    BY <1>1, <2>1, PreservedForm DEF ServerInv
  <2>5. RunUsesChosenPack'
    BY <1>1, PreservedRun DEF ServerInv
  <2> QED
    BY <2>1, <2>2, <2>3, <2>4, <2>5 DEF ServerInv
<1>2. CASE UNCHANGED vars
  <2>1. WsInv' /\ UNCHANGED wsVars /\ UNCHANGED srvVars
    BY <1>2, WsInvSame DEF ServerInv, vars
  <2>2. ServerTypeOK'
    BY <2>1 DEF ServerInv, ServerTypeOK, WsInv, wsVars, srvVars, Idle, At
  <2>3. ServingInv'
    BY <2>1 DEF ServerInv, ServingInv, PageInv, CacheInv, Up, Stray, wsVars, srvVars
  <2>4. FormInv' /\ RunUsesChosenPack'
    BY <2>1 DEF ServerInv, FormInv, RunUsesChosenPack, OfPack, On, Op, Step, Slot, wsVars, srvVars
  <2> QED
    BY <2>1, <2>2, <2>3, <2>4 DEF ServerInv
<1> QED
  BY <1>1, <1>2 DEF Next, Moves

(* In every behaviour of the workspace and the servers over it the         *)
(* inductive invariant holds.                                              *)
THEOREM Invariant == Spec => []ServerInv
BY InitHolds, NextKeeps, PTL DEF Spec

(* The directories, requests, caches, pages and forms are what they should *)
(* be, and a process that is down holds no request and no page.            *)
THEOREM TypeCorrect == Spec => []ServerTypeOK
<1>1. ServerInv => ServerTypeOK
  BY DEF ServerInv
<1> QED
  BY <1>1, Invariant, PTL

(* Whatever is written, cut short or raised in between, a pack the list    *)
(* shows can be opened and calculated with, unless its creation or its     *)
(* deletion is under way or was cut.                                       *)
THEOREM ListedPacksLoad == Spec => []ListedLoads
<1>1. ServerInv => ListedLoads
  BY WsInvIsSafe DEF ServerInv
<1> QED
  BY <1>1, Invariant, PTL

(* The manifest and the rules of a directory are of the same pack, unless  *)
(* its number was given out again under a running request.                 *)
THEOREM PacksStayTogether == Spec => []FilesBelongTogether
<1>1. ServerInv => FilesBelongTogether
  BY WsInvIsSafe DEF ServerInv
<1> QED
  BY <1>1, Invariant, PTL

(* A calculation uses the federal pack the user picked in the form, unless *)
(* its number was given out again.                                         *)
THEOREM ChosenPackIsUsed == Spec => []RunUsesChosenPack
<1>1. ServerInv => RunUsesChosenPack
  BY DEF ServerInv
<1> QED
  BY <1>1, Invariant, PTL

(* After a bust, no page builds on state packs that were read before it,   *)
(* but for a year a thread had scanned and stores late.                    *)
THEOREM CacheStaysFresh == Spec => []CacheIsFresh
<1>1. ServerInv => CacheIsFresh
  BY DEF ServerInv, ServingInv, CacheInv, CacheIsFresh
<1> QED
  BY <1>1, Invariant, PTL

(* A page is refused only over a stray directory, and loses what it looked *)
(* up only to a bust that overtook it.                                     *)
THEOREM PagesGetAnswers == Spec => []PagesAnswered
<1>1. ServerInv => PagesAnswered
  BY DEF ServerInv, ServingInv, PageInv, PagesAnswered
<1> QED
  BY <1>1, Invariant, PTL

=============================================================================
