----------------------------- MODULE RuleLoader -----------------------------
(***************************************************************************)
(* The end of RulePack.load in app/engine/rule_loader.py: the references   *)
(* a pack's rules make to each other as {ref: ...} are checked for unknown *)
(* ids and, by a depth-first search, for cycles (_validate_deps); then the *)
(* rules are put in order by Kahn's algorithm over a list kept sorted by   *)
(* binary insertion (_toposort_rules).                                     *)
(*                                                                         *)
(* Ids are numbers, in the order of the strings they stand for.            *)
(***************************************************************************)
EXTENDS Integers, Sequences, FiniteSets, Functions

CONSTANTS Rules,    \* the ids the pack defines
          Unknown,  \* an id with the pack's prefix that it does not define
          MayRef    \* MayRef[r]: what r can refer to

ASSUME RulesAssumption ==
  /\ Rules \subseteq Nat /\ IsFiniteSet(Rules)
  /\ Unknown \in Nat \ Rules
  /\ MayRef \in [Rules -> SUBSET (Rules \cup {Unknown})]

VARIABLES
  refs,      \* deps of _build_rule_deps
  phase,     \* where load is, or how it ended
  visits,    \* the calls of dfs under way: a rule, and the references to go
  visited,   \* the rules dfs is done with
  indeg,     \* references of a rule not yet placed
  ready,     \* the rules all of whose references are placed
  order,     \* the rules placed
  released   \* the rules that refer to the last one placed, to be counted down

graph == <<visits, visited>>
sort == <<indeg, ready, order, released>>
vars == <<refs, phase, graph, sort>>

Least(S) == CHOOSE r \in S : \A s \in S : r <= s
Sorted(s) == \A k, l \in 1..Len(s) : k < l => s[k] < s[l]

\* visiting
Visiting == {visits[k].rule : k \in 1..Len(visits)}

Init ==
  /\ \E E \in SUBSET {e \in Rules \X (Rules \cup {Unknown}) : e[2] \in MayRef[e[1]]} :
       refs = [r \in Rules |-> {e[2] : e \in {d \in E : d[1] = r}}]
  /\ phase = "refs"
  /\ visits = <<>>
  /\ visited = {}
  /\ indeg = [r \in Rules |-> 0]
  /\ ready = <<>>
  /\ order = <<>>
  /\ released = {}

-----------------------------------------------------------------------------
(* _validate_deps *)

CheckRefs ==
  /\ phase = "refs"
  /\ phase' = IF \E r \in Rules : ~ refs[r] \subseteq Rules THEN "unknown" ELSE "dfs"
  /\ UNCHANGED <<refs, graph, sort>>

Visit(r) == visits' = Append(visits, [rule |-> r, todo |-> refs[r]])

(* for rid in rules: dfs(rid, []).  The order of the file is any order. *)
VisitRoot(r) ==
  /\ phase = "dfs"
  /\ visits = <<>>
  /\ r \notin visited
  /\ Visit(r)
  /\ UNCHANGED <<refs, phase, visited, sort>>

Top == visits[Len(visits)]
Inner == phase = "dfs" /\ visits # <<>>
StrikeOff(o) ==
  visits' = [visits EXCEPT ![Len(visits)] = [rule |-> Top.rule, todo |-> Top.todo \ {o}]]

(* The references of a rule, in sorted order.  The one followed is struck
   off when its dfs returns: by then it is visited. *)
RefVisited ==
  /\ Inner /\ Top.todo # {}
  /\ Least(Top.todo) \in visited
  /\ StrikeOff(Least(Top.todo))
  /\ UNCHANGED <<refs, phase, visited, sort>>

\* bug: a rule dfs is in is taken for one it is done with
RefSkipped ==
  /\ Inner /\ Top.todo # {}
  /\ Least(Top.todo) \in Visiting
  /\ StrikeOff(Least(Top.todo))
  /\ UNCHANGED <<refs, phase, visited, sort>>

\* bug: only a rule that refers to itself is noticed, and a longer ring is
\* followed round and round
RefIsSelf ==
  /\ Inner /\ Top.todo # {}
  /\ Least(Top.todo) = Top.rule
  /\ phase' = "cycle"
  /\ UNCHANGED <<refs, graph, sort>>

RefVisiting ==
  /\ Inner /\ Top.todo # {}
  /\ Least(Top.todo) \in Visiting
  /\ phase' = "cycle"
  /\ UNCHANGED <<refs, graph, sort>>

RefNew ==
  /\ Inner /\ Top.todo # {}
  /\ Least(Top.todo) \notin visited \cup Visiting
  /\ Visit(Least(Top.todo))
  /\ UNCHANGED <<refs, phase, visited, sort>>

Leave ==
  /\ Inner /\ Top.todo = {}
  /\ visited' = visited \cup {Top.rule}
  /\ visits' = SubSeq(visits, 1, Len(visits) - 1)
  /\ UNCHANGED <<refs, phase, sort>>

-----------------------------------------------------------------------------
(* _toposort_rules *)

IsSortedListOf(s, S) == Len(s) = Cardinality(S) /\ Range(s) = S /\ Sorted(s)

\* bug: indeg[rid] += 1 is missing
StartUncounted ==
  /\ phase = "dfs"
  /\ visits = <<>>
  /\ Rules \subseteq visited
  /\ phase' = "sort"
  /\ \E s \in [1..Cardinality({r \in Rules : refs[r] = {}}) -> Rules] :
       IsSortedListOf(s, {r \in Rules : refs[r] = {}}) /\ ready' = s
  /\ UNCHANGED <<refs, graph, indeg, order, released>>

StartSort ==
  /\ phase = "dfs"
  /\ visits = <<>>
  /\ Rules \subseteq visited
  /\ phase' = "sort"
  /\ indeg' = [r \in Rules |-> Cardinality(refs[r])]
  /\ \E s \in [1..Cardinality({r \in Rules : refs[r] = {}}) -> Rules] :
       IsSortedListOf(s, {r \in Rules : refs[r] = {}}) /\ ready' = s
  /\ UNCHANGED <<refs, graph, order, released>>

\* bug: the last of the ready list is placed
PlaceLast ==
  /\ phase = "sort" /\ released = {} /\ ready # <<>>
  /\ order' = Append(order, ready[Len(ready)])
  /\ ready' = SubSeq(ready, 1, Len(ready) - 1)
  /\ released' = {r \in Rules : ready[Len(ready)] \in refs[r]}
  /\ UNCHANGED <<refs, phase, graph, indeg>>

(* n = ready.pop(0); order.append(n) *)
Place ==
  /\ phase = "sort" /\ released = {} /\ ready # <<>>
  /\ order' = Append(order, Head(ready))
  /\ ready' = Tail(ready)
  /\ released' = {r \in Rules : Head(ready) \in refs[r]}
  /\ UNCHANGED <<refs, phase, graph, indeg>>

\* the number of elements that stay before m
Bisect(s, m) ==
  LET b[w \in (0..Len(s)) \X (0..Len(s))] ==  \* <<lo, hi>>
        LET mid == (w[1] + w[2]) \div 2
        IN IF w[1] < w[2]
           THEN IF s[mid + 1] < m THEN b[<<mid + 1, w[2]>>] ELSE b[<<w[1], mid>>]
           ELSE w[1]
  IN b[<<0, Len(s)>>]

\* bug: ready.append(m)
AppendInstead(s, lo, m) == Append(s, m)

\* ready.insert(lo, m)
Insert(s, lo, m) == SubSeq(s, 1, lo) \o <<m>> \o SubSeq(s, lo + 1, Len(s))

(* for m in sorted(out_edges[n]): *)
Release ==
  /\ phase = "sort" /\ released # {}
  /\ LET m == Least(released)
     IN /\ indeg' = [indeg EXCEPT ![m] = @ - 1]
        /\ ready' = IF indeg[m] = 1 THEN Insert(ready, Bisect(ready, m), m) ELSE ready
        /\ released' = released \ {m}
  /\ UNCHANGED <<refs, phase, graph, order>>

EndSort ==
  /\ phase = "sort" /\ released = {} /\ ready = <<>>
  /\ phase' = IF Len(order) = Cardinality(Rules) THEN "loaded" ELSE "sort_failed"
  /\ UNCHANGED <<refs, graph, sort>>

Next ==
  \/ CheckRefs
  \/ \E r \in Rules : VisitRoot(r)
  \/ RefVisited \/ RefVisiting \/ RefNew \/ Leave
  \/ StartSort \/ Place \/ Release \/ EndSort

Spec == Init /\ [][Next]_vars

(* load is a plain function call. *)
FairSpec == Spec /\ WF_vars(Next)

-----------------------------------------------------------------------------
TypeOK ==
  /\ refs \in [Rules -> SUBSET (Rules \cup {Unknown})]
  /\ phase \in {"refs", "dfs", "sort", "loaded", "unknown", "cycle", "sort_failed"}
  /\ visits \in Seq([rule : Rules, todo : SUBSET (Rules \cup {Unknown})])
  /\ visited \subseteq Rules
  /\ indeg \in [Rules -> 0..Cardinality(Rules)]
  /\ ready \in Seq(Rules)
  /\ order \in Seq(Rules)
  /\ released \subseteq Rules

(* The list that binary insertion relies on to be sorted is sorted, has no
   duplicates, and holds exactly the rules that could come next
   (rule_loader.py:275-292). *)
ReadyIsRight ==
  phase = "sort" =>
    /\ Sorted(ready)
    /\ Range(ready) =
         {r \in Rules \ Range(order) : \A s \in refs[r] :
            s \in Range(order) /\ (r \in released => s # order[Len(order)])}

Acyclic(g) == \A S \in (SUBSET Rules) \ {{}} : \E r \in S : g[r] \cap S = {}

(* A pack is refused for a cycle only if it has one and put in order only if
   it has none: the search and the sort agree, and the error after the sort
   is never raised (rule_loader.py:294). *)
LoadVerdict ==
  /\ phase = "unknown" <=> (phase # "refs" /\ \E r \in Rules : Unknown \in refs[r])
  /\ phase = "cycle" => ~ Acyclic(refs)
  /\ phase \in {"sort", "loaded"} => Acyclic(refs)
  /\ phase # "sort_failed"
  /\ phase = "loaded" => Range(order) = Rules

(* The order is the one that RuleOrder describes: a function of the ids and
   their references alone. *)
Abstract == INSTANCE RuleOrder
OrderIsLeast == Abstract!Spec

(* Loading a pack ends. *)
LoadEnds == <>(phase \in {"loaded", "unknown", "cycle", "sort_failed"})
=============================================================================
