----------------------------- MODULE RuleEngine -----------------------------
(***************************************************************************)
(* CalculationEngine of app/engine/calculator.py: the federal pack's rules *)
(* are evaluated in the order the loader gave them, then those of the      *)
(* packs of the states, the state of residence last.  A rule asks for its  *)
(* operands as it goes.  The loader's order accounts only for the operands *)
(* written {ref: ...} that lie in the same pack; an operand written as a   *)
(* bare string is found at run time, which may evaluate a rule on demand,  *)
(* ahead of its turn, or discover that a rule needs itself.                *)
(*                                                                         *)
(* Amounts are left out: what matters here is which rules have a result,   *)
(* and when.  The input.* values are there before the first rule.          *)
(***************************************************************************)
EXTENDS Integers, Sequences

CONSTANTS Rules,      \* rule ids
          NumStates,  \* packs 1..NumStates are those of the states, by state code
          PackOf,     \* the pack whose id_prefix an id has; 0 is the federal one
          MayRef,     \* MayRef[r]: the rules r can have as operands
          Headlines   \* ids of the outputs every return must have

Federal == 0
States == 1..NumStates
Packs == {Federal} \cup States

ASSUME PackAssumption ==
  /\ NumStates \in Nat
  /\ PackOf \in [Rules -> Packs]
  /\ MayRef \in [Rules -> SUBSET Rules]
  /\ Headlines \subseteq {r \in Rules : PackOf[r] = Federal}

VARIABLES
  defined,    \* the rules the packs define
  operands,   \* operands[r]: the rules r refers to, in either notation
  graphed,    \* those the loader sees: {ref: ...} within the pack
  residence,  \* the state of residence; Federal if it has no pack, or is blank
  foreign,    \* the state packs that declare another jurisdiction
  pack,       \* self.rp
  taken,      \* the rules the loop over rule_order has come to
  calls,      \* the calls of _evaluate_rule under way, the innermost last
  traces,     \* self.traces: the rules that have a result, in order
  finished,   \* the packs that have run
  phase       \* "running", "done", or why the run was refused

input == <<defined, operands, graphed, residence, foreign>>
vars == <<input, pack, taken, calls, traces, finished, phase>>

Causes == {"cycle", "missing", "arithmetic", "headline", "jurisdiction"}
Call == [rule : Rules, todo : SUBSET Rules]

\* bug: rules of another variant of the pack are left in the engine
LeftoverRules(p) == {r \in Rules : PackOf[r] = p}

RulesOf(p) == {r \in defined : PackOf[r] = p}

\* self.resolved and self.traces are written together
Resolved == {traces[k] : k \in 1..Len(traces)}

\* self._evaluating
Evaluating == {calls[k].rule : k \in 1..Len(calls)}

\* every set of rules has one that needs none of the others, nor itself
Acyclic(g) == \A S \in (SUBSET Rules) \ {{}} : \E r \in S : g[r] \cap S = {}

Edges == {e \in defined \X Rules : e[2] \in MayRef[e[1]]}
Operands(E) == [r \in Rules |-> {o \in Rules : <<r, o>> \in E}]

Loadable(G) ==
  /\ \A e \in G : e[2] \in RulesOf(PackOf[e[1]])
  /\ Acyclic(Operands(G))

(* Packs that RulePack.load accepts: no unknown or circular {ref: ...}. *)
Init ==
  /\ defined \in SUBSET Rules
  /\ \E E \in SUBSET Edges :
       /\ operands = Operands(E)
       /\ \E G \in {F \in SUBSET E : Loadable(F)} : graphed = Operands(G)
  /\ residence \in Packs
  /\ foreign \in SUBSET States
  /\ pack = Federal
  /\ taken = {}
  /\ calls = <<>>
  /\ traces = <<>>
  /\ finished = {}
  /\ phase = "running"

-----------------------------------------------------------------------------
Refuse(cause) ==
  /\ phase' = cause
  /\ UNCHANGED <<input, pack, taken, calls, traces, finished>>

(* _evaluate_rule up to the evaluator of the rule's type. *)

\* bug: a rule already evaluated on demand is evaluated again in its turn
EvaluateAgain(r) == calls' = Append(calls, [rule |-> r, todo |-> operands[r]])

EvaluateRule(r) ==
  calls' = IF r \in Resolved THEN calls
           ELSE Append(calls, [rule |-> r, todo |-> operands[r]])

(* for rule_id in rule_order: the order is one in which every rule comes
   after the rules it is graphed to. *)
TakeRule(r) ==
  /\ phase = "running"
  /\ calls = <<>>
  /\ pack \notin finished
  /\ r \in RulesOf(pack) \ taken
  /\ graphed[r] \subseteq taken
  /\ taken' = taken \cup {r}
  /\ EvaluateRule(r)
  /\ UNCHANGED <<input, pack, traces, finished, phase>>

(* _resolve_ref, on an operand o of the innermost rule under way. *)

Top == calls[Len(calls)]

StrikeOff(o) ==
  [calls EXCEPT ![Len(calls)] = [rule |-> Top.rule, todo |-> Top.todo \ {o}]]

Asks(o) == phase = "running" /\ calls # <<>> /\ o \in Top.todo

OperandKnown(o) ==
  /\ Asks(o)
  /\ o \in Resolved
  /\ calls' = StrikeOff(o)
  /\ UNCHANGED <<input, pack, taken, traces, finished, phase>>

OperandOnDemand(o) ==
  /\ Asks(o)
  /\ o \in RulesOf(pack) \ (Resolved \cup Evaluating)
  /\ EvaluateRule(o)
  /\ UNCHANGED <<input, pack, taken, traces, finished, phase>>

OperandUnderWay(o) ==
  /\ Asks(o)
  /\ o \in RulesOf(pack) \cap Evaluating
  /\ Refuse("cycle")

\* bug: a rule that has no result counts as $0
DefaultToZero(o) ==
  /\ Asks(o)
  /\ o \notin RulesOf(pack) \cup Resolved
  /\ calls' = StrikeOff(o)
  /\ UNCHANGED <<input, pack, taken, traces, finished, phase>>

OperandMissing(o) ==
  /\ Asks(o)
  /\ o \notin RulesOf(pack) \cup Resolved
  /\ Refuse("missing")

(* The evaluator has its operands: the result and its trace are written. *)
Finish ==
  /\ phase = "running"
  /\ calls # <<>>
  /\ Top.todo = {}
  /\ traces' = Append(traces, Top.rule)
  /\ calls' = SubSeq(calls, 1, Len(calls) - 1)
  /\ UNCHANGED <<input, pack, taken, finished, phase>>

\* bug: a rule that fails goes back to rule_order, to be tried once more
TryOnceMore ==
  /\ phase = "running" /\ calls # <<>>
  /\ taken' = taken \ {calls[1].rule}
  /\ calls' = <<>>
  /\ UNCHANGED <<input, pack, traces, finished, phase>>

(* A literal, an expression, a table or a constant it cannot use. *)
EvaluatorFails == phase = "running" /\ calls # <<>> /\ Refuse("arithmetic")

-----------------------------------------------------------------------------
(* run and _run_states. *)

\* bug: the headline outputs are not looked for
EndPackUnchecked ==
  /\ phase = "running"
  /\ calls = <<>>
  /\ pack \notin finished
  /\ RulesOf(pack) \subseteq taken
  /\ finished' = finished \cup {pack}
  /\ UNCHANGED <<input, pack, taken, calls, traces, phase>>

EndPack ==
  /\ phase = "running"
  /\ calls = <<>>
  /\ pack \notin finished
  /\ RulesOf(pack) \subseteq taken
  /\ IF pack = Federal /\ ~ Headlines \subseteq Resolved
     THEN Refuse("headline")
     ELSE /\ finished' = finished \cup {pack}
          /\ UNCHANGED <<input, pack, taken, calls, traces, phase>>

\* bug: the states run by code alone
ByCode(s, t) == s < t

\* sorted by (code == residence, code)
RunsBefore(s, t) == s # residence /\ (t = residence \/ s < t)

BeginState(s) ==
  /\ phase = "running"
  /\ pack \in finished
  /\ s \in States \ finished
  /\ \A t \in States \ finished : t = s \/ RunsBefore(s, t)
  /\ IF s \in foreign
     THEN Refuse("jurisdiction")
     ELSE /\ pack' = s
          /\ UNCHANGED <<input, taken, calls, traces, finished, phase>>

Seal ==
  /\ phase = "running"
  /\ Packs \subseteq finished
  /\ phase' = "done"
  /\ UNCHANGED <<input, pack, taken, calls, traces, finished>>

Operand(o) ==
  \/ OperandKnown(o)
  \/ OperandOnDemand(o)
  \/ OperandUnderWay(o)
  \/ OperandMissing(o)

Next ==
  \/ \E r \in Rules : TakeRule(r) \/ Operand(r)
  \/ Finish
  \/ EvaluatorFails
  \/ EndPack
  \/ \E s \in States : BeginState(s)
  \/ Seal

Spec == Init /\ [][Next]_vars

(* The engine is a plain function call: nothing suspends it. *)
FairSpec == Spec /\ WF_vars(Next)

-----------------------------------------------------------------------------
TypeOK ==
  /\ defined \subseteq Rules
  /\ operands \in [Rules -> SUBSET Rules]
  /\ graphed \in [Rules -> SUBSET Rules]
  /\ residence \in Packs
  /\ foreign \subseteq States
  /\ pack \in Packs
  /\ taken \subseteq defined
  /\ calls \in Seq(Call)
  /\ traces \in Seq(Rules)
  /\ finished \subseteq Packs
  /\ phase \in {"running", "done"} \cup Causes

(* The sealed run has one TraceNode per rule, although a rule may be asked
   for on demand and come up in rule_order again (calculator.py:469). *)
TracedOnce == \A k, l \in 1..Len(traces) : traces[k] = traces[l] => k = l

(* No result is computed before the results it is computed from, through
   bare strings as well as {ref: ...}, within a pack and across packs. *)
OperandsFirst ==
  \A l \in 1..Len(traces) : \A o \in operands[traces[l]] :
    \E k \in 1..(l - 1) : traces[k] = o

(* Packs run one at a time in the documented order: a result of a state is
   never computed before one of the federal pack or of a state that runs
   earlier, so the other-state credit of the state of residence sees the
   final tax of every other state (calculator.py:269). *)
PackBefore(p, q) ==
  /\ q # Federal
  /\ \/ p = Federal
     \/ p # q /\ q = residence
     \/ p # residence /\ p < q

ResidenceLast ==
  /\ \A k, l \in 1..Len(traces) :
       k < l => \/ PackOf[traces[k]] = PackOf[traces[l]]
                \/ PackBefore(PackOf[traces[k]], PackOf[traces[l]])
  /\ (pack = residence /\ pack # Federal) => States \ {pack} \subseteq finished

-----------------------------------------------------------------------------
(* Whether a set of packs can be calculated is decided by what they say. *)

Dangling(r) ==
  \E o \in operands[r] :
    \/ o \notin defined
    \/ (PackOf[o] # PackOf[r] /\ ~ PackBefore(PackOf[o], PackOf[r]))

OwnOperands == [r \in Rules |-> {o \in operands[r] : PackOf[o] = PackOf[r]}]

(* The reason a run is refused for is one its packs really give; and a run
   is sealed only if they give none: bare strings that make a rule need
   itself, references nothing answers, a headline output that no rule
   produces and a pack of the wrong jurisdiction are never papered over. *)
VerdictIsRight ==
  /\ phase = "cycle" => ~ Acyclic(OwnOperands)
  /\ phase = "missing" => \E r \in defined : Dangling(r)
  /\ phase = "headline" => ~ Headlines \subseteq defined
  /\ phase = "jurisdiction" => foreign # {}
  /\ phase = "done" =>
       /\ Acyclic(operands)
       /\ \A r \in defined : ~ Dangling(r)
       /\ Headlines \subseteq defined
       /\ foreign = {}
       /\ Resolved = defined

(* Every calculation comes to an end, whatever the packs refer to. *)
EveryRunEnds == <>(phase # "running")
=============================================================================
