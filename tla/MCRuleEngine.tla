---------------------------- MODULE MCRuleEngine ----------------------------
(* Bounds for RuleEngine: three federal rules that can refer to themselves,
   to each other in a ring and past a rule; two states of one rule each that
   can refer to the federal pack and to each other. *)
EXTENDS RuleEngine

CONSTANTS f1, f2, f3, s1, s2

MCPackOf == [r \in Rules |-> IF r = s1 THEN 1 ELSE IF r = s2 THEN 2 ELSE 0]

MCMayRef == [r \in Rules |->
  CASE r = f1 -> {f2}
    [] r = f2 -> {f1, f3}
    [] r = f3 -> {f3, s1}
    [] r = s1 -> {f1, s2}
    [] r = s2 -> {s1}]
=============================================================================
