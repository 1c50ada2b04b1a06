----------------------------- MODULE RuleOrder -----------------------------
(***************************************************************************)
(* What _toposort_rules of app/engine/rule_loader.py promises: every rule  *)
(* comes after the rules it refers to, and of the rules that could come    *)
(* next it is always the one whose id sorts first, so that a pack has one  *)
(* order whatever the order of its file.                                   *)
(***************************************************************************)
EXTENDS Integers, Sequences

CONSTANT Rules  \* rule ids: numbers, in the order of the strings they stand for

VARIABLES refs, order

Placed == {order[k] : k \in 1..Len(order)}
Eligible == {r \in Rules \ Placed : refs[r] \subseteq Placed}

Init == order = <<>>

Place ==
  /\ \E r \in Eligible :
       /\ \A s \in Eligible : r <= s
       /\ order' = Append(order, r)
  /\ refs' = refs

Spec == Init /\ [][Place]_<<refs, order>>
=============================================================================
