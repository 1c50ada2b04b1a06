------------------------------ MODULE Formula ------------------------------
(***************************************************************************)
(* The arithmetic of a formula rule: what the loader refuses when a pack   *)
(* is read (app/engine/rule_loader.py) and what the engine computes when   *)
(* the rule is evaluated (app/engine/calculator.py).  The engine splits    *)
(* the text of the expression at operators instead of building a tree, so  *)
(* it is checked against the trees of ordinary arithmetic and the texts a  *)
(* user would type for them.                                               *)
(*                                                                         *)
(* An expression is a sequence of tokens; " " is a blank.  A number is a   *)
(* pair <<numerator, denominator>> with a positive denominator, and        *)
(* Raises stands for RulePackError.                                        *)
(***************************************************************************)
EXTENDS Integers, Sequences, FiniteSets, SequencesExt, FiniteSetsExt

Functs    == {"max", "min"}          \* _ALLOWED_FUNCS
Additives == {"+", "-"}
Factors   == {"*", "/"}
Marks     == {"(", ")", ",", " "} \cup Additives \cup Factors
Literals  == [t \in {"0"} |-> <<0, 1>>]

-----------------------------------------------------------------------------
(* Numbers.                                                                *)

Raises == <<>>

Equal(a, b) ==
    IF Raises \in {a, b} THEN a = b ELSE a[1] * b[2] = b[1] * a[2]

AtMost(a, b) == a[1] * b[2] <= b[1] * a[2]

Negated(a) == IF a = Raises THEN Raises ELSE <<-a[1], a[2]>>

Quotient(a, b) ==
    IF b[1] > 0 THEN <<a[1] * b[2], a[2] * b[1]>>
                ELSE <<-(a[1] * b[2]), -(a[2] * b[1])>>

Applied(op, a, b) ==
    IF Raises \in {a, b} \/ (op = "/" /\ b[1] = 0) THEN Raises
    ELSE CASE op = "+"   -> <<a[1] * b[2] + b[1] * a[2], a[2] * b[2]>>
           [] op = "-"   -> <<a[1] * b[2] - b[1] * a[2], a[2] * b[2]>>
           [] op = "*"   -> <<a[1] * b[1], a[2] * b[2]>>
           [] op = "/"   -> Quotient(a, b)
           [] op = "max" -> IF AtMost(a, b) THEN b ELSE a
           [] op = "min" -> IF AtMost(b, a) THEN b ELSE a

-----------------------------------------------------------------------------
(* What the loader checks: every name of the expression is a declared      *)
(* input, and no input is named like a number.                             *)

_extract_identifiers(e) == ToSet(e) \ (Marks \cup DOMAIN Literals)

_validate_formula_rule(e, declared) ==
    /\ \E i \in DOMAIN e : e[i] # " "
    /\ declared # {}
    /\ ~ \E i, j \in DOMAIN e :
           /\ i + 1 < j /\ e[i] \in Functs /\ e[i + 1] = "(" /\ e[j] = ")"
           /\ \A k \in (i + 2)..(j - 1) : e[k] = " "
    /\ declared \cap DOMAIN Literals = {}
    /\ _extract_identifiers(e) \ Functs \subseteq declared

-----------------------------------------------------------------------------
(* What the engine computes.                                               *)

Strip(e) ==
    LET ink == {i \in DOMAIN e : e[i] # " "}
    IN  IF ink = {} THEN <<>> ELSE SubSeq(e, Min(ink), Max(ink))

(* The number of t among the tokens i..j of e.                             *)
Count(e, t, i, j) == Cardinality({k \in i..j : e[k] = t})

(* max( or min( whose closing parenthesis is the last token.               *)
IsCall(e) ==
    /\ Len(e) >= 2 /\ e[1] \in Functs /\ e[2] = "("
    /\ LET closed == {i \in 2..Len(e) : Count(e, "(", 2, i) = Count(e, ")", 2, i)}
       IN  closed # {} /\ Min(closed) = Len(e)

_split_args(s) ==
    LET commas == {i \in DOMAIN s :
                      s[i] = "," /\ Count(s, "(", 1, i) = Count(s, ")", 1, i)}
        cuts   == SetToSortSeq(commas \cup {0, Len(s) + 1}, <)
        part(k) == Strip(SubSeq(s, cuts[k] + 1, cuts[k + 1] - 1))
    IN  SelectSeq([k \in 1..(Len(cuts) - 1) |-> part(k)], LAMBDA p : p # <<>>)

(* Mutant: the scan goes from the left.                                    *)
FirstOperator(e, ops) ==
    LET found == {i \in 2..Len(e) : /\ e[i] \in ops
                                    /\ Count(e, "(", i, Len(e)) = Count(e, ")", i, Len(e))}
    IN  IF found = {} THEN 0 ELSE Min(found)

(* The scan from the right for an operator outside every parenthesis; a    *)
(* sign at the very start is not one.                                      *)
LastOperator(e, ops) ==
    LET found == {i \in 2..Len(e) : /\ e[i] \in ops
                                    /\ Count(e, "(", i, Len(e)) = Count(e, ")", i, Len(e))}
    IN  IF found = {} THEN 0 ELSE Max(found)

RECURSIVE _safe_eval(_, _), _eval_additive(_, _), _eval_multiplicative(_, _),
          _eval_atom(_, _)

(* max and min of the values of the arguments.                             *)
CallValue(e, variables) ==
    LET args == _split_args(SubSeq(e, 3, Len(e) - 1))
        vals == [k \in DOMAIN args |-> _safe_eval(args[k], variables)]
    IN  IF args = <<>> THEN Raises
        ELSE FoldLeft(LAMBDA a, b : Applied(e[1], a, b), vals[1], Tail(vals))

_safe_eval(expr, variables) ==
    LET e == Strip(expr)
    IN  IF IsCall(e) THEN CallValue(e, variables) ELSE _eval_additive(e, variables)

_eval_additive(e, variables) ==
    LET pos == LastOperator(e, Additives)
    IN  IF pos = 0 THEN _eval_multiplicative(e, variables)
        ELSE Applied(e[pos],
                     _eval_additive(Strip(SubSeq(e, 1, pos - 1)), variables),
                     _eval_multiplicative(Strip(SubSeq(e, pos + 1, Len(e))), variables))

_eval_multiplicative(e, variables) ==
    LET pos == LastOperator(e, Factors)
    IN  IF pos = 0 THEN _eval_atom(e, variables)
        ELSE Applied(e[pos],
                     _eval_multiplicative(Strip(SubSeq(e, 1, pos - 1)), variables),
                     _eval_atom(Strip(SubSeq(e, pos + 1, Len(e))), variables))

_eval_atom(expr, variables) ==
    LET e == Strip(expr)
    IN  CASE Len(e) > 1 /\ e[1] = "-" -> Negated(_eval_atom(Tail(e), variables))
          [] Len(e) > 1 /\ e[1] = "+" -> _eval_atom(Tail(e), variables)
          [] IsCall(e) -> CallValue(e, variables)
          [] Len(e) > 1 /\ e[1] = "(" /\ Last(e) = ")" ->
                 _eval_additive(SubSeq(e, 2, Len(e) - 1), variables)
          [] Len(e) = 1 /\ e[1] \in DOMAIN variables -> variables[e[1]]
          [] Len(e) = 1 /\ e[1] \in DOMAIN Literals  -> Literals[e[1]]
          [] OTHER -> Raises

-----------------------------------------------------------------------------
(* Ordinary arithmetic: the trees, the text of a tree with no parentheses  *)
(* but those it needs, and its value.  "par" and "loose" are parentheses   *)
(* the user adds, the loose ones with blanks inside.                       *)

Leaf(a) == [op |-> a, args |-> <<>>]

Grown(trees, ops) ==
    trees \cup {[op |-> o, args |-> <<t>>] : o \in {"neg", "par", "loose"}, t \in trees}
          \cup {[op |-> o, args |-> <<t, u>>] : o \in ops, t \in trees, u \in trees}

Rank(t) == IF t.op \in Additives THEN 1 ELSE IF t.op \in Factors THEN 2 ELSE 3

RECURSIVE Text(_), Value(_, _), StraySign(_)

Operand(t, rank) == IF Rank(t) < rank THEN <<"(">> \o Text(t) \o <<")">> ELSE Text(t)

Text(t) ==
    CASE t.op = "neg"   -> <<"-">> \o Operand(t.args[1], 3)
      [] t.op = "par"   -> <<"(">> \o Text(t.args[1]) \o <<")">>
      [] t.op = "loose" -> <<"(", " ">> \o Text(t.args[1]) \o <<" ", ")">>
      [] t.op \in Functs ->
             <<t.op, "(">> \o Text(t.args[1]) \o <<",", " ">> \o Text(t.args[2]) \o <<")">>
      [] t.op \in Additives \cup Factors ->
             Operand(t.args[1], Rank(t)) \o <<" ", t.op, " ">>
                 \o Operand(t.args[2], Rank(t) + 1)
      [] OTHER -> <<t.op>>

Value(t, variables) ==
    CASE t.op = "neg" -> Negated(Value(t.args[1], variables))
      [] t.op \in {"par", "loose"} -> Value(t.args[1], variables)
      [] t.args = <<>> -> IF t.op \in DOMAIN variables THEN variables[t.op]
                                                       ELSE Literals[t.op]
      [] OTHER -> Applied(t.op, Value(t.args[1], variables), Value(t.args[2], variables))

RECURSIVE NamesOf(_)
NamesOf(t) ==
    IF t.args = <<>> THEN {t.op} \ DOMAIN Literals
                     ELSE UNION {NamesOf(t.args[k]) : k \in DOMAIN t.args}

(* The texts the engine cannot read although the loader accepts them: a    *)
(* sign right after an operator or another sign, and a sign after a blank  *)
(* that follows "(" unless a later + or - splits the contents first.       *)
StraySign(t) ==
    \/ \E k \in DOMAIN t.args : StraySign(t.args[k])
    \/ t.op = "neg" /\ t.args[1].op = "neg"
    \/ t.op = "loose" /\ Text(t.args[1])[1] = "-" /\ t.args[1].op \notin Additives
    \/ t.op \in Additives \cup Factors /\ Operand(t.args[2], Rank(t) + 1)[1] = "-"

(* A formula computes what its text means in ordinary arithmetic: the      *)
(* loader accepts it exactly when its names are declared, and what the     *)
(* loader accepted fails only for a division by zero or a stray sign.      *)
(* calculator.py _safe_eval, rule_loader.py _validate_formula_rule         *)
MeansWhatItSays(tree, variables) ==
    LET e == Text(tree)
    IN  /\ _validate_formula_rule(e, DOMAIN variables) <=>
               (DOMAIN variables # {} /\ NamesOf(tree) \subseteq DOMAIN variables)
        /\ _validate_formula_rule(e, DOMAIN variables) =>
               Equal(_safe_eval(e, variables),
                     IF StraySign(tree) THEN Raises ELSE Value(tree, variables))
=============================================================================
