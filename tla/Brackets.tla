------------------------------ MODULE Brackets ------------------------------
(***************************************************************************)
(* Bracket tables of a progressive rate: what the loader accepts           *)
(* (app/engine/rule_loader.py _validate_bracket_table_rule) is what makes  *)
(* the engine's walk right (app/engine/calculator.py _eval_bracket_table), *)
(* which checks nothing.  Amounts and rates are whole numbers, so rounding *)
(* has nothing to do here.                                                 *)
(*                                                                         *)
(* A bracket is [lower, upper, rate].                                      *)
(***************************************************************************)
EXTENDS Integers, Sequences, FiniteSets, Functions, FiniteSetsExt

Raises == <<>>                       \* RulePackError
Got(v) == <<v>>

NoUpper    == -1                     \* 'upper' left out
NotNumeric == -2                     \* a text that is no number

(* Mutant: overlapping brackets load.                                      *)
OverlapAccepted(brackets, i) ==
    LET b == brackets[i]
    IN  /\ NotNumeric \notin {b.lower, b.upper, b.rate}
        /\ b.upper = NoUpper => i = Len(brackets)
        /\ b.upper # NoUpper => b.upper > b.lower

BracketAccepted(brackets, i) ==
    LET b == brackets[i]
    IN  /\ NotNumeric \notin {b.lower, b.upper, b.rate}
        /\ b.upper = NoUpper => i = Len(brackets)
        /\ b.upper # NoUpper => b.upper > b.lower
        /\ i > 1 => b.lower >= brackets[i - 1].upper

_validate_bracket_table_rule(tables) ==
    /\ DOMAIN tables # {}
    /\ \A status \in DOMAIN tables :
           /\ tables[status] # <<>>
           /\ \A i \in DOMAIN tables[status] : BracketAccepted(tables[status], i)

(* What of an income is in a bracket; below the bracket it is negative.    *)
InBracket(b, income) ==
    (IF b.upper = NoUpper \/ income < b.upper THEN income ELSE b.upper) - b.lower

(* The walk stops at the first bracket that starts at or above the income. *)
Reached(brackets, income) ==
    {i \in DOMAIN brackets : \A j \in 1..i : income > brackets[j].lower}

_eval_bracket_table(tables, status, income) ==
    IF status \notin DOMAIN tables THEN Raises
    ELSE LET brackets == tables[status]
         IN  Got(SumFunction([i \in Reached(brackets, income) |->
                     Max({0, InBracket(brackets[i], income)}) * brackets[i].rate]))

(* The tax the table describes: each dollar at the rate of its bracket,    *)
(* and nothing for a dollar that is in none.                               *)
RateOf(brackets, dollar) ==
    LET of == {i \in DOMAIN brackets : /\ brackets[i].lower <= dollar
                                       /\ brackets[i].upper # NoUpper =>
                                              dollar < brackets[i].upper}
    IN  IF of = {} THEN 0 ELSE brackets[CHOOSE i \in of : TRUE].rate

DollarByDollar(brackets, income) ==
    SumFunction([d \in 0..(income - 1) |-> RateOf(brackets, d)])

Apart(brackets) ==
    \A i \in DOMAIN brackets :
        /\ NotNumeric \notin {brackets[i].lower, brackets[i].upper, brackets[i].rate}
        /\ \/ i = Len(brackets) /\ brackets[i].upper = NoUpper
           \/ brackets[i].lower < brackets[i].upper
        /\ \A j \in 1..(i - 1) : /\ brackets[j].upper # NoUpper
                                 /\ brackets[j].upper <= brackets[i].lower

(* A table whose brackets are apart and in order loads, and then the tax   *)
(* on an income is the sum over its dollars of the rate of the one bracket *)
(* each dollar is in.  rule_loader.py _validate_bracket_table_rule,        *)
(* calculator.py _eval_bracket_table                                       *)
BracketsAreMarginal(tables, status, incomes) ==
    /\ (DOMAIN tables # {} /\ \A s \in DOMAIN tables :
            tables[s] # <<>> /\ Apart(tables[s])) => _validate_bracket_table_rule(tables)
    /\ _validate_bracket_table_rule(tables) =>
           \A income \in incomes :
               _eval_bracket_table(tables, status, income) =
                   IF status \in DOMAIN tables
                   THEN Got(DollarByDollar(tables[status], income)) ELSE Raises
=============================================================================
