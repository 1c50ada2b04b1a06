---------------------------- MODULE MCAlgorithms ----------------------------
(***************************************************************************)
(* Bounded inputs for the pure algorithms: one step takes an input of the  *)
(* group a behaviour begins with, and the properties compare what the code *)
(* does with it with what it should do.  Behaviours end there.             *)
(***************************************************************************)
EXTENDS AlgorithmCases

F == INSTANCE Formula

VARIABLE group
vars == <<group, topic, case>>

Init ==
    /\ group \in {"formulas", "tables", "forms", "csv"} \cup Statuses
    /\ topic = "none" /\ case = <<>>

Take(t, c) == topic' = t /\ case' = c /\ UNCHANGED group

(* The functions on a subset of D with values in S.                        *)
Partial(D, S) == UNION {[d -> S] : d \in SUBSET D}

-----------------------------------------------------------------------------
(* Formulas: trees of two levels over an input and a number.               *)

Trees == F!Grown(F!Grown({F!Leaf("x"), F!Leaf("0")}, {"+", "-", "*", "/", "max"}),
                 {"+", "-", "*", "/", "min"})

TakeFormula == group = "formulas" /\ \E tree \in Trees, declared \in {{}, {"x"}, {"y"}} :
    Take("formula", [tree |-> tree, variables |-> [v \in declared |-> <<3, 1>>]])

(* A formula that loads has the value arithmetic gives it.                 *)
(* rule_loader.py _validate_formula_rule, calculator.py _safe_eval         *)
FormulasAreArithmetic ==
    topic = "formula" => F!MeansWhatItSays(case.tree, case.variables)

-----------------------------------------------------------------------------
(* Tables: up to three brackets, matrices of up to two levels with quoted  *)
(* and unquoted keys, and up to two constants of up to two levels.         *)

MCNumeral(n) == ToString(n)

Bounds == [lower : {NotNumeric, 0, 1, 2}, upper : {NoUpper, 1, 2, 3}]

TakeBrackets == group = "tables" /\ \E n \in 0..3, statuses \in SUBSET {"single", "mfj"} : \E b \in [1..n -> Bounds] :
    Take("brackets", [status |-> "single", incomes |-> 0..5, tables |-> [s \in statuses |->
        [i \in 1..n |-> [lower |-> b[i].lower, upper |-> b[i].upper, rate |-> <<1, 3, 2>>[i]]]]])

Mapping(f) == [sub |-> f]
LeafNodes  == {[leaf |-> 7], [leaf |-> NotNumeric], Mapping(<<>>)}
Nodes(keys, below) ==
    below \cup {Mapping(f) : f \in Partial(keys, below)}
MatrixKeys == {Key(<<"single">>), Key(<<"1">>), [quoted |-> FALSE, text |-> <<"1">>]}
InnerNodes == {m \in Nodes(MatrixKeys, LeafNodes) :
                   IsDict(m) => Cardinality(DOMAIN m.sub) < 3}
KeySpecs   == {[kind |-> "filing_status", value |-> 0], [kind |-> "ref", value |-> 10],
               [kind |-> "ref", value |-> 15], [kind |-> "literal", value |-> 10]}

TakeMatrix == group = "tables" /\
    \E rows \in {{}, {Key(<<"single">>)}, {Key(<<"1">>), Key(<<"1", "5">>)}, MatrixKeys \ {Key(<<"1">>)}} :
        \E f \in [rows -> InnerNodes] :
            Take("matrix", [table |-> Mapping(f), specs |-> KeySpecs, status |-> "single"])

Groups == Nodes({Key(<<"single">>), Key(<<"dotted", "key">>)}, {[leaf |-> 2], [leaf |-> NotNumeric]})
ConstantValues == Nodes({Key(<<"g">>)}, Groups) \cup Nodes({Key(<<"dotted", "key">>)}, Groups)
Paths == {<<>>, <<"a">>, <<"constants">>, <<"a", "g">>, <<"constants", "a">>, <<"constants", "a", "g">>,
          <<"constants", "constants">>, <<"constants", "constants", "g">>}

TakeConstants == group = "tables" /\ \E names \in SUBSET {Key(<<"a">>), Key(<<"constants">>)} :
    \E f \in [names -> ConstantValues] :
        Take("constants", [constants |-> f, names |-> {"a", "constants"}, paths |-> Paths,
                           key |-> <<"single">>])

-----------------------------------------------------------------------------
(* The rule editor's forms: rows under indices up to the limit, with gaps  *)
(* and blank rows.                                                         *)

Indices == 0..MaxIndexedEntries
Items   == {Ref("a"), Ref(""), [kind |-> "bare", text |-> "a"],
            [kind |-> "bare", text |-> ""], [kind |-> "literal", text |-> "1"]}

TakeSum == group = "forms" /\
    \/ \E rows \in Partial(Indices, {"", "a", "b"}), fallback \in {"", "z"} :
           Take("sum form", [rows |-> rows, fallback |-> fallback])
    \/ \E n \in 1..(MaxIndexedEntries + 1) : \E specs \in [1..n -> Items] :
           Take("sum", [list |-> n > 1, specs |-> specs])

TakeInputs == group = "forms" /\ \E rows \in Partial(0..2, [name : {"", "x", "y"}, type : {"ref", "literal"},
                                         text : {"1", "2"}]), used \in SUBSET {"x", "y"} :
    Take("inputs form", [rows |-> rows, used |-> used])

TakeBracketRows == group = "forms" /\ \E rows \in Partial(Indices, [lower : {"", "1"}, upper : {"", "2"},
                                                 rate : {"3"}]) :
    Take("bracket form", rows)

TakeGrid == group = "forms" /\
    \/ \E cols \in Partial({0, 1, MaxIndexedEntries}, {"", "1", "2"}),
          keys \in Partial({0, 1}, {"", "s", "t"}) :
          \E cells \in [(DOMAIN keys) \X (DOMAIN cols) -> {"", "7"}] :
              Take("grid form", [cols |-> cols, keys |-> keys, cells |-> cells])
    \/ \E specs \in {<<Ref("a"), Ref("b")>>, <<Ref("a")>>,
                     <<[kind |-> "literal", text |-> "1"], Ref("b")>>},
          table \in Partial({"s", "t"},
                            {Child("7")} \cup [cells : Partial({"0", "1"}, {"7", "8"})]) :
              Take("grid", [specs |-> specs, table |-> table])

TakeConstant == group = "forms" /\
    \/ \E rows \in Partial({0, 2, MaxIndexedEntries},
                           [name : {"", "g", "h"}, cells : [CONSTANT_STATUSES -> {"", "1"}]]) :
           Take("constant form", rows)
    \/ \E value \in Partial({"single", "mfj", "g"},
                            {Child("1")} \cup [cells : Partial({"single", "mfj", "g"}, {"1"})]) :
           Take("constant", value)

-----------------------------------------------------------------------------
(* Returns: the primary's name and any two other fields, one of them with  *)
(* any value, on the first row, the second row of the first taxpayer's     *)
(* wages, or past the limit.                                               *)

RowKeys(person, i) ==
    UNION {{<<person, kind, i, f>> : f \in Amounts[kind] \cup Texts[kind]} : kind \in Kinds}
        \cup {<<person, "b", i, "long_term">>}

Keys == UNION {RowKeys(person, 0) : person \in Persons}
    \cup {<<"p", "w2", i, "wages">> : i \in {1, MaxIndexedEntries}}
    \cup {<<"household", "edu", i, f>> : i \in {0, 1}, f \in {"expenses", "student"}}
    \cup {<<person, "field", 0, f>> : person \in Persons,
                                      f \in PersonFlags \cup PersonAmounts \cup {"combat_months"}}
    \cup {<<"household", "field", 0, f>> :
              f \in HouseholdAmounts \cup HouseholdCounts \cup HouseholdFlags}

Primary == [key \in {<<"p", "field", 0, f>> : f \in {"first", "last"}} |-> 1]
Plain(key) == IF MoneyKeys(key :> 20) = {key} THEN 20 ELSE 1
Values == {1, 2, 13, 20, 21, 25, 50, -1}

TakeReturn == group \in Statuses /\ \E first \in Keys :
    LET TakeForm(fd) == Take("return", [form |-> fd, status |-> group])
    IN  \/ \E value \in Values : TakeForm((first :> value) @@ Primary)
        \/ \E second \in Keys :
               TakeForm((first :> Plain(first)) @@ (second :> Plain(second)) @@ Primary)
        \/ TakeForm(first :> 1)

(* A CSV file of up to three lines, with all the columns of its kind or    *)
(* two of them; the spaces around their names and the place at which the   *)
(* reader fails go with every one of the lines.                            *)
TakeCsv == group = "csv" /\ \E kind \in Kinds, full \in BOOLEAN :
    \E f \in Amounts[kind], g \in Amounts[kind] \cup Texts[kind], v \in {20, 25, 50},
       others \in {<<>>, <<-1>>, <<30>>, <<30, -1>>} :
        LET columns == IF full THEN Amounts[kind] \cup Texts[kind] ELSE {f, g}
            lines == [i \in DOMAIN others |-> f :> others[i]] \o <<(f :> v) @@ (g :> 20)>>
        IN  \E padded \in {{}, {f}, {g}, columns}, broken \in SUBSET (0..Len(lines)) :
                /\ Cardinality(broken) < 3
                /\ Take("csv", [kind |-> kind, headers |-> columns \ padded, padded |-> padded,
                                lines |-> lines, broken |-> broken])

-----------------------------------------------------------------------------
Next == /\ topic = "none"
        /\ \/ TakeFormula \/ TakeBrackets \/ TakeMatrix \/ TakeConstants
           \/ TakeSum \/ TakeInputs \/ TakeBracketRows \/ TakeGrid \/ TakeConstant
           \/ TakeReturn \/ TakeCsv

Spec == Init /\ [][Next]_vars
=============================================================================
