----------------------------- MODULE RateTables -----------------------------
(***************************************************************************)
(* The tables of a rule pack: brackets of a progressive rate (Brackets),   *)
(* matrices looked up by two or more keys, and constants looked up by a    *)
(* dotted path and a filing status.  The loader's validators (app/engine/  *)
(* rule_loader.py) are what makes the engine's evaluators (app/engine/     *)
(* calculator.py) right: each evaluator walks its table without checking   *)
(* it.  Amounts and rates are small whole numbers, so rounding has nothing *)
(* to do here.                                                             *)
(***************************************************************************)
EXTENDS Brackets

CONSTANT Numeral(_)     \* what str() writes for a whole number

-----------------------------------------------------------------------------
(* A node is a leaf, [leaf |-> value], or a mapping, [sub |-> function     *)
(* from keys to nodes].  A text is the sequence of its parts between dots; *)
(* a key is a text with a mark of whether the YAML file quotes it (an      *)
(* unquoted number is not a string).                                       *)

Key(text) == [quoted |-> TRUE, text |-> text]
IsDict(node) == "sub" \in DOMAIN node
IsAmount(node) == ~ IsDict(node) /\ node.leaf # NotNumeric

TooShallow == <<"too", "shallow">>

(* One step down from what was found so far.                               *)
Step(found, text) ==
    IF found \in {Raises, TooShallow} THEN found
    ELSE IF ~ IsDict(found[1]) THEN TooShallow
    ELSE IF Key(text) \notin DOMAIN found[1].sub THEN Raises
    ELSE Got(found[1].sub[Key(text)])

Walk(node, texts) ==
    LET at[i \in 0..Len(texts)] == IF i = 0 THEN Got(node) ELSE Step(at[i - 1], texts[i])
    IN  at

(* The number at the end, which _to_decimal must be able to read.          *)
Descend(node, texts) ==
    LET found == Walk(node, texts)[Len(texts)]
    IN  IF found \in {Raises, TooShallow} THEN found
        ELSE IF IsAmount(found[1]) THEN Got(found[1].leaf) ELSE Raises

-----------------------------------------------------------------------------
(* Matrices.  All nodes of a table at each depth are validated.            *)

NodesAt(table, dims) ==
    LET at[d \in 0..dims] ==
            IF d = 0 THEN {table}
            ELSE UNION {Range(node.sub) : node \in {n \in at[d - 1] : IsDict(n)}}
    IN  at

_validate_matrix_table(table, dims) ==
    LET at == NodesAt(table, dims)
    IN  /\ \A d \in 0..(dims - 1) : \A node \in at[d] :
               IsDict(node) /\ DOMAIN node.sub # {} /\ \A k \in DOMAIN node.sub : k.quoted
        /\ \A node \in at[dims] : IsAmount(node)

(* A key specification is the filing status, a reference to a value in     *)
(* tenths, or something else.                                              *)
_validate_matrix_lookup_rule(keys, table) ==
    /\ Len(keys) >= 2
    /\ \A i \in DOMAIN keys : keys[i].kind \in {"filing_status", "ref"}
    /\ _validate_matrix_table(table, Len(keys))

(* A whole number indexes the table by its digits alone.                   *)
_matrix_key_str(spec, status) ==
    CASE spec.kind = "filing_status" -> <<status>>
      [] spec.kind # "filing_status" /\ spec.value % 10 = 0 -> <<Numeral(spec.value \div 10)>>
      [] OTHER -> <<Numeral(spec.value \div 10), Numeral(spec.value % 10)>>

_eval_matrix_lookup(keys, table, status) ==
    Descend(table, [i \in DOMAIN keys |-> _matrix_key_str(keys[i], status)])

(* The text is what the key means: the status, or the number as a person   *)
(* writes it, without needless zeros.                                      *)
Means(text, spec, status) ==
    IF spec.kind = "filing_status" THEN text = <<status>>
    ELSE \E whole \in 0..spec.value, tenth \in 0..9 :
             /\ spec.value = 10 * whole + tenth
             /\ text = <<Numeral(whole)>> \o (IF tenth = 0 THEN <<>> ELSE <<Numeral(tenth)>>)

(* A matrix that loads with two keys holds a number at every pair of keys, *)
(* a lookup finds the number of its pair and fails only for a pair that    *)
(* has none, whatever decimals the value of a key carries.                 *)
(* rule_loader.py _validate_matrix_table, calculator.py                    *)
(* _matrix_key_str, _eval_matrix_lookup                                    *)
MatrixFindsItsCell(keys, table, status) ==
    LET value == _eval_matrix_lookup(keys, table, status)
        here  == {pair \in UNION {{<<r, c>> : c \in DOMAIN table.sub[r].sub} : r \in DOMAIN table.sub} :
                      Means(pair[1].text, keys[1], status) /\ Means(pair[2].text, keys[2], status)}
        cell(pair) == table.sub[pair[1]].sub[pair[2]]
    IN  _validate_matrix_lookup_rule(keys, table) =>
            IF here = {} THEN value = Raises
            ELSE \A pair \in here : IsAmount(cell(pair)) /\ value = Got(cell(pair).leaf)

-----------------------------------------------------------------------------
(* Constants: a function from names to nodes.  A dotted path is the        *)
(* sequence of its parts; it may begin with "constants".                   *)

_validate_lookup_rule(path, key) == path # <<>> /\ key # <<>>

get_constant(constants, path, key) ==
    LET parts == IF path[1] = "constants" THEN Tail(path) ELSE path
        found == Descend([sub |-> constants], Append([i \in DOMAIN parts |-> <<parts[i]>>], key))
    IN  IF found = TooShallow THEN Raises ELSE found

(* The engine's lookup of a rule: the value of the key, which must be a    *)
(* number and not a mapping.                                               *)
_eval_lookup(constants, path, key) == get_constant(constants, path, key)

(* What keeps the constant `name` of a rule that looks up `path`.          *)
RefersTo(path, name) ==
    (IF path[1] = "constants" /\ Len(path) > 1 THEN path[2] ELSE path[1]) = name

_delete_constant(constants, paths, name) ==
    IF Key(<<name>>) \in DOMAIN constants /\ \A path \in paths : ~ RefersTo(path, name)
    THEN Restrict(constants, DOMAIN constants \ {Key(<<name>>)}) ELSE constants

(* A value the editor accepts: one or two levels of mappings, keys without *)
(* a dot, numbers at the leaves.                                           *)
KeysAccepted(value) ==
    /\ IsDict(value) /\ DOMAIN value.sub # {}
    /\ \A k \in DOMAIN value.sub : k.quoted /\ Len(k.text) = 1

_validate_constant_value(value) ==
    /\ KeysAccepted(value)
    /\ \A child \in Range(value.sub) :
           IsAmount(child) \/ (KeysAccepted(child) /\ \A c \in Range(child.sub) : IsAmount(c))

(* Every number of a constant the editor accepts is found by a lookup rule *)
(* that names its path.  rule_pack_editor.py _validate_constant_value      *)
ConstantIsAddressable(constants, name) ==
    LET value == constants[Key(<<name>>)]
        finds(path, k, leaf) == _eval_lookup(constants, path, k.text) = Got(leaf)
    IN  _validate_constant_value(value) =>
            \A k \in DOMAIN value.sub :
                IF IsDict(value.sub[k])
                THEN \A c \in DOMAIN value.sub[k].sub :
                         finds(<<"constants", name>> \o k.text, c, value.sub[k].sub[c].leaf)
                ELSE finds(<<"constants", name>>, k, value.sub[k].leaf)

(* Deleting a constant the editor agrees to delete changes the value of no *)
(* lookup rule that loads, whichever way its path is written.  A path of   *)
(* just "constants" names no constant and is left out.                     *)
(* rule_pack_editor.py delete_constant, rule_loader.py get_constant        *)
LookupsSurviveDeletion(constants, path, name, key) ==
    _validate_lookup_rule(path, key) /\ path # <<"constants">> =>
        _eval_lookup(_delete_constant(constants, {path}, name), path, key) =
            _eval_lookup(constants, path, key)
=============================================================================
