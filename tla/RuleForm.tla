------------------------------ MODULE RuleForm ------------------------------
(***************************************************************************)
(* The rule and constant editor's forms (app/route_helpers/form_parsing.py *)
(* parse_rule_form, parse_constant_form) and the views a stored rule or    *)
(* constant is shown in.  A form carries rows under indices; removing a    *)
(* row on the page leaves a gap.  A row is blank (NoText) or a value       *)
(* whose spaces are already trimmed.  The parser returns Rejected          *)
(* (ValueError) or Some(the value); a view that would lose something is    *)
(* NoView and the page offers the YAML export instead.                     *)
(***************************************************************************)
EXTENDS FormRows, Sequences, FiniteSets, TLC, SequencesExt, FiniteSetsExt

CONSTANT CONSTANT_STATUSES   \* the filing statuses a constant is given for

ASSUME StatusesAssumption ==
    /\ IsFiniteSet(CONSTANT_STATUSES) /\ CONSTANT_STATUSES # {}
    /\ Cardinality(CONSTANT_STATUSES) <= MaxIndexedEntries

NoText   == ""                       \* a blank field
Rejected == <<>>
NoView   == <<>>
Some(x) == <<x>>

(* The rows of the indices in order; an index has its rank among them.     *)
Rank(indices, i) == Cardinality({j \in indices : j <= i})

InOrder(rows, indices) ==
    [k \in 1..Cardinality(indices) |-> rows[CHOOSE i \in indices : Rank(indices, i) = k]]

(* The entries of seq are those that f has at the indices, in their order. *)
Lists(seq, f, indices) ==
    /\ Len(seq) = Cardinality(indices)
    /\ \A i \in indices : seq[Rank(indices, i)] = f[i]

(* The page shows a sequence of rows under the indices 0, 1, ...           *)
Shown(seq) == [i \in 0..(Len(seq) - 1) |-> seq[i + 1]]

(* Under a key of a stored table or constant there is a text, as Child, or *)
(* a mapping [cells |-> a function from keys to texts], which may be empty. *)
Child(text)      == [text |-> text]
IsMapping(child) == "cells" \in DOMAIN child

-----------------------------------------------------------------------------
(* Sums: a row is a reference.  The items of a stored sum are one          *)
(* specification or a list of them; a specification is a mapping           *)
(* {ref: text}, a bare text, or something else, such as a literal.         *)

Ref(text) == [kind |-> "ref", text |-> text]

_ref_string(spec) ==
    IF spec.kind = "ref" \/ (spec.kind = "bare" /\ spec.text # NoText) THEN Some(spec.text)
                                                                  ELSE NoView

(* Mutant: rows past the limit are dropped.                                *)
DropPastLimit(rows, fallback) ==
    LET refs == InOrder(rows, {i \in DOMAIN rows : rows[i] # NoText /\ i < MaxIndexedEntries})
    IN  Some(IF refs = <<>> THEN [list |-> FALSE, specs |-> <<Ref(fallback)>>]
            ELSE [list |-> Len(refs) > 1, specs |-> [k \in DOMAIN refs |-> Ref(refs[k])]])

parse_sum(rows, fallback) ==
    IF TooMany(DOMAIN rows) THEN Rejected
    ELSE LET refs == InOrder(rows, {i \in DOMAIN rows : rows[i] # NoText})
         IN  Some(IF refs = <<>> THEN [list |-> FALSE, specs |-> <<Ref(fallback)>>]
                 ELSE [list  |-> Len(refs) > 1,
                       specs |-> [k \in DOMAIN refs |-> Ref(refs[k])]])

sum_items_from_rule(items) ==
    IF \/ Len(items.specs) > MaxIndexedEntries
       \/ \E k \in DOMAIN items.specs : _ref_string(items.specs[k]) = NoView
    THEN NoView
    ELSE Some([k \in DOMAIN items.specs |-> _ref_string(items.specs[k])[1]])

(* A sum that is accepted shows every reference that was typed, in order.  *)
SumKeepsItems(rows, fallback) ==
    parse_sum(rows, fallback) # Rejected =>
        LET view  == sum_items_from_rule(parse_sum(rows, fallback)[1])
            typed == {i \in DOMAIN rows : rows[i] # NoText}
        IN  IF typed = {} THEN view = Some(<<fallback>>)
            ELSE view # NoView /\ Lists(view[1], rows, typed)

(* A stored sum that is shown is saved with the references it had, but for *)
(* the blank ones.                                                         *)
SumRoundTrips(items) ==
    LET view == sum_items_from_rule(items)
        kept == {k \in DOMAIN items.specs : items.specs[k].text # NoText}
    IN  view # NoView /\ kept # {} =>
            Lists(parse_sum(Shown(view[1]), NoText)[1].specs,
                  [k \in kept |-> Ref(items.specs[k].text)], kept)

-----------------------------------------------------------------------------
(* Formulas: a row is an input, [name, type, text].                        *)

parse_inputs(rows) ==
    LET read    == {i \in DOMAIN rows :
                       \A j \in 0..i : j \in DOMAIN rows /\ rows[j].name # NoText}
        last(n) == Max({i \in read : rows[i].name = n})
    IN  [n \in {rows[i].name : i \in read} |->
            [kind |-> IF rows[last(n)].type = "literal" THEN "literal" ELSE "ref",
             text |-> rows[last(n)].text]]

(* What the loader then asks of the inputs (Formula): the names the        *)
(* expression uses are among them.                                         *)
InputsAccepted(rows, used) ==
    LET inputs == parse_inputs(rows)
    IN  DOMAIN inputs # {} /\ used \subseteq DOMAIN inputs

(* The input a row says.                                                   *)
Input(row) == [kind |-> IF row.type = "literal" THEN "literal" ELSE "ref", text |-> row.text]

(* The form is read only up to the first gap, yet in a formula that is     *)
(* accepted every name it uses has the input of a row typed for it; where  *)
(* a name was typed twice this is the last of its rows before the gap.     *)
FormulaKeepsInputs(rows, used) ==
    InputsAccepted(rows, used) =>
        \A n \in used : \E i \in DOMAIN rows :
            /\ rows[i].name = n
            /\ parse_inputs(rows)[n] = Input(rows[i])
            /\ \A later \in DOMAIN rows : rows[later].name = n /\ later > i =>
                   \E gap \in i..later : gap \notin DOMAIN rows \/ rows[gap].name = NoText

-----------------------------------------------------------------------------
(* Brackets: a row is [lower, upper, rate]; a row with no lower bound is   *)
(* an empty one.  Rows past the limit are dropped without a word.          *)

parse_brackets(rows) ==
    InOrder(rows, {i \in DOMAIN rows : i < MaxIndexedEntries /\ rows[i].lower # NoText})

(* Every bracket with a lower bound on a row below the limit is kept, in   *)
(* the order of the page, whatever rows between them were removed or left  *)
(* empty, and nothing else is.                                             *)
BracketsKeepRows(rows) ==
    Lists(parse_brackets(rows), rows,
          {i \in DOMAIN rows : rows[i].lower # NoText /\ ~ TooMany({i})})

-----------------------------------------------------------------------------
(* Matrices: cols gives the name of a column, keys the key of a row and    *)
(* cells the text under a row and a column.  A stored table is a function  *)
(* from row keys to children.                                              *)

parse_matrix(cols, keys, cells) ==
    LET named      == {c \in DOMAIN cols : cols[c] # NoText}
        filled(r)  == {c \in named : cells[r, c] # NoText}
        entry(r)   == [name \in {cols[c] : c \in filled(r)} |->
                          cells[r, Max({c \in filled(r) : cols[c] = name})]]
        used       == {r \in DOMAIN keys : keys[r] # NoText /\ filled(r) # {}}
    IN  IF TooMany(DOMAIN cols \cup DOMAIN keys) THEN Rejected
        ELSE Some([key \in {keys[r] : r \in used} |->
                     entry(Max({r \in used : keys[r] = key}))])

matrix_view_from_rule(keySpecs, table) ==
    LET columns == UNION {DOMAIN table[r].cells : r \in DOMAIN table}
    IN  IF \/ Len(keySpecs) # 2
           \/ \E k \in DOMAIN keySpecs : _ref_string(keySpecs[k]) = NoView
           \/ Cardinality(DOMAIN table) > MaxIndexedEntries
           \/ \E r \in DOMAIN table : ~ IsMapping(table[r])
           \/ Cardinality(columns) > MaxIndexedEntries
        THEN NoView
        ELSE Some([columns |-> SetToSeq(columns), rows |-> SetToSeq(DOMAIN table)])

(* Every cell typed under a column and a row of their own names is in the  *)
(* table, and nothing else is; of two rows with one key the later wins.    *)
MatrixKeepsCells(cols, keys, cells) ==
    LET table == parse_matrix(cols, keys, cells)[1]
        alone(f, i) == f[i] # NoText /\ \A j \in DOMAIN f \ {i} : f[j] # f[i]
    IN  parse_matrix(cols, keys, cells) # Rejected =>
            /\ \A r \in DOMAIN keys, c \in DOMAIN cols :
                   alone(keys, r) /\ alone(cols, c) /\ cells[r, c] # NoText =>
                       table[keys[r]][cols[c]] = cells[r, c]
            /\ \A key \in DOMAIN table : \A name \in DOMAIN table[key] :
                   \E r \in DOMAIN keys, c \in DOMAIN cols :
                       /\ keys[r] = key /\ cols[c] = name
                       /\ cells[r, c] = table[key][name]

(* A stored matrix that is shown is saved as it was, but for the rows that *)
(* are an empty mapping: those are shown and not saved.  The loader does   *)
(* not take a matrix with such a row.                                      *)
MatrixRoundTrips(keySpecs, table) ==
    LET view    == matrix_view_from_rule(keySpecs, table)
        cols    == Shown(view[1].columns)
        keys    == Shown(view[1].rows)
        cell(k, c) == IF c \in DOMAIN table[k].cells THEN table[k].cells[c] ELSE NoText
        cells   == [p \in (DOMAIN keys) \X (DOMAIN cols) |-> cell(keys[p[1]], cols[p[2]])]
        filled  == {k \in DOMAIN table : DOMAIN table[k].cells # {}}
    IN  view # NoView =>
            parse_matrix(cols, keys, cells) = Some([k \in filled |-> table[k].cells])

-----------------------------------------------------------------------------
(* Constants: a row is [name, cells], the cells a function on              *)
(* CONSTANT_STATUSES.  A stored value is a function from keys to children. *)

Blank(row)    == row.name = NoText /\ \A s \in CONSTANT_STATUSES : row.cells[s] = NoText
Complete(row) == \A s \in CONSTANT_STATUSES : row.cells[s] # NoText

parse_constant_form(rows) ==
    LET groups == {i \in DOMAIN rows : ~ Blank(rows[i])}
        names  == {rows[i].name : i \in groups}
    IN  IF \/ TooMany(DOMAIN rows)
           \/ groups = {}
           \/ \E i \in groups : ~ Complete(rows[i])
           \/ NoText \in names /\ Cardinality(groups) > 1
           \/ Cardinality(names) < Cardinality(groups)
        THEN Rejected
        ELSE IF names = {NoText}
        THEN Some([s \in CONSTANT_STATUSES |-> Child(rows[CHOOSE i \in groups : TRUE].cells[s])])
        ELSE Some([n \in names |->
                     [cells |-> rows[CHOOSE i \in groups : rows[i].name = n].cells]])

_constant_cells_view(cells) == DOMAIN cells \subseteq CONSTANT_STATUSES

(* The rows of a stored constant, or NoView.                               *)
constant_view_groups(value) ==
    LET mappings == {k \in DOMAIN value : IsMapping(value[k])}
    IN  CASE DOMAIN value = {} -> Some({})
          [] /\ mappings = DOMAIN value
             /\ Cardinality(DOMAIN value) <= MaxIndexedEntries
             /\ \A k \in mappings : _constant_cells_view(value[k].cells) ->
                 Some({[name |-> k, cells |-> value[k].cells] : k \in mappings})
          [] /\ mappings = {} /\ DOMAIN value # {}
             /\ Cardinality(DOMAIN value) <= MaxIndexedEntries
             /\ _constant_cells_view(value) ->
                 Some({[name |-> NoText, cells |-> [k \in DOMAIN value |-> value[k].text]]})
          [] OTHER -> NoView

(* What a refused form shows again.                                        *)
constant_groups_from_form(rows) ==
    InOrder(rows, {i \in DOMAIN rows : i < MaxIndexedEntries /\ ~ Blank(rows[i])})

(* A constant that is accepted shows the rows that were typed; a form that *)
(* is refused shows them again, but for the rows past the limit.           *)
ConstantKeepsRows(rows) ==
    LET typed == {i \in DOMAIN rows : ~ Blank(rows[i])}
    IN  IF parse_constant_form(rows) # Rejected
        THEN constant_view_groups(parse_constant_form(rows)[1]) = Some({rows[i] : i \in typed})
        ELSE ToSet(constant_groups_from_form(rows)) =
                 {rows[i] : i \in {i \in typed : ~ TooMany({i})}}

(* A stored constant that is shown is saved as it was or not at all.       *)
ConstantRoundTrips(value) ==
    LET view   == constant_view_groups(value)
        whole(row) == [row EXCEPT !.cells = [s \in CONSTANT_STATUSES |->
                          IF s \in DOMAIN row.cells THEN row.cells[s] ELSE NoText]]
        form   == Shown(SetToSeq({whole(row) : row \in view[1]}))
    IN  view # NoView => parse_constant_form(form) \in {Rejected, Some(value)}
=============================================================================
