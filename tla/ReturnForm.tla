----------------------------- MODULE ReturnForm -----------------------------
(***************************************************************************)
(* From what a user types to what a calculation reads: the return form     *)
(* (app/route_helpers/form_parsing.py), the totals of a return             *)
(* (app/models/domain.py), the inputs the engine offers to the rules       *)
(* (app/engine/calculator.py _resolve_inputs) and the CSV import           *)
(* (app/services/csv_import.py).                                           *)
(*                                                                         *)
(* A form is a function from the keys that were filled in to whole         *)
(* numbers; a key is <<person, kind, index, field>>, where the person is   *)
(* "household" for what the household has, and the kind is "field" for     *)
(* what is not in a row.  A money field holds tenths of a cent, so that    *)
(* what is not a multiple of ten has too many decimals; a text or a        *)
(* checked box is 1, a count is itself, and a negative number is a text    *)
(* that is no amount.                                                      *)
(***************************************************************************)
EXTENDS FormRows, Sequences, FiniteSets, Functions, FiniteSetsExt

CONSTANT MaxMoney   \* the largest amount a money field takes, in cents

ASSUME MoneyAssumption == MaxMoney \in Nat

Statuses == {"single", "mfj", "mfs"}   \* hoh and qss are read as single is
Persons  == {"p", "s"}

(* The amounts and the texts of each kind of record.                       *)
Amounts ==
    [w2   |-> {"wages", "federal_withheld", "state_wages", "state_withheld",
               "medicare_wages", "medicare_tax"},
     int  |-> {"interest", "federal_withheld"},
     div  |-> {"ordinary", "qualified", "federal_withheld"},
     b    |-> {"proceeds", "cost_basis", "federal_withheld"},
     nec  |-> {"compensation", "federal_withheld"},
     edu  |-> {"expenses"}]

Texts ==
    [w2 |-> {"employer", "state"}, int |-> {"payer"}, div |-> {"payer"},
     b  |-> {"desc"}, nec |-> {"payer"}, edu |-> {"student"}]

Kinds == {"w2", "int", "div", "b", "nec"}

(* The five adjustments are one amount here, and so are the six itemized   *)
(* deductions.                                                             *)
PersonAmounts == {"combat_pay", "moving_expenses", "reservist_travel"}
PersonFlags   == {"first", "last", "officer", "65", "blind"}

HouseholdAmounts ==
    {"adjustments", "itemized", "estimated_payments", "other_income",
     "st_loss_carryover", "lt_loss_carryover", "llc_expenses", "care_expenses"}
HouseholdCounts == {"qualifying_children", "other_dependents", "care_persons"}
HouseholdFlags  == {"nyc_resident", "yonkers_resident", "ca_renter"}

-----------------------------------------------------------------------------
(* Reading fields.                                                         *)

Raw(fd, key) == IF key \in DOMAIN fd THEN fd[key] ELSE 0

IsMoney(raw) == raw >= 0 /\ raw % 10 = 0 /\ raw \div 10 <= MaxMoney

parse_money(raw) == raw \div 10

Checked(raw) == IF raw = 1 THEN 1 ELSE 0

Money(fd, key) == parse_money(Raw(fd, key))
Text(fd, key)  == Raw(fd, key) # 0
Box(fd, key)   == Checked(Raw(fd, key))

collect_indices(fd, person, kind) ==
    {key[3] : key \in {k \in DOMAIN fd : k[1] = person /\ k[2] = kind
                                                       /\ k[3] < MaxIndexedEntries}}

(* A row with no amount and no text is skipped.                            *)
HasData(fd, person, kind, i) ==
    \/ \E f \in Amounts[kind] : Money(fd, <<person, kind, i, f>>) # 0
    \/ \E f \in Texts[kind] : Text(fd, <<person, kind, i, f>>)

(* The amounts of a row, and whether the sale is long term.                *)
RowAt(fd, person, kind, i) ==
    [f \in Amounts[kind] \cup {"long_term"} |->
        IF f = "long_term" THEN Box(fd, <<person, kind, i, f>>)
                           ELSE Money(fd, <<person, kind, i, f>>)]

parse_rows(fd, person, kind) ==
    [i \in {i \in collect_indices(fd, person, kind) : HasData(fd, person, kind, i)} |->
        RowAt(fd, person, kind, i)]

parse_taxpayer(fd, person) ==
    [role   |-> person,
     rows   |-> [kind \in Kinds |-> parse_rows(fd, person, kind)],
     amount |-> [f \in PersonAmounts |-> Money(fd, <<person, "field", 0, f>>)],
     flag   |-> [f \in PersonFlags |-> IF f \in {"first", "last"}
                                       THEN Text(fd, <<person, "field", 0, f>>)
                                       ELSE Box(fd, <<person, "field", 0, f>>) = 1],
     combat_months |-> Raw(fd, <<person, "field", 0, "combat_months">>)]

(* Mutant: the reservist's travel alone does not make a spouse.            *)
TravelForgotten(t) ==
    \/ t.flag["first"] \/ t.flag["last"] \/ t.flag["65"] \/ t.flag["blind"]
    \/ \E kind \in Kinds : DOMAIN t.rows[kind] # {}
    \/ \E f \in {"combat_pay", "moving_expenses"} : t.amount[f] # 0

taxpayer_has_form_data(t) ==
    \/ t.flag["first"] \/ t.flag["last"] \/ t.flag["65"] \/ t.flag["blind"]
    \/ \E kind \in Kinds : DOMAIN t.rows[kind] # {}
    \/ \E f \in PersonAmounts : t.amount[f] # 0

(* The money fields a form is read for.                                    *)
MoneyKeys(fd) ==
    {key \in DOMAIN fd :
        \/ key[2] # "field" /\ key[3] < MaxIndexedEntries /\ key[4] \in Amounts[key[2]]
        \/ key[2] = "field" /\ key[4] \in PersonAmounts \cup HouseholdAmounts}

(* Everything parse_tax_input_from_form and the model refuse.              *)
Refused(fd, status) ==
    \/ ~ Text(fd, <<"p", "field", 0, "first">>) \/ ~ Text(fd, <<"p", "field", 0, "last">>)
    \/ \E person \in Persons : Raw(fd, <<person, "field", 0, "combat_months">>) \notin 0..12
    \/ \E key \in MoneyKeys(fd) : ~ IsMoney(fd[key])
    \/ \E f \in HouseholdCounts : Raw(fd, <<"household", "field", 0, f>>) < 0
    \/ status # "mfj" /\ taxpayer_has_form_data(parse_taxpayer(fd, "s"))
    \/ \A city \in {"nyc_resident", "yonkers_resident"} :
           Box(fd, <<"household", "field", 0, city>>) = 1

parse_tax_input_from_form(fd, status) ==
    LET p == parse_taxpayer(fd, "p")
        s == parse_taxpayer(fd, "s")
        household(f) == <<"household", "field", 0, f>>
    IN  [filing_status |-> status,
         taxpayers     |-> IF taxpayer_has_form_data(s) THEN {p, s} ELSE {p},
         amount        |-> [f \in HouseholdAmounts |-> Money(fd, household(f))],
         count         |-> [f \in HouseholdCounts |-> Min({20, Raw(fd, household(f))})],
         flag          |-> [f \in HouseholdFlags |-> Box(fd, household(f))],
         students      |-> parse_rows(fd, "household", "edu")]

-----------------------------------------------------------------------------
(* The totals of a return.                                                 *)

(* The records of some kinds, each as <<taxpayer, kind, index>>.           *)
RecordsOf(t, kind) == {<<t, kind, i>> : i \in DOMAIN t.rows[kind]}

Records(inp, kinds) == UNION {RecordsOf(t, kind) : t \in inp.taxpayers, kind \in kinds}

RowOf(record) == record[1].rows[record[2]][record[3]]
Gain(row) == row["proceeds"] - row["cost_basis"]

Total(inp, kinds, field) ==
    SumFunction([record \in Records(inp, kinds) |-> RowOf(record)[field]])

total_medicare_wages(inp) ==
    SumFunction([record \in Records(inp, {"w2"}) |->
                    IF RowOf(record)["medicare_wages"] > 0 THEN RowOf(record)["medicare_wages"]
                                                           ELSE RowOf(record)["wages"]])

(* `terms` says whether the sales are long term, 1, or not, 0.             *)
total_capital_gains(inp, terms) ==
    SumFunction([record \in {r \in Records(inp, {"b"}) : RowOf(r)["long_term"] \in terms} |->
                    Gain(RowOf(record))])

total_federal_withholding(inp) == Total(inp, Kinds, "federal_withheld")

OfRole(inp, role) == [inp EXCEPT !.taxpayers = {t \in @ : t.role = role}]

_earned_income_for_role(inp, role) ==
    Total(OfRole(inp, role), {"w2"}, "wages") + Total(OfRole(inp, role), {"nec"}, "compensation")

boxes(inp, flags) ==
    SumFunction([box \in inp.taxpayers \X flags |-> IF box[1].flag[box[2]] THEN 1 ELSE 0])

military(taxpayers, field) == SumFunction([t \in taxpayers |-> t.amount[field]])

officer(inp) == {t \in inp.taxpayers : t.flag["officer"]}

aotc_expenses(inp, cap) ==
    SumFunction([i \in DOMAIN inp.students |-> Min({inp.students[i]["expenses"], cap})])

Computed(inp) ==
    [wages                 |-> Total(inp, {"w2"}, "wages"),
     medicare_wages        |-> total_medicare_wages(inp),
     medicare_withheld     |-> Total(inp, {"w2"}, "medicare_tax"),
     interest              |-> Total(inp, {"int"}, "interest"),
     ordinary              |-> Total(inp, {"div"}, "ordinary"),
     qualified             |-> Total(inp, {"div"}, "qualified"),
     net_gain              |-> total_capital_gains(inp, {0, 1}),
     long_term_gain        |-> total_capital_gains(inp, {1}),
     short_term_gain       |-> total_capital_gains(inp, {0}),
     withholding           |-> total_federal_withholding(inp),
     compensation          |-> Total(inp, {"nec"}, "compensation"),
     dependents            |-> inp.count["qualifying_children"] + inp.count["other_dependents"],
     aotc_tier1            |-> aotc_expenses(inp, 1),
     aotc_tier2            |-> aotc_expenses(inp, 2),
     earned_primary        |-> _earned_income_for_role(inp, "p"),
     earned_spouse         |-> _earned_income_for_role(inp, "s"),
     age_blind_boxes       |-> boxes(inp, {"65", "blind"}),
     seniors               |-> boxes(inp, {"65"}),
     blind                 |-> boxes(inp, {"blind"}),
     combat_pay            |-> military(inp.taxpayers, "combat_pay"),
     officer_combat_pay    |-> military(officer(inp), "combat_pay"),
     officer_combat_months |-> SumFunction([t \in officer(inp) |-> t.combat_months]),
     moving_expenses       |-> military(inp.taxpayers, "moving_expenses"),
     reservist_travel      |-> military(inp.taxpayers, "reservist_travel")]

(* What the rules can refer to.  The two caps of the student expenses are  *)
(* small here.                                                             *)
_resolve_inputs(inp) ==
    LET computed == Computed(inp)
    IN  [ref \in HouseholdAmounts \cup HouseholdCounts \cup HouseholdFlags \cup DOMAIN computed |->
            CASE ref \in HouseholdAmounts -> inp.amount[ref]
              [] ref \in HouseholdCounts  -> inp.count[ref]
              [] ref \in HouseholdFlags   -> inp.flag[ref]
              [] ref \in DOMAIN computed  -> computed[ref]]

-----------------------------------------------------------------------------
(* What was typed, summed straight from the form.                          *)

TypedKeys(fd, kinds, f) ==
    {key \in DOMAIN fd : key[2] \in kinds /\ key[3] < MaxIndexedEntries /\ key[4] = f}

Typed(fd, kinds, f) == SumFunction([key \in TypedKeys(fd, kinds, f) |-> fd[key] \div 10])

Ticked(fd, flags) ==
    Cardinality({key \in DOMAIN fd : key[1] \in Persons /\ key[2] = "field"
                                         /\ key[4] \in flags /\ fd[key] = 1})

TypedGain(fd, terms) ==
    LET sales == {<<key[1], key[3]>> : key \in {k \in DOMAIN fd : k[2] = "b"}}
        at(sale, f) == Raw(fd, <<sale[1], "b", sale[2], f>>)
    IN  SumFunction([sale \in {sale \in sales : sale[2] < MaxIndexedEntries
                                          /\ Checked(at(sale, "long_term")) \in terms} |->
                        (at(sale, "proceeds") - at(sale, "cost_basis")) \div 10])

AsTyped(fd) ==
    [wages             |-> Typed(fd, {"w2"}, "wages"),
     medicare_withheld |-> Typed(fd, {"w2"}, "medicare_tax"),
     interest          |-> Typed(fd, {"int"}, "interest"),
     ordinary          |-> Typed(fd, {"div"}, "ordinary"),
     qualified         |-> Typed(fd, {"div"}, "qualified"),
     net_gain          |-> TypedGain(fd, {0, 1}),
     long_term_gain    |-> TypedGain(fd, {1}),
     short_term_gain   |-> TypedGain(fd, {0}),
     compensation      |-> Typed(fd, {"nec"}, "compensation"),
     withholding       |-> Typed(fd, Kinds, "federal_withheld"),
     age_blind_boxes   |-> Ticked(fd, {"65", "blind"})]

(* A return that is accepted computes from every amount that was typed on  *)
(* a row below the limit, for both spouses: nothing typed is dropped with  *)
(* a blank row, a spouse without a name or a spouse under another status,  *)
(* and Box 5 is Box 1 where it was left blank.                             *)
KeepsAmounts(fd, status) ==
    LET inputs == _resolve_inputs(parse_tax_input_from_form(fd, status))
        typed  == AsTyped(fd)
    IN  ~ Refused(fd, status) =>
            /\ \A ref \in DOMAIN typed : inputs[ref] = typed[ref]
            /\ \A f \in HouseholdAmounts \cup PersonAmounts :
                   inputs[f] = Typed(fd, {"field"}, f)
            /\ inputs.earned_primary + inputs.earned_spouse = inputs.wages + inputs.compensation
            /\ inputs.medicare_wages >= Typed(fd, {"w2"}, "medicare_wages")
            /\ Typed(fd, {"w2"}, "medicare_wages") = 0 => inputs.medicare_wages = inputs.wages

-----------------------------------------------------------------------------
(* The CSV import.  A file has a kind, the columns whose names are as the  *)
(* program knows them (headers) and those whose names are so but for the   *)
(* spaces around them (padded), lines, each a function from the columns it *)
(* fills to what stands there, and the places at which the reader of the   *)
(* csv module fails: a line, or 0 for the header.                          *)

_REQUIRED_HEADERS ==
    [w2 |-> {"employer", "wages"}, b |-> {"desc", "proceeds", "cost_basis"},
     int |-> {"payer", "interest"}, div |-> {"payer", "ordinary"}]

(* 1099-B lines are not read for withholding.                              *)
CsvAmounts(kind) == IF kind = "b" THEN {"proceeds", "cost_basis"} ELSE Amounts[kind]

(* A column is looked up by its name, so one with spaces around its name   *)
(* is not found, although it satisfies the check of the required headers.  *)
FoundCells(file, i) == Restrict(file.lines[i], file.headers \cap DOMAIN file.lines[i])

(* Where no column of the state wages is found the wages are taken for     *)
(* them; an empty cell of that column is zero.                             *)
CsvSource(headers, f) ==
    IF f = "state_wages" /\ f \notin headers THEN "wages" ELSE f

CsvRaw(cells, f) == IF f \in DOMAIN cells THEN cells[f] ELSE 0

ReadableLine(cells, kind, headers) ==
    \A f \in CsvAmounts(kind) : IsMoney(CsvRaw(cells, CsvSource(headers, f)))

CsvRecord(cells, kind, headers) ==
    [f \in CsvAmounts(kind) \cup {"long_term"} |->
        IF f = "long_term" THEN Checked(CsvRaw(cells, f))
                           ELSE parse_money(CsvRaw(cells, CsvSource(headers, f)))]

HasHeaders(file) ==
    /\ file.kind \in DOMAIN _REQUIRED_HEADERS
    /\ _REQUIRED_HEADERS[file.kind] \subseteq file.headers \cup file.padded

(* A failure of the reader ends the reading with one error, and in the     *)
(* header it escapes from import_csv.                                      *)
import_csv(file) ==
    LET Readable(i) == ReadableLine(FoundCells(file, i), file.kind, file.headers)
        read == {i \in DOMAIN file.lines : \A cut \in file.broken : i < cut}
        good == {i \in read : Readable(i)}
    IN  CASE file.kind \notin DOMAIN _REQUIRED_HEADERS ->
                 [raises |-> FALSE, records |-> <<>>, errors |-> 1]
          [] file.kind \in DOMAIN _REQUIRED_HEADERS /\ 0 \in file.broken ->
                 [raises |-> TRUE, records |-> <<>>, errors |-> 0]
          [] file.kind \in DOMAIN _REQUIRED_HEADERS /\ 0 \notin file.broken /\ ~ HasHeaders(file) ->
                 [raises |-> FALSE, records |-> <<>>, errors |-> 1]
          [] HasHeaders(file) /\ 0 \notin file.broken ->
                 [raises  |-> FALSE,
                  records |-> [i \in good |-> CsvRecord(FoundCells(file, i), file.kind, file.headers)],
                  errors  |-> Cardinality(read \ good) + (IF file.broken = {} THEN 0 ELSE 1)]

(* The form on which a line is typed: what stands in the columns of the    *)
(* names the program knows, and nothing from the others.                   *)
FormOf(file, line) ==
    LET from(f) == CsvSource(file.headers, f)
        fields  == {f \in CsvAmounts(file.kind) \cup Texts[file.kind] \cup {"long_term"} :
                        from(f) \in DOMAIN line /\ from(f) \in file.headers}
    IN  [key \in {<<"p", file.kind, 0, f>> : f \in fields} |-> line[from(key[4])]]

(* The line is taken as the form is: it is a record exactly if the form    *)
(* takes every amount, and the record is the row of the form, or nothing   *)
(* but zeros if the form skips the row.                                    *)
LineAsForm(file, result, i) ==
    LET form == FormOf(file, file.lines[i])
        rows == parse_rows(form, "p", file.kind)
    IN  /\ i \in DOMAIN result.records <=> \A key \in MoneyKeys(form) : IsMoney(form[key])
        /\ i \in DOMAIN result.records =>
               \A f \in CsvAmounts(file.kind) :
                   result.records[i][f] = IF 0 \in DOMAIN rows THEN rows[0][f] ELSE 0

(* Every line before the first failure of the reader is taken as the form  *)
(* is, whatever the other lines hold, and each of them that is no record   *)
(* is one error, as is the failure.  The lines from there on are neither   *)
(* records nor errors of their own.                                        *)
CsvMatchesForm(file) ==
    LET result == import_csv(file)
        before == {i \in DOMAIN file.lines : \A cut \in file.broken : i < cut}
    IN  HasHeaders(file) /\ ~ result.raises =>
            /\ DOMAIN result.records \subseteq before
            /\ Cardinality(DOMAIN result.records) + result.errors =
                   Cardinality(before) + (IF file.broken = {} THEN 0 ELSE 1)
            /\ \A i \in before : LineAsForm(file, result, i)
=============================================================================
