--------------------------- MODULE AlgorithmCases ---------------------------
(***************************************************************************)
(* The kinds of input the pure algorithms are given: the tables of a rule  *)
(* pack, a form of the rule and constant editor to be parsed, a stored     *)
(* rule or constant to be shown in it, the form of a return, or a CSV      *)
(* file.  `topic` says which kind the input `case` is.                     *)
(***************************************************************************)
EXTENDS RateTables, RuleForm, WhatIf

VARIABLES topic, case

(* Brackets are marginal, a matrix gives the cell of its keys, a constant  *)
(* that a rule looks up is not deleted.  calculator.py, rule_loader.py     *)
TablesGiveTheirRates ==
    /\ topic = "brackets" => BracketsAreMarginal(case.tables, case.status, case.incomes)
    /\ topic = "matrix" => \A k, l \in case.specs :
           MatrixFindsItsCell(<<k, l>>, case.table, case.status)
    /\ topic = "constants" => \A name \in case.names :
           /\ \A path \in case.paths :
                  LookupsSurviveDeletion(case.constants, path, name, case.key)
           /\ Key(<<name>>) \in DOMAIN case.constants =>
                  ConstantIsAddressable(case.constants, name)

(* What the editor's form saves is what was typed, and what it shows is    *)
(* saved as it was, whatever rows are blank, removed or past the limit:    *)
(* such a form is refused, but for a bracket table and for what a refused  *)
(* constant shows again, which both lose the rows past the limit.          *)
(* route_helpers/form_parsing.py                                           *)
RuleFormKeepsRows ==
    CASE topic = "sum form"      -> SumKeepsItems(case.rows, case.fallback)
      [] topic = "sum"           -> SumRoundTrips(case)
      [] topic = "inputs form"   -> FormulaKeepsInputs(case.rows, case.used)
      [] topic = "bracket form"  -> BracketsKeepRows(case)
      [] topic = "grid form"     -> MatrixKeepsCells(case.cols, case.keys, case.cells)
      [] topic = "grid"          -> MatrixRoundTrips(case.specs, case.table)
      [] topic = "constant form" -> ConstantKeepsRows(case)
      [] topic = "constant"      -> ConstantRoundTrips(case)
      [] OTHER                   -> TRUE

(* Every amount typed on a row below the limit of a form that is accepted  *)
(* is in the inputs of the rules.  A CSV line is taken as the form takes   *)
(* what stands in its columns, up to the first failure of the csv module's *)
(* reader; a column with spaces around its name is not found and its       *)
(* amounts are not there.                                                  *)
(* route_helpers/form_parsing.py, services/csv_import.py                   *)
ReturnKeepsAmounts ==
    /\ topic = "return" => KeepsAmounts(case.form, case.status)
    /\ topic = "csv" => CsvMatchesForm(case)

(* When two people file separately, what each of them has is in one of the *)
(* returns, and so is what the guard looks at; one person who files alone  *)
(* has all of the household.  engine/whatif.py _run_mfs_household          *)
SplitKeepsPersons ==
    topic = "return" => \A base \in Splits(case.form, case.status) :
        KeepsPersons(JointInputs(base), SeparateInputs(base))

(* No income, deduction, payment or dependent of the household is counted  *)
(* for both spouses: the comparison "cannot safely allocate" them, says    *)
(* the error of its guard.  engine/whatif.py _has_unallocated_household_fields *)
HouseholdCountedOnce ==
    topic = "return" => \A base \in Splits(case.form, case.status) :
        CountsOnce(JointInputs(base), SeparateInputs(base))
=============================================================================
