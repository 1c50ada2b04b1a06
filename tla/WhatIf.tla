------------------------------- MODULE WhatIf -------------------------------
(***************************************************************************)
(* The what-if comparison of app/engine/whatif.py: the same household      *)
(* filing jointly or separately.  Filing separately is run as one return   *)
(* per taxpayer, each with a copy of everything the household has, so a    *)
(* guard refuses a household of two with amounts it could not divide.      *)
(***************************************************************************)
EXTENDS ReturnForm

(* Mutant: the estimated payments are not looked at.                       *)
PaymentsOverlooked(inp) ==
    \/ inp.amount["other_income"] # 0
    \/ inp.count["qualifying_children"] # 0
    \/ inp.amount["adjustments"] # 0
    \/ inp.amount["itemized"] # 0

_has_unallocated_household_fields(inp) ==
    \/ inp.amount["other_income"] # 0
    \/ inp.amount["estimated_payments"] # 0
    \/ inp.count["qualifying_children"] # 0
    \/ inp.amount["adjustments"] # 0
    \/ inp.amount["itemized"] # 0

(* The separate returns, or the refusal to make them.                      *)
RefusesSplit(base) ==
    \/ base.taxpayers = {}
    \/ Cardinality(base.taxpayers) > 1 /\ _has_unallocated_household_fields(base)

_run_mfs_household(base) ==
    [t \in base.taxpayers |-> [base EXCEPT !.filing_status = "mfs", !.taxpayers = {t}]]

(* What the rules of the joint run and of each separate run refer to.      *)
JointInputs(base) == _resolve_inputs([base EXCEPT !.filing_status = "mfj"])

SeparateInputs(base) ==
    [t \in base.taxpayers |-> _resolve_inputs(_run_mfs_household(base)[t])]

-----------------------------------------------------------------------------
(* What comes from the records of the taxpayers themselves.                *)
PersonInputs ==
    {"wages", "medicare_wages", "medicare_withheld", "interest", "ordinary", "qualified",
     "net_gain", "long_term_gain", "short_term_gain", "withholding", "compensation",
     "earned_primary", "earned_spouse", "age_blind_boxes", "seniors", "blind", "combat_pay",
     "officer_combat_pay", "officer_combat_months", "moving_expenses", "reservist_travel"}

(* What the household has and the guard looks at.                          *)
Guarded == {"other_income", "estimated_payments", "qualifying_children", "adjustments", "itemized"}

(* "household-level income, deductions, payments, or dependent counts":    *)
(* what the error of the guard says is not split between the spouses.      *)
NotAllocated == Guarded \cup {"other_dependents", "dependents"}

AddsUp(joint, apart, ref) == SumFunction([t \in DOMAIN apart |-> apart[t][ref]]) = joint[ref]

(* The returns of a split that is not refused.                             *)
Splits(fd, status) ==
    {base \in {parse_tax_input_from_form(fd, status)} : ~ Refused(fd, status) /\ ~ RefusesSplit(base)}

(* What comes from the taxpayers' records adds up over the separate        *)
(* returns to the joint return: Box 5 with its fallback, gains by their    *)
(* term, what belongs to the primary or the spouse, boxes and months.  So  *)
(* does what the guard looks at, and everything when one person files.     *)
KeepsPersons(joint, apart) ==
    \A ref \in DOMAIN joint :
        ref \in PersonInputs \cup Guarded \/ Cardinality(DOMAIN apart) = 1 =>
            AddsUp(joint, apart, ref)

(* Nothing that is not to be split is in the return of each spouse.        *)
CountsOnce(joint, apart) == \A ref \in NotAllocated : AddsUp(joint, apart, ref)
=============================================================================
