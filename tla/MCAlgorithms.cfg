SPECIFICATION Spec
CONSTANTS
  Numeral <- MCNumeral
  MaxIndexedEntries = 3
  MaxMoney = 4
  CONSTANT_STATUSES = {"single", "mfj"}
INVARIANTS
  FormulasAreArithmetic
  TablesGiveTheirRates
  RuleFormKeepsRows
  ReturnKeepsAmounts
  SplitKeepsPersons
CHECK_DEADLOCK FALSE
