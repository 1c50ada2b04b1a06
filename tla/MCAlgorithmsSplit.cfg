SPECIFICATION Spec
CONSTANTS
  Numeral <- MCNumeral
  MaxIndexedEntries = 3
  MaxMoney = 4
  CONSTANT_STATUSES = {"single", "mfj"}
INVARIANT
  HouseholdCountedOnce
CHECK_DEADLOCK FALSE
