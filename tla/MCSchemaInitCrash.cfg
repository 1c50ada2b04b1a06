\* One caller that may die once: the shortest way to a half migrated store.
SPECIFICATION Spec
CONSTANTS
  Procs = {p1}
  NumRows = 2
  MaxRows = 3
  MaxCrashes = 1
INVARIANT SafeOnEveryStartup
