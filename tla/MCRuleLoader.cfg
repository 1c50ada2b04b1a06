\* Every choice of fifteen references among five rules.
\* The loader stops: it returns a pack or raises.
SPECIFICATION FairSpec
CHECK_DEADLOCK FALSE
CONSTANTS
  Rules = {1, 2, 3, 4, 5}
  Unknown = 9
  MayRef <- MCMayRef
INVARIANTS TypeOK ReadyIsRight LoadVerdict
PROPERTIES OrderIsLeast LoadEnds
