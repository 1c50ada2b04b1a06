\* Every way two states' packs and a federal one can refer to each other.
\* The engine stops: it returns a run or raises.
SPECIFICATION FairSpec
CHECK_DEADLOCK FALSE
CONSTANTS
  f1 = f1
  f2 = f2
  f3 = f3
  s1 = s1
  s2 = s2
  Rules = {f1, f2, f3, s1, s2}
  NumStates = 2
  PackOf <- MCPackOf
  MayRef <- MCMayRef
  Headlines = {f1}
INVARIANTS TypeOK TracedOnce OperandsFirst ResidenceLast VerdictIsRight
PROPERTY EveryRunEnds
