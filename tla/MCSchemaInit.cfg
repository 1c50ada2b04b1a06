\* Two callers, two legacy rows and one saved meanwhile, up to two deaths inside init_db.
SPECIFICATION Spec
CONSTANTS
  Procs = {p1, p2}
  NumRows = 2
  MaxRows = 3
  MaxCrashes = 2
SYMMETRY Symmetry
INVARIANTS TypeOK SafeWithoutDeaths VersionsTruthful
PROPERTY OrderNeverRedone
