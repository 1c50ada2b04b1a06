CONSTANTS
  p1 = p1
  p2 = p2
  fed = fed
  ny = ny
  ak = ak
  a = a
  b = b
  r = r
  q = q
  c = c
  Absent = Absent
  None = None
  Torn = Torn
  Standard = Standard
  Procs <- MCProcs
  Places <- MCPlaces
  Shipped <- MCShipped
  Federal <- MCFederal
  YearOf <- MCYearOf
  Packs <- MCPacks
  Rules <- MCRules
  Consts <- MCConsts
  Refs <- MCRefs
  Lookups <- MCLookups
  StdEntries <- MCStdEntries
  MaxNumber = 2
SPECIFICATION MCSpec
INVARIANTS
  StartsUp
CHECK_DEADLOCK FALSE
