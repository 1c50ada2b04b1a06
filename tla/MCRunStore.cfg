\* Two processes, three runs, room for four chain positions, so that a deleted
\* run can be imported again behind later ones.
SPECIFICATION MCSpec
CONSTANTS
  Clients = {c1, c2}
  Ids = {i1, i2, i3}
  Bodies = {b1}
  Notes = {n0, n1}
  NoNotes = n0
  Corrupt = corrupt
  NoHash = nohash
  NoClient = noclient
  Absent = absent
  MaxSeq = 4
INVARIANTS TypeOK ChainIntact NoFork StoreInv
PROPERTIES ChainOnlyRelinked ImplementsLedger RequestsEnd
