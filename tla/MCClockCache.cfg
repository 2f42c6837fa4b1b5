CONSTANTS
  c1 = c1
  c2 = c2
  c3 = c3
  r1 = r1
  r2 = r2
  r3 = r3
  None = None
  Clients <- TwoClients
  Rids <- TwoRids
  Fields <- TwoFields
  Cached <- HotField
  Values = {0, 1}
  Queries <- TwoQueries
  Cap = 1
  ProbeLen = 2
SPECIFICATION Spec
INVARIANTS QueryIsSatisfied NoLostUpdate
PROPERTY ImplementsRecordStore
SYMMETRY Symmetry
