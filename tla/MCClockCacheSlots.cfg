CONSTANTS
  c1 = c1
  c2 = c2
  c3 = c3
  r1 = r1
  r2 = r2
  r3 = r3
  None = None
  Clients <- ThreeClients
  Rids <- ThreeRids
  Fields <- HotField
  Cached <- HotField
  Values = {0}
  Queries <- HotQuery
  Cap = 2
  ProbeLen = 1
SPECIFICATION Spec
INVARIANTS IndInv UnlockedIsIndexed QueryStaysValid OneSlotPerRecord
SYMMETRY Symmetry
