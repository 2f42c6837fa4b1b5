\* Two readers already make the lock byte read as write-locked (Writer = 2),
\* so the saturated count is reached with three clients.
CONSTANTS
  c1 = c1
  c2 = c2
  c3 = c3
  Clients <- ThreeClients
  Ids = {0, 1}
  Writer = 2
  SpuriousFailure = TRUE
SPECIFICATION Spec
INVARIANTS MutualExclusion LockByteExact IndInv
SYMMETRY ClientSymmetry
PROPERTY ImplementsRwLock
