CONSTANTS
  None = None
  Clients = {c1, c2}
  Rids = {r1, r2}
  Fields <- KeyOnly
  Cached <- KeyOnly
  Values = {1, 2}
  Queries <- KeyQuery
  KeyField = "key"
  Cap = 1
  ProbeLen = 1
  BufLen = 1
SPECIFICATION TableFairSpec
INVARIANTS FoundHasKey InsertedIsFound
PROPERTY TableCallsReturn
