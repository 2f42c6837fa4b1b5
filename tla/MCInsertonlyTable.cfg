CONSTANTS
  Threads = {t1, t2}
  Cap = 3
  PageSize = 10
  TupleSize = 3
  TableCap = 10
SPECIFICATION TableSpec
INVARIANTS IndInv TuplesKept RunsOutLate
PROPERTIES ImplementsAllocator AllocReturns
