CONSTANTS
  NTasks = 2
  NWarehouses = 2
  NDistricts = 1
  NCustomers = 1
  NItems = 2
  OlCnt = {2}
  Quantities = {2}
  MinStock = 2
  Refill = 3
  LoadedStock = 3
  LoadedDone = 0
  c_discount <- Discounts
  MaxDiscount = 2
  RecentOrders = 2
  Radix = 3
  RidBuffer = 3
  LineBuffer = 3
  MaxRetry = 2
  MaxTxns <- Starts
  IterationEnds <- Ends
SPECIFICATION FairSpec
INVARIANTS OrdersComplete StockAccounts StockInRange TotalsExplained CreditedOnce PanicsExplained
PROPERTY TxnsEnd
CHECK_DEADLOCK FALSE
