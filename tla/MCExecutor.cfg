\* Radix = 4 scales the u8 down: N = 3 is the largest count it can hold, as 255
\* is for the code.
CONSTANTS
  t1 = t1
  t2 = t2
  t3 = t3
  None = None
  Tasks <- ThreeTasks
  N = 3
  Radix = 4
  MaxPolls = 2
SPECIFICATION FairSpec
INVARIANT Counted
PROPERTIES ReturnsEveryOutput FullQueueReturns
CHECK_DEADLOCK FALSE
