\* The log may simply end: MaxLog bounds the bytes, and the thread is stopped.
CONSTANTS
  w1 = w1
  w2 = w2
  None = None
  Writers <- TwoWriters
  Sizes = {1, 2}
  B = 2
  MaxLog = 7
SPECIFICATION FairSpec
INVARIANTS FlushedBehind FileExact
PROPERTY FullIsFlushed
CHECK_DEADLOCK FALSE
