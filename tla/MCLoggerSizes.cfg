CONSTANTS
  w1 = w1
  w2 = w2
  None = None
  Writers <- TwoWriters
  Sizes = {2, 3}
  B = 4
  MaxLog = 8
SPECIFICATION Spec
INVARIANT SliceInBuffer
CHECK_DEADLOCK FALSE
