CONSTANTS
  t1 = t1
  t2 = t2
  rows = rows
  pages = pages
  None = None
  Threads <- TwoThreads
  Records = 2
  N = 2
  Slack = 1
  Owners <- RowsAndPages
  Whole <- WholePages
  Rows = rows
  Addrs = {1, 2}
  MaxFiles = 3
SYMMETRY Symmetry
SPECIFICATION TSpec
INVARIANTS OnePlace NoneLost RecordsFit RowsInFrame FramesTracked MappedIsUsed
