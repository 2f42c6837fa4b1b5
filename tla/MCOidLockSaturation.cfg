CONSTANTS
  c1 = c1
  c2 = c2
  c3 = c3
  Clients <- TwoClients
  Ids = {0}
  Writer = 2
  SpuriousFailure = FALSE
SPECIFICATION Spec
INVARIANT ReaderNeverSeesWriter
