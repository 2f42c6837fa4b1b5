\* x86: compare_exchange_weak is a lock cmpxchg and fails only on a changed word.
CONSTANTS
  c1 = c1
  c2 = c2
  c3 = c3
  Clients <- ThreeClients
  Ids = {0}
  Writer = 2
  SpuriousFailure = FALSE
SPECIFICATION FairSpec
PROPERTY UpgradeErrMeansReader
PROPERTY BlockedOnlyByNewCalls
