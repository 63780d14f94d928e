CONSTANTS
  Tokens = {t1}
  Wallets = {w1, w2}
  Zero = Zero
  Invocations = {i1, i2}
  Depth = 1
  TailRange = 2
  Timeout = 1
  Staleness = 2
  MaxBlock = 4
  MaxReorgs = 1
  MaxFaults = 2
  None = None
SPECIFICATION FairSpec
INVARIANTS HistoryIsTheChains OwnersAreTheChains TransfersAreTheChains
PROPERTIES KeepsPromise CatchesUp
CHECK_DEADLOCK FALSE
