SPECIFICATION Spec
CONSTANTS
  Symbols = {btc, eth}
  MaxId = 3
  Prices = {1, 2, 3}
  Depth = 1
  MaxBuffered = 2
  None = None
  Market <- MCMarket
  Listed <- MCListedBest
INVARIANTS
  NoOrphanedBook
  NoResyncOfSyncedBook
  IndInv
PROPERTIES
  StoppedForGood
