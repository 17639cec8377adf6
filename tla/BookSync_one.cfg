SPECIFICATION LiveSpec
CONSTANTS
  Symbols = {btc}
  MaxId = 6
  Prices = {1, 2, 3}
  Depth = 1
  MaxBuffered = 3
  None = None
  Market <- MCMarket
  Listed <- MCListedAll
INVARIANTS
  BookFaithful
  PublishedTopOfBook
PROPERTIES
  KeepsFeed
  SyncCompletes
  StopReturns
