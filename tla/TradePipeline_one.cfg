SPECIFICATION LiveSpec
CONSTANTS
  Symbols = {btc}
  Capacity = 2
  BatchLimit = 2
  MaxTrade = 6
  None = None
INVARIANTS
  TypeOK
  LossesCounted
  StopLossBounded
  NoCopies
PROPERTIES
  TradesSettle
  StopReturns
