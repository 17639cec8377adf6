SPECIFICATION HealthLiveSpec
CONSTANTS
  Symbols = {btc}
  MaxId = 3
  Prices = {1, 2, 3}
  Depth = 1
  MaxBuffered = 1
  None = None
  Market <- MCMarket
  Listed <- MCListedAll
  Writers = {writer}
INVARIANTS
  HealthTypeOK
  HealthyUntilClosed
  AlarmsAreTrue
  FetchTroubleEnds
PROPERTIES
  LossIsReported
  AlarmsStand
