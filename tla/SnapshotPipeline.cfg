SPECIFICATION LiveSpec
CONSTANTS
  Symbols = {btc, eth}
  Capacity = 2
  BatchLimit = 2
  MaxSnapshot = 3
INVARIANTS
  TypeOK
  NoCopies
PROPERTIES
  EmptiesOnlyByStoring
  SnapshotsSettle
