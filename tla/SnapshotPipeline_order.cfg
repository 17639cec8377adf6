SPECIFICATION Spec
CONSTANTS
  Symbols = {btc}
  Capacity = 1
  BatchLimit = 1
  MaxSnapshot = 3
PROPERTIES
  OldestEvicted
