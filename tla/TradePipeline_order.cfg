SPECIFICATION Spec
CONSTANTS
  Symbols = {btc}
  Capacity = 2
  BatchLimit = 1
  MaxTrade = 4
  None = None
PROPERTIES
  OldestDropped
