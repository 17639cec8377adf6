SPECIFICATION LiveSpec
CONSTANTS
  Consumers = {c1, c2}
  None = None
  Poison = {2}
  Binary = {}
  Count = 2
  MaxLen = 2
  MaxEntry = 3
  MaxFailures = 1
INVARIANTS
  TypeOK
  NothingForgotten
PROPERTIES
  MessagesSettle
