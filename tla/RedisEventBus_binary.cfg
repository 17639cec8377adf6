SPECIFICATION LiveSpec
CONSTANTS
  Consumers = {c1}
  None = None
  Poison = {2}
  Binary = {2}
  Count = 2
  MaxLen = 2
  MaxEntry = 2
  MaxFailures = 0
PROPERTIES
  MessagesSettle
