SPECIFICATION Spec
CONSTANTS
  MaxAttempts = 2
  Clients = {c1, c2, c3}
  None = None
INVARIANTS
  TypeOK
  ClientsBounded
PROPERTIES
  InsertsAccounted
  CallsEnd
  EngineGoesOn
