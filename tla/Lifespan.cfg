SPECIFICATION Spec
CONSTANTS
  Requests = {r1, r2}
  MaxAttempts = 2
INVARIANTS
  TypeOK
  LetGoInOrder
PROPERTIES
  RequestsAnswered
