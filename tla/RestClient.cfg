SPECIFICATION Spec
CONSTANTS
  Callers = {btc, eth, sol}
  Window = 6
  Interval = 2
  Weight = 2
  Limits = {1, 4}
  RetryAfters = {None, 0, 9}
  RetryCap = 3
  RetryDefault = 2
  None = None
INVARIANTS
  TypeOK
  WithinBudget
PROPERTIES
  Polite
  CallersAreServed
