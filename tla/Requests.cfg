CONSTANTS
  LastAttempt = 2
  Callers = {c1}
  OpTimeout = 7
  AttemptTimeout = 2
  CleanupTimeout = 1
  Delays = {0, 1, 4}
  Service = FALSE
  Operators = {o1, o2}
  l1 = l1
  l2 = l2
SPECIFICATION RequestsSpec
INVARIANTS TypesOK SentSafely CommandsAreSafe
PROPERTY CallsEnd
CHECK_DEADLOCK FALSE
