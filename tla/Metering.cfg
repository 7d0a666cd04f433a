CONSTANTS
  LastAttempt = 1
  Callers = {c1, c2}
  OpTimeout = 1
  AttemptTimeout = 1
  CleanupTimeout = 1
  Delays = {0}
  Service = TRUE
  Ops = {release, acquire, consume}
  NoOp = NoOp
  Releases = {release}
  Debits = {consume}
CONSTRAINTS OneAtATime OneJob
SYMMETRY Symmetry
SPECIFICATION MeterSpec
INVARIANTS JobCountedOnce OutcomeIsTrue
CHECK_DEADLOCK FALSE
