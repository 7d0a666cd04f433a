CONSTANTS
  t1 = t1
  Tasks = {t1}
  Worker = Worker
  NoThread = NoThread
  MaxSessions = 2
  MaxSequence = 2
  Closes = FALSE
SPECIFICATION Spec
PROPERTY EndedStaysEnded
CHECK_DEADLOCK FALSE
