CONSTANTS
  t1 = t1
  Tasks = {t1}
  Worker = Worker
  NoThread = NoThread
  MaxSessions = 1
  MaxSequence = 2
  Closes = TRUE
SPECIFICATION LiveSpec
PROPERTIES
  NoStartAfterClose
  CloseCompletes
  CallsReturn
CHECK_DEADLOCK FALSE
