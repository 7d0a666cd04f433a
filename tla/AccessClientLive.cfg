CONSTANTS
  t1 = t1
  t2 = t2
  k1 = k1
  Threads = {t1, t2}
  NoThread = NoThread
  LicenceKeys = {k1}
  NoKey = NoKey
  MaxGeneration = 1
SPECIFICATION FairSpec
PROPERTIES
  EveryCallReturns
  CloseCompletes
