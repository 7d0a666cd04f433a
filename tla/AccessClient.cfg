CONSTANTS
  t1 = t1
  t2 = t2
  k1 = k1
  k2 = k2
  Threads = {t1, t2}
  NoThread = NoThread
  LicenceKeys = {k1, k2}
  NoKey = NoKey
  MaxGeneration = 3
SYMMETRY Symmetry
SPECIFICATION Spec
INVARIANTS
  TypeOK
  VersionInSync
  AccessIsBacked
  RecordIsValid
  LogoutIsFinal
  NoLostActivation
  RestartGainsNothing
