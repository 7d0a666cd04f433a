CONSTANTS
  Tolerance = 2
  Res = 2
  MaxTruth = 12
  Start = 6
  Skews <- MCSkews
  Life = 2
  Gap = 1
  Lag = 1
  Files <- MCFiles
  NoFile <- MCNoFile
  FileTolerance = 1
  FileStart = 4
  FileSkews = {0, 2}
  MaxInst = 2
  MaxTime = 7
  Skew = 2
  Online = 3
  Offline = 4
  SessionLife = 2
  RefreshMin = 1
  RefreshMax = 2
  OfflineRefreshMin = 2
  OfflineRefreshMax = 2
  CredentialLife = 3
  Disorder = 3
  MaxKey = 2
SPECIFICATION TimeSpec
INVARIANTS TypesOK ClockIsSound OfflineIsFinal GrantIsSound
CHECK_DEADLOCK FALSE
