CONSTANTS
  Threads = {t1, t2}
  NoThread = NoThread
  Customers = {alice, bob}
  Key = Key
  NoOne = NoOne
  MaxSessions = 2
  MaxGen = 5
  d1 = d1
  d2 = d2
  d3 = d3
  Absent = Absent
  Other = Other
SYMMETRY Symmetry
SPECIFICATION ServicesSpec
INVARIANTS TypesOK AccountIsSafe DownloadIsSafe
PROPERTY NothingStale
CHECK_DEADLOCK FALSE
