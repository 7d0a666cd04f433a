CONSTANTS
  Procs = {p1, p2, p3}
  Creds = {c1, c2}
  NoCred = NoCred
  NoProc = NoProc
  MaxGen = 2
  Machines = {"m1", "none"}
  MaxLosses = 2
SPECIFICATION StoresSpec
INVARIANTS TypesOK HeldAlone WrittenStays
PROPERTY Refines
CHECK_DEADLOCK FALSE
