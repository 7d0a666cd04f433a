CONSTANTS
  p1 = p1
  p2 = p2
  Procs = {p1, p2}
  NoProc = NoProc
  MaxRecords = 2
SYMMETRY Symmetry
SPECIFICATION Spec
PROPERTY SecondProcessInUse
