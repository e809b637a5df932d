SPECIFICATION Spec
CONSTANTS
  Lbas = {x1}
  Lines = {l1, l2, l3}
  SecPerLine = 2
  Cap = 1
  MaxWrite = 2
  LineQd = 1
  Need = 2
  Discards = FALSE
  Reads = FALSE
  Faults = 0
  NoLba = NoLba
  None = None
SYMMETRY Symm
VIEW Rotated
INVARIANT NoFreedData
CHECK_DEADLOCK FALSE
