SPECIFICATION Spec
CONSTANTS
  Lbas = {x1}
  Lines = {l1, l2, l3}
  SecPerLine = 4
  Cap = 2
  MaxWrite = 2
  LineQd = 1
  Need = 2
  Discards = TRUE
  Reads = FALSE
  Faults = 0
  NoLba = NoLba
  None = None
SYMMETRY Symm
VIEW Rotated
CONSTRAINT NoSlips
INVARIANTS TypeOK MapNewest TargetExact 
CHECK_DEADLOCK FALSE
