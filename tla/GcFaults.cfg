SPECIFICATION Spec
CONSTANTS
  Lbas = {x1}
  Lines = {l1, l2, l3}
  SecPerLine = 2
  Cap = 1
  MaxWrite = 2
  LineQd = 2
  Need = 2
  Discards = FALSE
  Reads = FALSE
  Faults = 1
  NoLba = NoLba
  None = None
SYMMETRY Symm
VIEW Rotated
CONSTRAINT NoSlips
INVARIANTS InflightBounded CacheLive
CHECK_DEADLOCK FALSE
