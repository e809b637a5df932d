SPECIFICATION Spec
CONSTANTS
  Rings = {u, g}
  GcRing = g
  Lines = {l1, l2, l3, l4, l5}
  Blks = 2
  Pages = 4
  MaxPages = 1
  Metas = 2
  Slots = 4
  Cap = 0
  MaxPuts = 1
  MaxBad = 0
  None = None
VIEW Roles
INVARIANT StoredSafely
CHECK_DEADLOCK FALSE
