SPECIFICATION FreeWeakSpec
CONSTANTS
  WeakObjects = {o1, o2}
  Cells = {c1, c2}
  NoTarget = NoTarget
  NoCell = NoCell
  MaxLocals = 1
CHECK_DEADLOCK FALSE
INVARIANTS
  NextStaysListed
