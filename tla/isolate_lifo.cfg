SPECIFICATION LifoSpec
CONSTANTS
  t1 = t1
  t2 = t2
  a = a
  b = b
  c = c
  Null = Null
  Threads <- TwoThreads
  Isolates <- ThreeIsolates
  NoAbort = FALSE
  MaxEntries = 2
  MaxErrors = 1
INVARIANTS
  HistoryInv
  NeverUndefined
  NoStaleEntry
PROPERTIES
  ImplementsThreadStacks
SYMMETRY Symmetry
