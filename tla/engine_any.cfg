SPECIFICATION Spec
CONSTANTS
  main = main
  t1 = t1
  t2 = t2
  t3 = t3
  Main = main
  Threads <- ThreeThreads
  NoAbort = FALSE
  Failures <- AllFailures
INVARIANTS
  TypeOK
  CountAgrees
  FirstRuntimeAlone
PROPERTIES
  InitThenRuntimes
  NeverReassigned
  EnsureAssigns
