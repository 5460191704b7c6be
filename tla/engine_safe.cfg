SPECIFICATION SafeSpec
CONSTANTS
  main = main
  t1 = t1
  t2 = t2
  t3 = t3
  Main = main
  Threads <- FourThreads
  NoAbort = FALSE
  Failures <- NoFailures
INVARIANTS
  NeverAborts
  ExitClean
PROPERTIES
  ImplementsLifecycle
