SPECIFICATION FairSpec
CONSTANTS
  main = main
  t1 = t1
  t2 = t2
  t3 = t3
  Main = main
  Threads <- ThreeThreads
  NoAbort = TRUE
  Failures <- AllFailures
PROPERTIES
  CallsReturn
