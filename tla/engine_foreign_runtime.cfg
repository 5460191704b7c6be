SPECIFICATION SerialSpec
CONSTANTS
  main = main
  t1 = t1
  t2 = t2
  t3 = t3
  Main = main
  Threads <- TwoThreads
  NoAbort = FALSE
  Failures <- NoFailures
PROPERTIES
  SafeShutDown
