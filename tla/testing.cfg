SPECIFICATION TestingSpec
CONSTANTS
  a = a
  b = b
  c = c
  empty = empty
  t1 = t1
  t2 = t2
  t3 = t3
  typo = typo
  Files <- MCFiles
  Names <- MCNames
  Registered <- MCRegistered
  fileOf <- MCfileOf
  MaxArgs = 4
  ExitCodes = 256
  Me = Me
  Null = Null
  Threads <- OneThread
  Isolates <- ThreeIsolates
  NoAbort = FALSE
  MaxEntries = 2
  MaxErrors = 1
INVARIANTS
  PrecedenceHolds
  RequestsBacked
  ChildrenOnlyLeave
  ResultIsKnown
  ZeroMeansPassed
  ReportIsTrue
  CleanupDeletes
PROPERTIES
  RunEnds
  CleanupEnds
