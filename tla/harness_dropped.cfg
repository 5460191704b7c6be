SPECIFICATION HarnessSpec
CONSTANTS
  a = a
  b = b
  empty = empty
  t1 = t1
  t2 = t2
  t3 = t3
  typo = typo
  Files <- MCFiles
  Names <- MCNames
  Registered <- MCRegistered
  fileOf <- MCfileOf
  MaxArgs = 4
  ExitCodes = 256
INVARIANT
  NoRequestDropped
