SPECIFICATION LibrarySpec
CONSTANTS
  PlatformObjects = {a1, a2, a3}
  NativeHandles = {b1, b2}
  NullHandle = NullHandle
  LockThreads = {b1, b2}
  LockIsolates = {1, 2}
  Nobody = Nobody
  MaxScopes = 3
  HandleObjects = {b1, b2}
  SmartPtrs = {s1}
  NoObject = NoObject
  SlabSize = 2
  MaxHandles = 5
  MaxOpen = 3
  WeakObjects = {b1, b2}
  Cells = {a1, a2, a3}
  NoTarget = NoTarget
  NoCell = NoCell
  MaxLocals = 1
  RootIsolates = {b1, b2}
  RootRuntimes = {r1, r2}
  RootData = {d1, d2, d3, d4}
  Elems = {a1, a2, a3}
  Pointers = {q1, q2, q3}
  NoElem = NoElem
  MaxStores = 2
  Small = 4
  Doubles <- MCDoubles
  Slots = {b1, b2}
  CodeUnits <- MCCodeUnits
  MaxBytes = 4
  StringPlaces = {a1, a2, a3}
  Arrays = {c1, c2, c3}
  NoArray = NoArray
  ByteTexts <- MCByteTexts
  WideTexts <- MCWideTexts
  Garbage = Garbage
SYMMETRY LibrarySymmetry
CHECK_DEADLOCK FALSE
INVARIANTS
  HandlesOwnedOnce
  LockedMeansOwner
  OwnershipFollowsScopes
  NoDeadlock
  AccountsAgree
  WeakBooksAgree
  PresentIfReferenced
  RegistryAgrees
  ListKeepsBooks
  ConversionsRight
  ComparisonsAgree
  DecodesUnicode
  EncodersKeepText
  StringsKeepText
PROPERTIES
  ImplementsHandleStack
  WeakClearedByCollection
