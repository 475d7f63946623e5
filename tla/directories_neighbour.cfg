SPECIFICATION Spec
CONSTANTS
  KeySeq <- MCKeySeq
  LockName <- MCLockName
  Query <- MCQuery
  Longer <- MCLonger
  RootPrefix = FALSE
  Neighbour <- MCNeighbour
  MaxSize = 1
  MaxTime = 2
INVARIANT ListStaysInNamespace
