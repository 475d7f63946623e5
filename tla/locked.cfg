SPECIFICATION SystemSpec
CONSTANTS
  w1 = w1
  w2 = w2
  Worker = {w1, w2}
  Token = {w1, w2}
  TokenOf <- MCOwnProcess
  Skew <- MCNoSkew
  Lease = {l1, l2}
  LockTimeout = 1
  RequestTimeout = 2
  MaxElapsed = 0
  MaxInterval = 1
  AgeCap = 2
  MaxLate = 0
  NoLock = NoLock
  NoLease = NoLease
  NoHold = NoHold
  Value = {v1}
  None = None
  MaxLateWrite = 1
SYMMETRY SystemSymmetry
INVARIANTS
  SystemTypeOK
  ViewHolds
PROPERTY YoungOnReturn
