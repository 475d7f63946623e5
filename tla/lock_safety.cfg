SPECIFICATION Spec
CONSTANTS
  w1 = w1
  w2 = w2
  w3 = w3
  ta = ta
  tb = tb
  Worker = {w1, w2, w3}
  Token = {ta, tb}
  TokenOf <- MCSiblings
  Skew <- MCSkew
  Lease = {l1, l2}
  LockTimeout = 2
  RequestTimeout = 1
  MaxElapsed = 0
  MaxInterval = 1
  AgeCap = 3
  MaxLate = 1
  NoLock = NoLock
  NoLease = NoLease
  NoHold = NoHold
SYMMETRY SiblingSymmetry
INVARIANTS
  TypeOK
  MutexUnlessLost
  HoldIsBacked

  
