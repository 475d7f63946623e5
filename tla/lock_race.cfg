SPECIFICATION Spec
CONSTANTS
  w1 = w1
  w2 = w2
  w3 = w3
  ta = ta
  tb = tb
  Worker = {w1, w2}
  Token = {ta, tb}
  TokenOf <- MCTokenOf
  Skew <- MCNoSkew
  Lease = {l1, l2}
  LockTimeout = 2
  RequestTimeout = 2
  MaxElapsed = 1
  MaxInterval = 1
  AgeCap = 2
  MaxLate = 1
  NoLock = NoLock
  NoLease = NoLease
  NoHold = NoHold
INVARIANT MutualExclusion
