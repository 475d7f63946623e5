SPECIFICATION ProgressSpec
CONSTANTS
  w1 = w1
  w2 = w2
  w3 = w3
  ta = ta
  tb = tb
  Worker = {w1, w2}
  Token = {ta, tb}
  TokenOf <- MCTokenOf
  Skew <- MCNoSkew
  Lease = {l1, l2}
  LockTimeout = 1
  RequestTimeout = 1
  MaxElapsed = 1
  MaxInterval = 2
  AgeCap = 1
  MaxLate = 0
  NoLock = NoLock
  NoLease = NoLease
  NoHold = NoHold
PROPERTIES
  CallsReturn
  CallsRunDown
  OrphansRunOut
  StaleLockTaken
