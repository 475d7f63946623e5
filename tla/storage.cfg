SPECIFICATION Spec
CONSTANTS
  dir = dir
  fa = fa
  fb = fb
  v1 = v1
  v2 = v2
  h1 = h1
  h2 = h2
  Client = {c1, c2}
  Name = {dir, fa, fb}
  Stored = {fa, fb}
  Below <- MCBelow
  Value = {v1, v2}
  Digest = {h1, h2}
  Hash <- MCHash
  Size <- MCSize
  None = None
  MaxLate = 1
INVARIANTS
  TypeOK
  Agreement
PROPERTIES
  AlarmOnlyWhenStale
  Linearizable
