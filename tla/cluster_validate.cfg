SPECIFICATION Spec
CONSTANTS
  Obj = {o1, o2, o3}
  Svc = {s1, s2}
  Parser = {p1, p2}
  Option <- MCOption
  Nil = Nil
INVARIANT ValidatedBeforeUse
