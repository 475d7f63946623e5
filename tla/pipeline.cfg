SPECIFICATION Spec
CONSTANTS
  N = 5
  M = 3
  MaxTries = 2
  Reading = {3}
  MaxLate = 2
INVARIANTS
  TypeOK
  LeftBehind
  EffectsInOrder
  ReadsSeeWrites
PROPERTY StepsRunDown
