SPECIFICATION Spec
CONSTANTS
  a = a
  b = b
  TypeOf <- MCTypeOf
  PoolOf <- MCPoolOf
  MaxCrashes = 2
  MaxEdits = 1
INVARIANTS
  DecisionsStand
  GoldenSound
  NothingLeftAside
