SPECIFICATION Spec
CONSTANTS
  a = a
  b = b
  TypeOf <- MCTypeOf
  PoolOf <- MCPoolOf
  MaxCrashes = 0
  MaxEdits = 0
INVARIANT DroppedStaysOut
