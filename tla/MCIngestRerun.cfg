SPECIFICATION Spec
CONSTANTS
  Documents <- MCOne
  Editions <- MCChanged
  Caps <- MCUncapped
INVARIANT
  SafeToRerun
