SPECIFICATION Spec
CONSTANTS
  Keys = {k1, k2}
  MaxCalls = 4
  MaxErrors = 1
  MaxCrashes = 1
CHECK_DEADLOCK FALSE
PROPERTIES
  EveryCallSettles
  ImplementsAtomicStore
