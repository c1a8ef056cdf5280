SPECIFICATION Spec
CONSTANTS
  MaxRequests = 4
  MaxTraces = 2
INVARIANT ResultIsWhole
PROPERTIES DeathSettlesPromises ImplementsConversation
CHECK_DEADLOCK FALSE
