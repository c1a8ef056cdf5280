SPECIFICATION Spec
CONSTANTS
  Agents = {"scout", "writer"}
  Resumable = {"writer"}
  Callers = {"c1", "c2"}
INVARIANT NoAbandonedRecord
PROPERTIES
  OneShotWaitEndsWithVerdict SteeredSessionIsPrompted
  InterruptTakesEffect ImplementsLifecycle
