SPECIFICATION Spec
CONSTANTS
  Visits = {"draft"}
  Site <- MCSite
  Input <- MCInput
  Declared = {"draft"}
  Foreground = {"draft"}
  MaxAttempts = 3
INVARIANTS NoDuplicateWork
CHECK_DEADLOCK FALSE
