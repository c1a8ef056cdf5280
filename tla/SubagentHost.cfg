SPECIFICATION Spec
CONSTANTS
  Visits = {"draft", "fix"}
  Site <- MCSite
  Input <- MCInput
  Declared = {"draft"}
  Foreground = {"fix"}
  MaxAttempts = 2
INVARIANTS TypeOK OutputFromOwnVisit DeclaredOutputsProduced
CHECK_DEADLOCK FALSE
