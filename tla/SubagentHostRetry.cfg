SPECIFICATION Spec
CONSTANTS
  Visits = {"draft"}
  Site <- MCSite
  Input <- MCInput
  Declared = {"draft"}
  Foreground = {}
  MaxAttempts = 3
INVARIANTS OnlyExposedVisitsDuplicated
PROPERTIES CompletedNotReopened InterruptEndsRuns
CHECK_DEADLOCK FALSE
