SPECIFICATION Spec
CONSTANTS
  Visits = {"draft"}
  Site <- MCSite
  Input <- MCInput
  Declared = {}
  Foreground = {}
  MaxAttempts = 3
INVARIANTS DoneMeansAgentCompleted
CHECK_DEADLOCK FALSE
