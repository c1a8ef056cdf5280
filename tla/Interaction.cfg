SPECIFICATION Spec
CONSTANTS
  Prompts = {h1, h2, a1}
  HumanTasks = {h1, h2}
  Direct = {h1}
  MaxRuns = 2
  Agents = {n1, n2, n3}
  Keyed = {n1, n2}
  Asks = {q1, q2}
  Sessions = {s1}
  NoAsk = NoAsk
  Anyone = Anyone
  Timeout = 0
  Calls = {c1, c2}
  Redeliveries = 1
  StoreErrors = 1
  Restarts = 1
  MaxTime = 2
  Deliveries = 2
  LastTick = 2
CHECK_DEADLOCK FALSE
INVARIANTS
  OutputsAreLegitimate
  EnvironmentRestored
  AsksAreTracked
PROPERTIES
  StopEndsRun
  EveryPromptSettles
  EscapeReachesPrompt
  AnswerNotLost
