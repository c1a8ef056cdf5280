SPECIFICATION Spec
CONSTANTS
  MaxBoundaries = 3
  Width = 2
  Prompts = {"ask", "confirm"}
INVARIANTS BatchesPostedInOrder ContextMatchesEngine PromptShownOnce
PROPERTIES NothingBegunAfterInterrupt LoopEnds UsesConversation
CHECK_DEADLOCK FALSE
