SPECIFICATION Spec
CONSTANTS
  NQueries = 5
  NoQuery <- None
  Scripts <- MCScripts
  MaxAsked = 1
  MaxGiven = 2
  Setups <- PromptOnly
INVARIANTS
  WithinInstructions
CHECK_DEADLOCK FALSE
