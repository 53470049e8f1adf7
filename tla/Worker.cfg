SPECIFICATION FairSpec
CONSTANTS
  NQueries = 5
  NoQuery <- None
  Scripts <- MCScripts
  MaxAsked = 1
  MaxGiven = 2
  Setups <- Both
INVARIANTS
  TypeOK
  InstructionsInOrder
  EvictionsAccounted
  AnswersMatch
  RestIsClean
PROPERTIES
  QueryIsAnswered
CHECK_DEADLOCK FALSE
