SPECIFICATION Spec
CONSTANTS
  w1 = w1
  w2 = w2
  NoOne = NoOne
  NQueries = 1
  Workers <- TwoWorkers
  Setups <- Fast
  Priority <- Later
  MaxEvictors = 0
  FreshStates <- Zeroed
PROPERTIES
  ExitIsFinal
CHECK_DEADLOCK FALSE
