SPECIFICATION FairSpec
CONSTANTS
  w1 = w1
  w2 = w2
  NoOne = NoOne
  NQueries = 3
  Workers <- TwoWorkers
  Setups <- Calm
  Priority <- Later
  MaxEvictors = 0
  FreshStates <- Zeroed
INVARIANTS
  StateLists
PROPERTIES
  DispatcherSpec
  QueriesEnd
CHECK_DEADLOCK FALSE
