SPECIFICATION Spec
CONSTANTS
  w1 = w1
  w2 = w2
  NoOne = NoOne
  NQueries = 2
  Workers <- TwoWorkers
  Setups <- Any
  Priority <- Later
  MaxEvictors = 1
  FreshStates <- AnyState
INVARIANTS
  TypeOK
  ReadyIsQueued
  ExitIsTold
  RunsOnOneWorker
PROPERTIES
  PcNeverFalls
CHECK_DEADLOCK FALSE
