SPECIFICATION LiveSpec
CONSTANTS
  N = 3
  MaxParallel = 2
  MaxSwitches = 1
  MaxCrashes = 2
INVARIANTS
  AnsweredInOrder
  NotStartedNeverRan
  ExclusiveAlone
PROPERTIES
  FailureStopsDispatch
  BatchEnds
CHECK_DEADLOCK FALSE
