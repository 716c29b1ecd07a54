SPECIFICATION LiveSpec
CONSTANTS
  c1 = c1
  c2 = c2
  c3 = c3
  o1 = o1
  o2 = o2
  Callers <- TwoCallers
  Objectives <- MCObjectives
  NoCount = NoCount
  MaxLoops = 2
  MaxDrivers = 2
  DirectStart = TRUE
INVARIANTS
  FirstDriverKeepsSlot
  WaitersAreHandles
PROPERTIES
  TeardownEnds
CHECK_DEADLOCK FALSE
