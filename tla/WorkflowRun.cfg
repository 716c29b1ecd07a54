SPECIFICATION LiveSpec
CONSTANTS
  MaxTotalAgents = 4
  MaxConcurrentAgents = 2
INVARIANTS
  TypeOK
  SettledIsClean
PROPERTIES
  AnnouncedWhileLive
  ImplementsRunHandle
  RunSettles
