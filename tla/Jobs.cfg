SPECIFICATION LiveSpec
CONSTANTS
  j1 = j1
  j2 = j2
  o1 = o1
  JobIds <- MCJobIds
  Owners <- MCOwners
  Streaming <- MCStreaming
  Unowned = Unowned
  Outcomes = {"completed"}
  MaxConcurrentJobsPerOwner = 2
  RetainBytes = 2
  SettledRetainBytes = 1
  ChunkBytes = {2}
  MaxBytes = 3
  MayStartFor <- MCMayStartFor
INVARIANTS
  OwnedJobHasKeeper
PROPERTIES
  OutputComplete
  SettlesOnce
  UnreadSurvives
  AgentTeardownEnds
CHECK_DEADLOCK FALSE
