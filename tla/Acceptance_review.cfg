SPECIFICATION Spec
SYMMETRY ToolsAndContents
CONSTANTS
  a = a
  b = b
  e = e
  k1 = k1
  w1 = w1
  w2 = w2
  Tools <- OneTool
  Drivers <- OneDriver
  Checks <- MCChecks
  Contents <- TwoContents
  Commands <- MCCommands
  Plans <- MCPlans
  MaxAttempts = 2
  MaxRevisions = 2
  MaxTasks = 1
  Teardown = FALSE
  Undeclared = Undeclared
  Unknown = Unknown
  NoKey = NoKey
INVARIANTS
  ApprovalRestsOnEvidence
