SPECIFICATION LiveSpec
CONSTANTS
  a = a
  b = b
  e = e
  k1 = k1
  w1 = w1
  w2 = w2
  Tools <- TwoTools
  Drivers <- NoDriver
  Checks <- MCChecks
  Contents <- OneContent
  Commands <- MCCommands
  Plans <- MCPlans
  MaxAttempts = 2
  MaxRevisions = 2
  MaxTasks = 1
  Teardown = TRUE
  Undeclared = Undeclared
  Unknown = Unknown
  NoKey = NoKey
PROPERTIES
  ReceiptsAreFinal
  CallsSettle
