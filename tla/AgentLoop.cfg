SPECIFICATION LiveSpec
CONSTANTS
  p1 = p1
  p2 = p2
  p3 = p3
  n1 = n1
  Prompts <- MCThreePrompts
  Notes <- MCNotes
  Causes = {"user", "disposed"}
  Failures = {"reject", "rewrite", "error"}
INVARIANTS
  MessagesConserved
  BalancedLog
PROPERTIES
  AbortedOnlyUnwinds
  LatchedWakeReplays
