SPECIFICATION LiveSpec
CONSTANTS
  k1 = k1
  k2 = k2
  Keys <- MCKeys
  NoKey = NoKey
  DirSyncFails = FALSE
INVARIANTS
  TypeOK
  RejectsOnlyOnFault
  CompletedWasVouched
PROPERTIES
  CancelWritesOnlyCancelled
  NeverRerunsSettled
  ImplementsBoundedLoop
  CancelSettles
