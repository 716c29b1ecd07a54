SPECIFICATION Spec
CONSTANTS
  c1 = c1
  c2 = c2
  k1 = k1
  k2 = k2
  Callers <- MCCallers
  Keys <- MCKeys
  MaxValue = 1
  Absent = Absent
  Stale = Stale
  Invalid = Invalid
  PerRecord = TRUE
  BackupAndSkip = TRUE
  Legacy <- FullLegacy
  DirSyncFails = FALSE
  PowerLoss = FALSE
INVARIANTS
  TypeOK
  MemoryMatchesMedium
