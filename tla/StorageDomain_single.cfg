SPECIFICATION LiveSpec
CONSTANTS
  c1 = c1
  c2 = c2
  k1 = k1
  k2 = k2
  Callers <- MCCallers
  Keys <- MCKeys
  MaxValue = 1
  Absent = Absent
  Stale = Stale
  Invalid = Invalid
  PerRecord = FALSE
  BackupAndSkip = FALSE
  Legacy <- NoLegacy
  DirSyncFails = FALSE
  PowerLoss = TRUE
PROPERTIES
  ImplementsDurableTable
  CrashKeepsResolved
  WritesSettle
