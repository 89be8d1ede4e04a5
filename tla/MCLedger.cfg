SPECIFICATION SyncedSpec
CONSTANTS
  CheckpointEvery = 2
  MaxEvents = 4
  SetupEvents = 1
  MaxCheckpoints = 3
  MaxFaults = 3
INVARIANTS
  Reopens
  AckedSurvive
  AnchorsHold
  NoFalseAlarm
  LedgerInv
PROPERTIES
  TornBytesKept
  ImplementsEvidenceLog
CHECK_DEADLOCK FALSE
