SPECIFICATION Spec
CONSTANTS
  CheckpointEvery = 3
  MaxEvents = 4
  SetupEvents = 1
  MaxCheckpoints = 2
  MaxFaults = 2
INVARIANT CheckpointsCovered
CHECK_DEADLOCK FALSE
