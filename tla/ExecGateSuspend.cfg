\* One file under a grant of two units, an hour of two, and one unit in which the machine is suspended.
CONSTANTS
  Files = {"f"}
  Users = {"user"}
  FailClosed = FALSE
  ForceAudit = FALSE
  MaxEdits = 0
  MaxSigned = 0
  MaxTries = 0
  MaxDrift = 0
  MaxTime = 2
  MaxSleep = 1
  Hour = 2
  Lifetime = 2
  CacheLimit = 1
  QueueLimit = 0
SPECIFICATION Spec
INVARIANT SuspendDoesNotStretch
CHECK_DEADLOCK FALSE
