\* The gate: one file that changes once, a user executes it, a grant expires, the machine is suspended once.
\* The budgets: three users and a table for one of them.  The other instances are in the module.
CONSTANTS
  Files = {"f"}
  Users = {"user"}
  FailClosed = FALSE
  ForceAudit = FALSE
  MaxEdits = 1
  MaxSigned = 1
  MaxTries = 1
  MaxDrift = 1
  MaxTime = 2
  MaxSleep = 1
  Hour = 1
  Lifetime = 2
  CacheLimit = 1
  QueueLimit = 0
  Uids = {"u", "v", "w"}
  Window = 3
  Allowance = 1
  GlobalAllowance = 2
  MaxWork = 1
  TableLimit = 1
SPECIFICATION EvidenceSpec
INVARIANTS
  CacheFresh RescanHonoured UnmeasuredIsEarned StretchBound
  AcceptedIsCanonical RoundTrip ProofsVerify ProofsSound
CHECK_DEADLOCK FALSE
