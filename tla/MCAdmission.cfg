\* The life of one artifact under five policies, and others that validation must keep out.
\* Files of up to three blocks, of which two are allowed; one of one block is measured twice.
\* The status file and a list, each rewritten up to twice, three loads.
CONSTANTS
  HighRisk <- MCHighRisk
  PlainNames <- MCPlain
  ShortNames <- MCShort
  Artifacts <- MCArtifacts
  Policies <- MCPolicies
  Evidence <- MCEvidence
  Requests <- MCRequests
  Approvals <- MCApprovals
  Baselines <- MCBaselines
  Entries <- MCEntries
  MaxNow = 1
  Blocks = {0, 1}
  MaxSize = 2
  RetryUpTo = 1
  Manifest <- MCManifest
  MaxWrites = 2
  MaxSwaps = 1
  Files = {"status", "list"}
  Lists = {"list"}
  MaxChanges = 2
  MaxLoads = 3
  MaxKills = 1
  MaxBlanks = 1
SPECIFICATION AdmissionSpec
INVARIANTS
  Resumable RevocationWins TrustHasGrounds AuthorityCapped
  DigestIsSnapshot MeasuredIsExecuted IndexNotStale
PROPERTY LegalSteps
CHECK_DEADLOCK FALSE
