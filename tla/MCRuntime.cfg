\* A cell with and without privileges, under one decision of each kind.  The other instances are in the module.
CONSTANT Decisions <- SomeDecisions
SPECIFICATION RuntimeSpec
INVARIANTS RunsConfined ReportTruthful
PROPERTIES GatedAtLast ExecsAnswered RevokedAtLast LaunchReturns LimitEnforced DiesWithLauncher
CHECK_DEADLOCK FALSE
