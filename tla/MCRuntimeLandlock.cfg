\* A cell with and without privileges, under one decision of each kind.  The other instances are in the module.
CONSTANT Decisions <- SomeDecisions
SPECIFICATION RuntimeSpec
INVARIANT FsRulesInFull
CHECK_DEADLOCK FALSE
