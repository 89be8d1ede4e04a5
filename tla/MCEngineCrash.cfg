\* Two contents, the file changed once, one crash.
CONSTANTS
  HighRisk <- None
  PlainNames <- None
  ShortNames <- None
  Ids = {"x", "y"}
  Grants <- OneCell
  MaxEdits = 1
  MaxEpoch = 1
  MaxCrashes = 1
  MaxLosses = 0
SPECIFICATION Spec
INVARIANT ReplacementSurvivesCrash
