\* Two contents, one change of the file, one crash, the index lost once.
CONSTANTS
  x = x
  y = y
  HighRisk <- None
  PlainNames <- None
  ShortNames <- None
  Ids = {x, y}
  Grants <- OneCell
  MaxEdits = 1
  MaxEpoch = 2
  MaxCrashes = 1
  MaxLosses = 1
SPECIFICATION Spec
SYMMETRY Symmetry
INVARIANTS AuthorityKept RowBehindEvents ReplacedLosesTrust
