CONSTANTS
  Media = {1, 2}
  Slots <- BothSlots
  Releases <- AllReleases
  Installs <- OneUpdate
  Floors = {0, 2}
  DefaultTries = 2
  MaxFaults = 2
SPECIFICATION MCSpec
INVARIANTS FloorKept TriesBounded NoRollback
PROPERTIES GoodSlotKept NeverStranded ComesUp
