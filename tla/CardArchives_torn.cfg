SPECIFICATION Spec
CONSTANTS
  Versions = {1, 2}
  MaxArchives = 3
  Locked = {}
  maxVersionCount = 2
  minSameVersionCount = 1
  extraRetentionCount = 1
  extraRetentionDays = 30
  Alone = FALSE
  ReadFaults = FALSE
  MaxFaults = 0
  MaxDeaths = 0
INVARIANTS ApkOutlivesReferences
