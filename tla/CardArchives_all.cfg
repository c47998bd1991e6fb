SPECIFICATION Spec
CONSTANTS
  Versions = {1, 2}
  MaxArchives = 3
  Locked = {}
  maxVersionCount = 2
  minSameVersionCount = 1
  extraRetentionCount = 1
  extraRetentionDays = 30
  Alone = TRUE
  ReadFaults = FALSE
  MaxFaults = 1
  MaxDeaths = 1
INVARIANTS ApkOutlivesReferences NothingLeftBehind
PROPERTIES CommittedSurvives
