SPECIFICATION Spec
CONSTANTS
  Ops = {"create", "update", "edit", "delete"}
  MaxClock = 3
  MaxFaults = 3
  MaxCrashes = 1
  MaxDamage = 1
  ReadFaults = TRUE
PROPERTIES CopiesOutliveDoubt PublishNeverDowngrades
