SPECIFICATION Spec
CONSTANTS
  Ops = {"create", "update"}
  MaxClock = 3
  MaxFaults = 3
  MaxCrashes = 0
  MaxDamage = 0
  ReadFaults = TRUE
PROPERTIES UndecidedKeepsSlot
