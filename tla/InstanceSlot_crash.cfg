SPECIFICATION FairSpec
CONSTANTS
  Ops = {"create", "update", "edit", "delete"}
  MaxClock = 3
  MaxFaults = 2
  MaxCrashes = 2
  MaxDamage = 0
  ReadFaults = FALSE
INVARIANTS TypeOK Durable DoneMeansOne DeletedIsGone
PROPERTIES ImplementsRegister Settles
