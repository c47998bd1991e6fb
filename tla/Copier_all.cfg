SPECIFICATION FairSpec
CONSTANTS
  N = 6
  dataItemCount = 5
  MaxFails = 1
CHECK_DEADLOCK FALSE
INVARIANTS TypeOK BuffersApart NoHoles
PROPERTIES ImplementsRelay Ends
