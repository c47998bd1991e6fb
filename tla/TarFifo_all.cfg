SPECIFICATION FairSpec
CONSTANTS
  N = 3
  Capacity = 2
  MaxFaults = 3
CHECK_DEADLOCK FALSE
INVARIANTS TypeOK VerdictIsTrue QuietAtEnd
PROPERTIES Ends
