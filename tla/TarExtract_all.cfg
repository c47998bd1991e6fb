SPECIFICATION FairSpec
CONSTANTS
  N = 2
  Capacity = 2
  MaxFaults = 3
  MaxDeaths = 2
CHECK_DEADLOCK FALSE
INVARIANTS TypeOK OldUntilNew NewIsVerified VerdictIsTrue QuietAtEnd ErrorHasReason
PROPERTIES Ends
