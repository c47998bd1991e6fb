SPECIFICATION Spec
CONSTANTS
  g1 = g1  g2 = g2
  groupIds <- TwoGroups
  Archives = {a1, a2}
  Movers = {m1, m2}
  User = user  Snapshotter = snap  NoOne = nobody
  ReadFaults = FALSE
  MaxFaults = 2  MaxCrashes = 1  MaxChanges = 1
SYMMETRY Swaps
INVARIANTS TypeOK  MovedArrives RecordKept TargetKept
