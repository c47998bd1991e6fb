SPECIFICATION FairSpec
CONSTANTS
  j1 = j1
  j2 = j2
  p1 = p1
  c1 = c1
  c2 = c2
  Recovery = Recovery
  Packages = {p1}
  Jobs <- MCJobs
  PackageOf <- OnePackage
  CardOf <- TwoCards
  MaxFaults = 2
  MaxDeaths = 2
INVARIANTS LossIsTorn
PROPERTIES IsReleased
