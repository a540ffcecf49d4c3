SPECIFICATION FairSpec
CONSTANTS
  c1 = c1
  c2 = c2
  Absent = Absent
  Work <- MixedWork
  MaxOrders = 2
  Returns = {}
  MaxCrashes = 1
PROPERTY
  TakeoverAppliesLog
