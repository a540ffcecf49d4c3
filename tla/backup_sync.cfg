SPECIFICATION FairSpec
CONSTANTS
  c1 = c1
  c2 = c2
  Absent = Absent
  Work <- SingleWork
  MaxOrders = 1
  Returns = {}
  MaxCrashes = 0
INVARIANT
  BackupSynchronized
