SPECIFICATION FairSpec
CONSTANTS
  c1 = c1
  c2 = c2
  Absent = Absent
  Work <- MixedWork
  MaxOrders = 2
  Returns = {1}
  MaxCrashes = 2
INVARIANTS
  CommittedInLog
  IndexInRange
  BackupInStep
  BackupNotAhead
PROPERTIES
  EveryTxnEnds
