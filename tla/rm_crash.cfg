SPECIFICATION FairSpec
CONSTANTS
  t1 = t1
  t2 = t2
  t3 = t3
  Txn = {t1, t2}
  Seed = Seed
  Absent = Absent
  NoTxn = NoTxn
  NumRM = 2
  NumCustomers = 2
  ReadCount = 2
  ReadFrom <- ReadFromBoth
  WriteShape <- OneOrderEach
  Chosen <- T2ChoosesLast
  Seeded = 2
  MaxTxnId = 2
  MaxRMCrashes = 1
  MaxTMCrashes = 1
  MaxTMRestarts = 0
INVARIANTS
  OneHandler
  Agreement
  FailedNeverCommitted
  OnlyCommittedOnDisk
  WriteAhead
PROPERTIES
  AllAnswered
