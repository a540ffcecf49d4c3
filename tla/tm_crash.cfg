SPECIFICATION FairSpec
CONSTANTS
  t1 = t1
  t2 = t2
  t3 = t3
  Txn = {t1, t2, t3}
  Seed = Seed
  Absent = Absent
  NoTxn = NoTxn
  NumRM = 2
  NumCustomers = 2
  ReadCount = 2
  ReadFrom <- ReadFromBoth
  WriteShape <- OneOrderEach
  Chosen <- LastChoosesZero
  Seeded = 2
  MaxTxnId = 3
  MaxRMCrashes = 0
  MaxTMCrashes = 1
  MaxTMRestarts = 0
INVARIANTS
  OneHandler
PROPERTIES
  ImplementsAtomicCommit
  AllAnswered
