SPECIFICATION Spec
CONSTANTS
  t1 = t1
  t2 = t2
  t3 = t3
  Txn = {t1, t2}
  Seed = Seed
  Absent = Absent
  NoTxn = NoTxn
  NumRM = 2
  NumCustomers = 2
  ReadCount = 2
  ReadFrom <- ReadFromBoth
  WriteShape <- OneOrderEach
  Chosen <- ClientsOnly
  Seeded = 2
  MaxTxnId = 2
  MaxRMCrashes = 1
  MaxTMCrashes = 0
  MaxTMRestarts = 0
INVARIANTS
  RecoveryRestoresCommitted
