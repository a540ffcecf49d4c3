SPECIFICATION Spec
CONSTANTS
  t1 = t1
  t2 = t2
  t3 = t3
  Txn = {t1, t2}
  Seed = Seed
  Absent = Absent
  NoTxn = NoTxn
  NumRM = 2
  NumCustomers = 2
  ReadCount = 2
  ReadFrom <- ReadFromBoth
  WriteShape <- OneOrderEach
  Chosen <- ClientsOnly
  Seeded = 2
  MaxTxnId = 2
  MaxRMCrashes = 0
  MaxTMCrashes = 1
  MaxTMRestarts = 1
INVARIANTS
  SuccessMeansApplied
