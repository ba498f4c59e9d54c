SPECIFICATION FairSpec
CONSTANTS
  r1 = r1
  r2 = r2
  r3 = r3
  f1 = f1
  f2 = f2
  Requests = {r1, r2, r3}
  Files = {f1}
  NoHash = NoHash
  MaxBills = 2
  QueueCap = 3
  Kinds <- MCKindsRestore
  AlertLists <- MCQuiet
  DbFaults = FALSE
  MaxCrashes = 0
PROPERTY ProcessingSettles
CHECK_DEADLOCK FALSE
