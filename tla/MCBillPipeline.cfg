SPECIFICATION Spec
CONSTANTS
  r1 = r1
  r2 = r2
  r3 = r3
  f1 = f1
  f2 = f2
  Requests = {r1, r2, r3}
  Files = {f1}
  NoHash = NoHash
  MaxBills = 3
  QueueCap = 1
  Kinds <- MCKindsAll
  AlertLists <- MCAlertLists
  DbFaults = FALSE
  MaxCrashes = 0
SYMMETRY MCSymmetry
INVARIANTS TypeOK OneRowPerFile NoOrphanChildren AlertAtMostOnce
CHECK_DEADLOCK FALSE
