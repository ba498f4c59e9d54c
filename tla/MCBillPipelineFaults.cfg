SPECIFICATION Spec
CONSTANTS
  r1 = r1
  r2 = r2
  r3 = r3
  f1 = f1
  f2 = f2
  Requests = {r1, r2}
  Files = {f1, f2}
  NoHash = NoHash
  MaxBills = 3
  QueueCap = 1
  Kinds <- MCKindsAll
  AlertLists <- MCAlertLists
  DbFaults = TRUE
  MaxCrashes = 1
SYMMETRY MCSymmetry
INVARIANT PdfLostOnlyByHardDelete
PROPERTIES ImplementsArchive StrandedOnlyByKnownSteps
CHECK_DEADLOCK FALSE
