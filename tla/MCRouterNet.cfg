SPECIFICATION Spec
CONSTANTS
  Readers = {ticker, stream}
  Blockers = {admin}
  ByUid = TRUE
  TTL = 1
  MaxFetch = 1
  MaxTime = 3
  MaxCalls = 9
  MaxFaults = 1
SYMMETRY Symmetry
INVARIANTS SessionsLeakOnlyByOverlap RefusedOnlyByOverlap ServedIsRecent
CHECK_DEADLOCK FALSE
