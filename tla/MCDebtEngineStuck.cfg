SPECIFICATION Spec
CONSTANTS
  Inputs <- MCMixed
  MaxMonths = 150
  MaxOwed = 4000000
  Epsilon = 5
INVARIANT StuckNeverClears
CHECK_DEADLOCK FALSE
