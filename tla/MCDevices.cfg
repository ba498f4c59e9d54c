SPECIFICATION Spec
CONSTANTS
  q1 = q1
  q2 = q2
  Slots <- MCSlots
  Names = {lamp, lantern}
  IPs = {home, moved}
  Levels = {"low", "full"}
  BulbIP = home
  MaxOps = 3
  MaxFaults = 1
SYMMETRY Symmetry
INVARIANTS EditsSurvive RowFollowsBulb ScreensFollowRows
CHECK_DEADLOCK FALSE
