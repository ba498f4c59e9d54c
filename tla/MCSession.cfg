SPECIFICATION Spec
CONSTANTS
  Devices = {phone, tablet}
  Slots = {s1, s2}
  NoDevice = NoDevice
  MaxOps = 4
  MaxFaults = 1
SYMMETRY Symmetry
INVARIANTS NoSessionFromASpentToken ColumnsKept
PROPERTIES NoAlarmWithoutCause FreshPairIsAccepted
CHECK_DEADLOCK FALSE
