SPECIFICATION FairSpec
CONSTANTS
  n1 = n1
  n2 = n2
  ann = ann
  Notes = {n1, n2}
  NoNote = NoNote
  Owner <- MCOwner
  Plans <- MCPlans
  Endpoints = {e1, e2}
  Users = {ann}
  Nobody = Nobody
  Worker = Worker
  Never = Never
  MaxTime = 1
  MaxRows = 1
  MaxMishaps = 1
INVARIANTS RingsOnce LostOnlyInCrash EveryDeviceTried
PROPERTIES ClearedStaysSilent ImplementsAlarmClock DueRings
CHECK_DEADLOCK FALSE
