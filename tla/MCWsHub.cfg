SPECIFICATION FairSpec
CONSTANTS
  k1 = k1
  k2 = k2
  ann = ann
  ben = ben
  m1 = m1
  m2 = m2
  family = family
  dm = dm
  Conns = {k1, k2}
  Users = {ann, ben}
  Messages = {m1, m2}
  OldRooms = {family}
  Owner <- MCOwner
  Author <- MCAuthor
  Rooms = {family, dm}
  GroupRooms = {family}
  SendCap = 1
  MayBreak = {k1}
INVARIANTS PushOrScreen ShownInOrder
PROPERTIES DeadConnectionsLeave AcceptedIsShown
CHECK_DEADLOCK FALSE
