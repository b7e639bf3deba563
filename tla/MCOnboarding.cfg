SPECIFICATION FairSpec
CONSTANTS
  p1 = p1
  p2 = p2
  u1 = u1
  Posts = {p1, p2}
  Users = {u1}
  UserOf <- OneUser
  MaxTries = 2
  None = None
  NoRow = NoRow
INVARIANTS Types ActiveHasConfig VersionsInOrder
PROPERTIES KeepsService  EveryJobEnds
CHECK_DEADLOCK FALSE
