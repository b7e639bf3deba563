SPECIFICATION Spec
CONSTANTS
  e1 = e1
  e2 = e2
  e3 = e3
  e4 = e4
  j1 = j1
  j2 = j2
  j3 = j3
  j4 = j4
  m1 = m1
  n1 = n1
  c1 = c1
  Events = {e1, e2}
  Jobs = {j1, j2, j3}
  EventOf <- TwiceAndOnce
  KindOf <- MessageAndForm
  Sent <- SamePhone
  Readings <- NothingSaid
  Phones <- Written
  Emails = {m1}
  Names = {n1}
  Places = {c1}
  None = None
  NoRow = NoRow
  MaxTries = 2
INVARIANT AssertionHolds
CHECK_DEADLOCK FALSE
