SPECIFICATION Spec
CONSTANTS
  f1 = f1
  f2 = f2
  f3 = f3
  page = page
  ig1 = ig1
  ig2 = ig2
  ph1 = ph1
  ph2 = ph2
  Accounts = {ig1, ig2}
  Instagram = {ig1, ig2}
  Flows = {f1, f2}
  KindOf <- Logins
  Plan <- Apart
  Life = 4
  Window = 3
  LastDay = 5
  None = None
  NoRow = NoRow
INVARIANTS RefusalIsContained
CHECK_DEADLOCK FALSE
