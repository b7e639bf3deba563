SPECIFICATION Spec
CONSTANTS
  f1 = f1
  f2 = f2
  f3 = f3
  page = page
  ig1 = ig1
  ig2 = ig2
  ph1 = ph1
  ph2 = ph2
  Accounts = {page, ig1, ph1}
  Instagram = {ig1}
  Flows = {f1, f2, f3}
  KindOf <- Kinds
  Plan <- Plans
  Life = 4
  Window = 3
  LastDay = 5
  None = None
  NoRow = NoRow
INVARIANTS Types FlowIsAtomic KeptFresh ConnectedIsRoutable
PROPERTIES RowsLiveForward
CHECK_DEADLOCK FALSE
