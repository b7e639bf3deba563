SPECIFICATION FairSpec
CONSTANTS
  e1 = e1
  e2 = e2
  e3 = e3
  e4 = e4
  r1 = r1
  r2 = r2
  p1 = p1
  p2 = p2
  Events = {e1, e2, e3, e4}
  PhoneOf <- PhoneOfThem
  Past = {e1, e2}
  AgedLeads = {e1, e2}
  AgedLogs = {e1}
  Requests = {r1, r2}
  RequestFor <- BothAskForP1
  Sweep = Sweep
  Phones = {p1, p2}
  None = None
  NoRow = NoRow
INVARIANTS OnePhonePerLead PurgesAudited ErasureReachesHistory
PROPERTIES PurgedStaysPurged PurgesEnd
CHECK_DEADLOCK FALSE
