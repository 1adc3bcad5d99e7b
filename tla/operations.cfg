CONSTANTS
  t1 = t1  t2 = t2  u1 = u1  c1 = c1  k1 = k1  k2 = k2  k3 = k3
  Absent = Absent  Hollow = Hollow
  Threads = {t1, t2}  Users = {u1}  Tokens = {k1, k2, k3}
  Clients = {c1}  Categories <- MCCategories  Limit <- MCLimit
  GlobalLimit = 2  Cap = 2  Lifetime = 2  Minute = 2  MaxClock = 3
  ReadOnly = FALSE  MaxOps = 4  MaxCuts = 2  MaxDecisions = 1
SPECIFICATION MaintenanceSpec
INVARIANTS MaintenanceTypeOK SessionsAreBounded BurstIsBounded ServedStoresAgree
PROPERTY NothingUnsavedIsReplaced
SYMMETRY Alike
CHECK_DEADLOCK FALSE
CONSTRAINT OneThingAtATime
