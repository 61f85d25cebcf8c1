\* The instance of MCIncidents.cfg with stores that never fail: two replicas, one alert.
CONSTANTS
  r1 = r1
  r2 = r2
  h1 = h1
  h2 = h2
  h3 = h3
  t1 = t1
  t2 = t2
  Replica = {r1, r2}
  Handler = {h1, h2, h3}
  Task = {t1, t2}
  Item = {k1}
  Home <- HomeOf
  Delta <- Asked
  Cap = 1
  MaxBill = 2
  StoresFail = FALSE
  None = None
SPECIFICATION Spec
INVARIANT InvestigatedOncePerWindow
CHECK_DEADLOCK FALSE
