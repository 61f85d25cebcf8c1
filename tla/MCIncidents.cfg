\* Two replicas, one with two webhooks at a time, a distillation on each; a budget of one
\* distillation, a month of three.
CONSTANTS
  r1 = r1
  r2 = r2
  h1 = h1
  h2 = h2
  h3 = h3
  t1 = t1
  t2 = t2
  Replica = {r1, r2}
  Handler = {h1, h2, h3}
  Task = {t1, t2}
  Item = {k1}
  Home <- HomeOf
  Delta <- Asked
  Cap = 1
  MaxBill = 3
  StoresFail = TRUE
  None = None
SPECIFICATION Spec
SYMMETRY Webhooks
INVARIANTS InvestigatedOncePerReplica MonthlyOverspend NeverOvercharged CasesVouched
CHECK_DEADLOCK FALSE
