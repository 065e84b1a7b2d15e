SPECIFICATION Spec
CONSTANTS
  d1 = d1
  d2 = d2
  Dbs = {d1, d2}
  NoDb = NoDb
  r1 = r1
  r2 = r2
  Requests = {r1, r2}
  Shapes <- Asked
  Configs <- Configured
  MaxEvents <- Allowed
INVARIANT InsertsTheBody
CHECK_DEADLOCK FALSE
