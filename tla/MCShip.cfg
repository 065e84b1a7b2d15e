SPECIFICATION Spec
CONSTANTS
  c1 = c1
  c2 = c2
  r1 = r1
  r2 = r2
  Commands = {c1, c2}
  Clients = {r1, r2}
  NoJob = NoJob
  Scenes <- AllScenes
  MaxMishaps <- Allowed
INVARIANTS RunsOwnBuild StoredWhole KeyholdersServed
PROPERTY DockServes
CHECK_DEADLOCK FALSE
