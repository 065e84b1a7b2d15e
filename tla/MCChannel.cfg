SPECIFICATION Spec
CONSTANTS
  Threads = {t1, t2, t3}
  Messages = {m1, m2}
  Capacity = 2
  NoMsg = NoMsg
INVARIANTS TypeOK NoLostWakeup NoStandoff
PROPERTIES FifoSpec CloseReleases SleepersServed
CHECK_DEADLOCK FALSE
