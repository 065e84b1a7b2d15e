SPECIFICATION Spec
CONSTANTS
  k1 = k1
  k2 = k2
  k3 = k3
  main = main
  w1 = w1
  w2 = w2
  Threads = {main, w1, w2}
  Main = main
  Keys = {k1, k2, k3}
  Zero = Zero
  Nobody = Nobody
  Capacity = 2
  FirstCap = 1
  Buckets = 1
  Hash <- Hashed
  Programs <- Given
  MaxFail = 2
INVARIANTS TypeOK NoLostWakeup Books
PROPERTIES FifoSpec Ends
CHECK_DEADLOCK FALSE
