SPECIFICATION FairSpec
CONSTANTS
  t1 = t1  t2 = t2  t3 = t3  p1 = p1  p2 = p2
  Nobody = Nobody
  Threads = {t1, t2, t3}
  Processes = {p1, p2}
  ProcessOf <- TwoAndOne
  Registered = {p1, p2}
  Victims = {p1, p2}
  Machines <- Cases
INVARIANTS MutualExclusion FreeMutexHasNoWaiters SignalledIffAwake
PROPERTIES AcquireReturns
CHECK_DEADLOCK FALSE
