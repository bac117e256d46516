SPECIFICATION FairSpec
CONSTANTS
  t1 = t1  t2 = t2  t3 = t3  t4 = t4
  Nobody = Nobody
  Threads = {t1, t2, t3, t4}
  Goal = 3
  Rounds = 3
INVARIANTS NobodyPassesEarly WaitersAreCounted
PROPERTIES GroupReturns
CHECK_DEADLOCK FALSE
