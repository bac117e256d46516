SPECIFICATION FairSpec
CONSTANTS
  t1 = t1  t2 = t2  t3 = t3  c1 = c1  c2 = c2
  Threads = {t1, t2, t3}
  CPUs = {c1}
  Nobody = Nobody
  Delays = {0}
  Masks = {{}, {c1}}
  MaxTime = 1
  MaxReady = 6
INVARIANTS UserCodeIsNotBlocked
PROPERTIES ReadyThreadRuns SleepReturns ThreadLife
