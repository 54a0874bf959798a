CONSTANTS
  j1 = j1
  j2 = j2
  s1 = s1
  s2 = s2
  c1 = c1
  c2 = c2
  Workers = {w1, w2}
  NoWorker = nobody
  Jobs = {j1, j2}
  Signals = {s1, s2}
  Components = {c1}
  Batch <- MCBursts
  ComponentOf <- MCOne
  MaxAttempts = 2
  Failures = {"outage", "crash"}
  MaxMishaps = 2
  MaxCloses = 0
SPECIFICATION FairSpec
INVARIANT AnnouncedOnce
PROPERTY JobsSettle
CHECK_DEADLOCK FALSE
