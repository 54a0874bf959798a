CONSTANTS
  j1 = j1
  j2 = j2
  s1 = s1
  s2 = s2
  c1 = c1
  c2 = c2
  Workers = {w1, w2}
  NoWorker = nobody
  Jobs = {j1, j2}
  Signals = {s1, s2}
  Components = {c1, c2}
  Batch <- MCBatch
  ComponentOf <- MCApart
  MaxAttempts = 2
  Failures = {"outage", "crash", "stall", "lost_create", "lost_count"}
  MaxMishaps = 1
  MaxCloses = 1
SPECIFICATION Spec
INVARIANTS TypeOK OneWorkItemPerComponent CountsArePersisted CompletedIsPersisted
CHECK_DEADLOCK FALSE
