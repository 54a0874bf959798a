CONSTANTS
  j1 = j1
  j2 = j2
  s1 = s1
  s2 = s2
  c1 = c1
  c2 = c2
  Workers = {w1, w2}
  NoWorker = nobody
  Jobs = {j1, j2}
  Signals = {s1, s2}
  Components = {c1}
  Batch <- MCTwice
  ComponentOf <- MCOne
  MaxAttempts = 2
  Failures = {}
  MaxMishaps = 0
  MaxCloses = 0
SPECIFICATION Spec
INVARIANT OneCountPerSignal
CHECK_DEADLOCK FALSE
