CONSTANTS
  r1 = r1
  r2 = r2
  r3 = r3
  Requests = {r1, r2, r3}
  Scheduler = scheduler
  Workloads <- MCWorkloads
  Attempts = 2
  Failures = {"redis", "crash"}
  MaxRows = 3
SPECIFICATION Spec
INVARIANT EffectsFollowCommit
CHECK_DEADLOCK FALSE
