CONSTANTS
  r1 = r1
  r2 = r2
  r3 = r3
  Requests = {r1, r2, r3}
  Scheduler = scheduler
  Workloads <- MCWorkloads
  Attempts = 2
  Failures = {"postgres", "crash"}
  MaxRows = 4
SPECIFICATION FairSpec
INVARIANTS TypeOK AuditChain AnswersAreHonest AnsweredMeansAnnounced
PROPERTIES Implements EveryRequestAnswered
CHECK_DEADLOCK FALSE
