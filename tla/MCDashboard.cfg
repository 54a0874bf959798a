CONSTANTS
  a = a
  Items = {a}
  Writers = {w1}
  Readers = {q1, q2}
  Tables <- MCTables
  Failures = {"redis", "crash", "flush"}
  MaxCommits = 2
  MaxFaults = 1
SPECIFICATION FairSpec
INVARIANTS TypeOK QuietCacheAgrees EventsFollowCache
PROPERTIES Implements SummariesConverge
CHECK_DEADLOCK FALSE
