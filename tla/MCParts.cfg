CONSTANTS
  i1 = i1
  i2 = i2
  Ips = {i1, i2}
  Capacity <- MCCapacity
  PerSecond <- MCPerSecond
  Fraction = 2
  Costs = {1, 2, 3}
  Skews = {0, 1}
  MaxClock = 4
  MaxChecks = 3
  Dependencies = {postgres, mongo}
  Interval = 1
  Timeout = 2
  MaxUptime = 7
  MaxOutages = 2
  Requests = {r1}
  Signals = {s1, s2, s3, s4}
  Malformed = {s4}
  MaxBatch = 2
  Room = 2
  Shutdowns = {term, int}
  MaxBreaks = 1
  Slots = 2
  Burst = 2
  Scrapes = {m1}
  Ticks = {k1, k2}
  MaxSignals = 3
  MaxTicks = 2
  Tabs = {t1, t2}
  Emails = {ann}
  Passwords = {x, y}
  Asks = {q1, q2}
  MaxTokens = 2
  MaxLosses = 1
  Calls = {c1, c2, c3}
  Orders = {asc, desc}
  Total = 3
  PageSize = 2
  MaxPresses = 3
  MaxErrors = 1
  MaxTurns = 2
  incA = incA
  incB = incB
  Incidents = {incA, incB}
  Gets = {g1, g2}
  Posts = {p1, p2}
  MaxVisits = 2
  MaxOthers = 1
  MaxMishaps = 1
SPECIFICATION Spec
INVARIANTS PartsTypeOK BucketsKeepTheirWord HealthShowsOutages LossesHaveACause ServerStateWins DraftsKept SessionsAreEarned ScrapeAddsUp
PROPERTIES NothingStaleShown
CHECK_DEADLOCK FALSE
