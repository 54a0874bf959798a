CONSTANTS
  Within <- MCWithin
  Configured = {"slack"}
  Actors = {a1, a2}
  Cases <- MCCases
  Events = {"created"}
  Window = 2
  MaxAttempts = 1
  MaxTime = 3
  MaxTrouble = 1
  Fetches = {f1, f2}
  MaxRetries = 1
  MaxChanges = 2
  MaxDrops = 3
  MaxMounts = 1
SPECIFICATION Spec
INVARIANTS ReactionsTypeOK InTimeNeverEscalated
PROPERTIES ClaimsApart OverdueIsEscalated FeedKeepsUp
CHECK_DEADLOCK FALSE
