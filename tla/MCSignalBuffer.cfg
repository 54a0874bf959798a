CONSTANTS
  Capacity = 3
  HighMark = 2
  LowMark = 0
  Ceiling <- MCCeiling
  BatchSize = 2
  Hooks = {h1}
  MaxSignals = 5
SPECIFICATION FairSpec
INVARIANTS TypeOK CapacityBound EverySignalAccounted
PROPERTIES Hysteresis CeilingHolds EvictionOrder DrainPriority SignalsLeave
CHECK_DEADLOCK FALSE
