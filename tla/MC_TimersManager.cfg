SPECIFICATION TMFairSpec
CONSTANTS
  Periods = {1, 2, 3}
  Deltas = {1, 2, 3}
  BurstLimit = 2
  MaxTimers = 4
  IndexCycle = 6
INVARIANTS TypeOK
PROPERTIES ImplementsCountdowns TimersKeepFiring
