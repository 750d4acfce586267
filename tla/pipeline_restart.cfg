SPECIFICATION RestartSpec
CONSTANTS
  Window = 3
  Durations <- MCStream
  snapshot_period_ms = 2
  ChangeAt = 1
  MaxOvertake = 1
  MaxFaults = 0
  MayRestart = TRUE
INVARIANT NonceFresh
CHECK_DEADLOCK FALSE
