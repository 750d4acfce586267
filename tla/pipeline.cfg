SPECIFICATION Spec
CONSTANTS
  Window = 3
  Durations <- MCDurations
  snapshot_period_ms = 2
  ChangeAt = 1
  MaxOvertake = 1
  MaxFaults = 1
  MayRestart = FALSE
INVARIANTS
  ShownOnce
  ReorderHarmless
  NothingSwallowed
  CodesAgree
PROPERTY AllEnd
CHECK_DEADLOCK FALSE
