SPECIFICATION Spec
CONSTANTS
  source_id = 1
  destination_id = 3
  snapshot_period_ms = 2
  GenerationMax = 3
  TimeMax = 5
  Values <- MCValues
  Capacities = {3}
INVARIANTS NoLostChange SnapshotInSight
PROPERTIES GenerationsAscend SnapshotComplete RepeatsCompleted
CHECK_DEADLOCK FALSE
