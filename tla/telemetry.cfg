SPECIFICATION MCSpec
CONSTANTS
  source_id = 1
  destination_id = 3
  Subscriber = 2
  Capacity = 1
  snapshot_period_ms = 1
  GenerationMax = 2
  TimeMax = 2
  Values <- MCValues
  Capacities = {3}
  Reported = {"Position"}
  MaxRestarts = 1
INVARIANT CacheFollowsSource
PROPERTY Converges
