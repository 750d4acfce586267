SPECIFICATION Spec
CONSTANTS
  Capacity = 2
  LinkIds = {0, 1, 2, 3}
  Asking = {2, 3}
  Peer <- MCPeer
  LocalId = 9
  MaxLinks = 2
  MaxSubscriptions = 1
  Records <- MCRecords
  Requests <- MCRequests
  Times = {0}
INVARIANTS LimitsHeld SubscriberUpToDate
PROPERTIES CacheAdvances LinkNotTakenBack
