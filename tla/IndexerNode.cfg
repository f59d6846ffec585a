CONSTANTS
  p1 = p1
  p2 = p2
  i1 = i1
  i2 = i2
  i3 = i3
  NilItem = NilItem
  Producers <- TwoProducers
  Items <- ThreeItems
  Settings <- TheSettings
  Poison = {}
  CacheSize = 1
  BackOffTime = 10
  MaxBackOff = 13
  ErrorRetryTime = 3
SPECIFICATION NodeFairSpec
INVARIANTS
  NodeTypeOK
  NothingLostOrReordered
  Backpressure
  BackOffBounds
  RecordsOfLastSaved
PROPERTIES
  ImplementsDispatcher
  Sequential
  EventuallySaved
  AddReturns
  CloseStopsWorker
