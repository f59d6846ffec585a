CONSTANTS
  p1 = p1
  p2 = p2
  i1 = i1
  i2 = i2
  i3 = i3
  NilItem = NilItem
  Producers <- TwoProducers
  Items <- OneItem
  Settings <- Unsavable
  Poison <- OneItem
  CacheSize = 0
  BackOffTime = 10000
  MaxBackOff = 300000
  ErrorRetryTime = 3000
SPECIFICATION NodeFairSpec
PROPERTY CloseStopsWorker
