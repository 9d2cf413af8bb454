SPECIFICATION Spec
CONSTANTS
  t1 = t1
  s1 = s1
  s2 = s2
  viewer = viewer
  worker = worker
  Topics = {t1}
  Subscriptions = {s1, s2}
  Goroutines = {viewer, worker}
  Recovering = {viewer}
  BufferLength = 1
  Nobody = Nobody
  NoSubscription = NoSubscription
INVARIANTS TypeOK OpenIsReachable OnlyPublishPanics
PROPERTIES
  CallsReturn
CHECK_DEADLOCK FALSE
