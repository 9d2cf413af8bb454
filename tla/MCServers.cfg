CONSTANTS
  s1 = s1
  s2 = s2
  w1 = w1
  r1 = r1
  r2 = r2
  w2 = w2
  Servers = {s1, s2}
  Resolvers = {r1, r2}
  Workers = {w1, w2}
  NoServer = NoServer
  MaxQueued = 1
  MaxExtras = 0
  MaxRequests = 3
  MaxOutages = 1
INIT MCInit
NEXT MCNext
SYMMETRY Symmetry
INVARIANTS TypeOK RowFollowsSwarm OneSwarm
CHECK_DEADLOCK FALSE
