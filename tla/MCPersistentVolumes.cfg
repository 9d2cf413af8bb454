CONSTANTS
  s1 = s1
  s2 = s2
  r1 = r1
  w1 = w1
  w2 = w2
  b1 = b1
  x1 = x1
  Servers = {s1, s2}
  Resolvers = {r1}
  Workers = {w1, w2}
  Backups = {b1}
  Restores = {x1}
  MaxVolumes = 2
  MaxExtras = 1
  MaxRequests = 2
  MaxBindings = 1
SPECIFICATION MCSpec
INVARIANTS TypeOK  
 
CHECK_DEADLOCK FALSE
