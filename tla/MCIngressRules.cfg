INIT Init
NEXT Next
CONSTANTS
  p1 = p1
  p2 = p2
  w1 = w1
  w2 = w2
  r1 = r1
  app = app
  external = external
  Proxies = {p1, p2}
  Workers = {w1, w2}
  Resolvers = {r1}
  Inputs <- SharedInputs
  External = {external}
  MaxRules = 2
  MaxExtras = 1
SYMMETRY Symmetry
CONSTRAINTS OneKindOfTrouble OneRedirectAtATime
INVARIANTS
  TypeOK
  AppliedIsLinked
  LinkedBackendExists
  LinkHasRule
  DeletingIsAttended
  RedirectFollowsRule
CHECK_DEADLOCK FALSE
