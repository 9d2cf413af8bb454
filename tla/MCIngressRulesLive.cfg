SPECIFICATION Spec
CONSTANTS
  p1 = p1
  p2 = p2
  w1 = w1
  w2 = w2
  r1 = r1
  app = app
  external = external
  Proxies = {p1}
  Workers = {w1}
  Resolvers = {r1}
  Inputs <- MixedInputs
  External = {external}
  MaxRules = 2
  MaxExtras = 1
PROPERTIES
  DeletingSettles
CHECK_DEADLOCK FALSE
