SPECIFICATION Spec
CONSTANTS
  w1 = w1
  w2 = w2
  r1 = r1
  git = git
  image = image
  Workers = {w1, w2}
  Resolvers = {r1}
  Sources = {git, image}
  Images = {image}
  Credentialed = {git}
  MaxDeployments = 1
  MaxSettings = 0
  MaxRepeats = 1
PROPERTIES
  BuildsSettle
CHECK_DEADLOCK FALSE
