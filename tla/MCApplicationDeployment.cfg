INIT Init
NEXT Next
CONSTANTS
  w1 = w1
  w2 = w2
  r1 = r1
  git = git
  image = image
  Workers = {w1, w2}
  Resolvers = {r1}
  Sources = {git, image}
  Images = {image}
  Credentialed = {git}
  MaxDeployments = 2
  MaxSettings = 1
  MaxRepeats = 1
SYMMETRY Symmetry
CONSTRAINT OneKindOfTrouble
INVARIANTS
  TypeOK
  OneDeployed
  ServedIsDeployed
  
  DeletedIsNotServed
CHECK_DEADLOCK FALSE
