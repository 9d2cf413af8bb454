CONSTANTS
  Tokens = {t1}
  Requests = {r1, r2}
  NoToken = NoToken
SPECIFICATION MCSpec
INVARIANTS ConsoleTypeOK
PROPERTIES UsedTokenIsDead ConsoleEnds
CHECK_DEADLOCK FALSE
