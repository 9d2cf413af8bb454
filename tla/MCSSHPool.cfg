CONSTANTS
  Hosts = {h1}
  Callers = {c1, c2}
  Entries = {e1, e2, e3}
  NoHost = NoHost
  NoEntry = NoEntry
  Nobody = Nobody
SPECIFICATION FairSpec
INVARIANTS TypeOK OpenIsPooled
PROPERTIES  DeadIsReplaced
