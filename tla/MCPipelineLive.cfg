\* Liveness: two requests, each restarting once, no symmetry.
SPECIFICATION FairSpec
CONSTANTS
  r1 = r1
  r2 = r2
  k1 = k1
  k2 = k2
  Requests = {r1, r2}
  Keys = {k1}
  NoKey = NoKey
  NoEntry = NoEntry
  Nobody = Nobody
  MaxRestarts = 1
  Ttls = {1}
  Windows = {1}
  DefaultTtl = 1
  DefaultWindow = 1
  ScriptRestarts = {}
  ScriptStatuses = {}
  MaxTime = 1
PROPERTIES
  EveryRequestAnswered
