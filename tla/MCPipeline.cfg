\* Two requests on one key, each restarting once.
SPECIFICATION Spec
CONSTANTS
  r1 = r1
  r2 = r2
  k1 = k1
  k2 = k2
  Requests = {r1, r2}
  Keys = {k1}
  NoKey = NoKey
  NoEntry = NoEntry
  Nobody = Nobody
  MaxRestarts = 1
  Ttls <- TtlChoices
  Windows = {0}
  DefaultTtl = 1
  DefaultWindow = 1
  ScriptRestarts = {}
  ScriptStatuses = {}
  MaxTime = 2
SYMMETRY Symmetry
INVARIANTS
  TypeOK
  RestartBound
  HitIsLive
  BerespOfThisPass
  StaleServedOnce
  IInv
PROPERTIES
  FreshIsKept
  StoreRule
  ImplementsAtomicCache
