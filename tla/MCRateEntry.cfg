\* Two clients counted by client.ip.
SPECIFICATION MCSpec
CONSTANTS
  Explored = {"counters"}
  Counters = {"rc"}
  Clients <- TwoClients
  Bare = {TRUE}
  Boxes = {"pb"}
  Windows = {2}
  Pairs <- WindowPairs
  Thresholds = {1, 2}
  Deltas = {1}
  Ttls = {2}
  DefaultWindow = 2
  NoCounter = NoCounter
  Buckets = {"k"}
  Limits = {1, 2}
  BucketWindows = {2, 3}
  NoBucket = NoBucket
  MaxTime = 6
  MaxCharges = 4
  MaxRequests = 7
  r1 = r1
  r2 = r2
  Requests = {r1, r2}
  Touched = {"main", "api"}
  Server = Server
  None = None
  Throws = Throws
  MaxPasses = 2
  MaxCalls = 1
  MaxMarks = 1
  Sims = {s1, s2, s3}
  Base = Base
  NoBase = NoBase
  MaxTurns = 1
INVARIANTS
  RefusedForOwn
