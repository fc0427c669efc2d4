\* Rate counters whose callers agree on the window, token buckets, two
\* requests that share the server's directors, and three simulations.
SPECIFICATION MCSpec
CONSTANTS
  Explored = {"counters", "buckets", "backends", "platform"}
  Counters = {"rc"}
  Clients <- OneClient
  Bare = {FALSE}
  Boxes = {"pb"}
  Windows = {2}
  Pairs <- WindowPairs
  Thresholds = {1, 2}
  Deltas = {1}
  Ttls = {2}
  DefaultWindow = 2
  NoCounter = NoCounter
  Buckets = {"k"}
  Limits = {1, 2}
  BucketWindows = {2, 3}
  NoBucket = NoBucket
  MaxTime = 6
  MaxCharges = 4
  MaxRequests = 7
  r1 = r1
  r2 = r2
  Requests = {r1, r2}
  Touched = {"main", "api"}
  Server = Server
  None = None
  Throws = Throws
  MaxPasses = 2
  MaxCalls = 1
  MaxMarks = 1
  Sims = {s1, s2, s3}
  Base = Base
  NoBase = NoBase
  MaxTurns = 1
SYMMETRY Symmetry
INVARIANTS
  SharedTypeOK
  CountIsWindowSum
  SlidingBound
  RefusedForCause
  PenaltyServed
  BucketGrantBound
  BucketDeniedForCause
  BerespNamesAnswerer
  FallbackIsOther
  FailureIsGateway
  PlatformNests
PROPERTIES
  AskedWhileHealthy
