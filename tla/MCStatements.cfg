\* Some two thousand programs, two statements on headers, three on locals,
\* two on predefined variables, five hundred call graphs, lists of two
\* entries, and two changes of a query string.
SPECIFICATION MCSpec
CONSTANTS
  Explored = {"interpreter", "headers", "locals", "predefined", "calls", "acl", "query"}
  Programs <- MCPrograms
  MaxDepth = 6
  MaxEvals = 2
  Absent = Absent
  IntBits = 4
  Scopes = {"req", "bereq"}
  Names <- MCNames
  Inbound <- MCInbound
  Literals <- MCLiterals
  Keys <- MCKeys
  Separators <- MCSeparators
  BaseOverhead = 8
  MaxWorkspace = 48
  MaxStatements = 2
  LocalNames = {"p", "q"}
  Params <- MCParams
  Constants <- MCConstants
  Operators = {"=", "+=", "rol=", "ror=", ">>=", "<<="}
  MaxFrames = 2
  MaxSets = 3
  MaxText = 3
  Declared <- MCDeclared
  Assigned <- MCAssigned
  MaxRtime = 99
  MaxAssignments = 2
  Graphs <- MCGraphs
  MaxTree = 3
  NoCost = NoCost
  ByteBits = 2
  Bytes <- MCBytes
  Loopbacks <- MCLoopbacks
  Localhost = Localhost
  Junk = Junk
  NoMask = NoMask
  NoEntry = NoEntry
  Lists <- MCLists
  Added <- MCAdded
  Queries <- MCQueries
  MaxEdits = 1
  Unset = Unset
  Bytewise <- MCBytewise
  Urls <- MCUrls
  ParamNames <- MCParamNames
  ParamValues <- MCParamValues
  Globs <- MCGlobs
  MaxMatchers = 1
  MaxChanges = 2
CHECK_DEADLOCK FALSE
INVARIANTS
  StatementsTypeOK
  GotosLand
  ErrorStatementWins
  AccountCoversHeaders
  SubfieldsApart
  BitsMove
  PredefinedApart
  VerdictExact
  AclLongest
  OthersRead
PROPERTIES
  ForwardOnly
  Terminates
  ParametersRestored
