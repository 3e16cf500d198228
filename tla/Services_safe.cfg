CONSTANTS
  Codes <- MCCodes
  c1 = c1
  c2 = c2
  Callers = {c1, c2}
  Timeout = 1
  Jitter = 0
  MaxScriptedTimeout = 1
  TTL = 0
  TokenLife = 2
  StoreKinds = {"nil", "incomplete", "expiring"}
  MaxFaults = 1
  MaxModified = 2
  MaxClock = 2
  MaxPushed = 1
  Scrapers = {1, 2}
  Keys = {1, 2, 3}
  Unsplittable = {3}
  MaxExecutions = 3
  MaxPushes = 2
  Resolvers = {1, 2, 3}
  Directories <- MCDirectories
  Overrides = {0, 2}
  Constraints <- MCConstraints
  LogLimit = 2
  Deadline = 5
  CheckTimeout = 2
  GraceTime = 1
  Backoff = 2
  Payloads = {1, 2}
  PartsOf <- MCPartsOf
  MaxRotations = 1
  Records <- MCRecords
  BufferSizes = {1, 2, 3, 100}
  MaxRegions = 4
  MaxInt64 = 31
  Frequencies = {0, 1, 59, 60, 119, 120, 180, 3600, 3601}
  Timeouts = {0, 1, 29, 30, 60, 61, 180, 181}
  SettingsSets <- MCSettingsSets
  MaxScriptedSeconds = 180
SPECIFICATION ServicesSpec
INVARIANTS RetriedIffTransient NeverOlderAnswer ValidHasToken NoExecutionLost
  FinalMessageComplete ResolvesHighest RetriesEnd  V1Accounted
  ReadsOneBlock IdsAreKept ValidChecksRun WireRoundTrip WireTolerant
PROPERTIES CacheNeverOlder MessagesGrow
SYMMETRY CallerSymmetry
CHECK_DEADLOCK FALSE
