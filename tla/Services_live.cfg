CONSTANTS
  Tenants = {1}
  Clients = {1}
  MaxPayloads = 1
  MaxRuns = 2
  Callers = {1, 2}
  Timeout = 1
  Jitter = 0
  MaxScriptedTimeout = 1
  TTL = 0
  TokenLife = 1
  StoreKinds = {"nil"}
  MaxFaults = 0
  MaxModified = 1
  MaxClock = 1
  MaxPushed = 1
  Requests = {1, 2}
  Refused = {2}
  WithTenant = {1, 2}
  MaxBackoff = 2
  AdHocMaxFaults = 2
SPECIFICATION LiveSpec
PROPERTIES PausesEnd ShutdownCompletes CallsReturn AdHocAnswered AdHocReconnects
CHECK_DEADLOCK FALSE
