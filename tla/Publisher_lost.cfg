CONSTANTS
  c1 = c1
  c2 = c2
  Tenants = {1}
  Clients = {c1, c2}
  MaxPayloads = 2
  MaxRuns = 1
SPECIFICATION Spec
PROPERTY PublishReachesRunner
CHECK_DEADLOCK FALSE
