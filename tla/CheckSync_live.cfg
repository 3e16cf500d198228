SPECIFICATION FairSpec
CONSTANTS
  Checks = {1}
  Invalid <- MCInvalid
  Gated <- MCGated
  MaxAttempt = 1
  MaxSessions = 3
  MaxEdits = 1
  MaxFaults = 2
  FullBatches = {FALSE}
  OtherEnds = {}
  CanShutdown = TRUE
PROPERTY Converges
CHECK_DEADLOCK FALSE
