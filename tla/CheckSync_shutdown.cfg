SPECIFICATION FairSpec
CONSTANTS
  Checks = {1, 2}
  Invalid <- MCInvalid
  Gated <- MCGated
  MaxAttempt = 1
  MaxSessions = 1
  MaxEdits = 2
  MaxFaults = 0
  FullBatches = {FALSE}
  OtherEnds = {}
  CanShutdown = TRUE
PROPERTY ShutdownEndsRun
CHECK_DEADLOCK FALSE
