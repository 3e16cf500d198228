SPECIFICATION Spec
CONSTANTS
  Checks = {1, 2}
  Invalid <- MCInvalid
  Gated <- MCGated
  MaxAttempt = 1
  MaxSessions = 3
  MaxEdits = 2
  MaxFaults = 1
  FullBatches = {TRUE, FALSE}
  OtherEnds = {"EOF", "Canceled", "PermissionDenied", "Unimplemented"}
  CanShutdown = TRUE
INVARIANTS ScrapersAccounted InSync HandlerIsFed
CHECK_DEADLOCK FALSE
