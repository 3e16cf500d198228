CONSTANTS
  Codes = {200, 400, 401, 403, 429, 500}
  MaxPushBytes = 2
  MaxQueuedBytes = 0
  MaxQueuedTime = 1
  MaxRetries = 1
  Sizes = {1}
  Answers <- MCAnswers
  MaxRecords = 3
  MaxTime = 2
  MaxRuns = 1
SPECIFICATION Spec
INVARIANT DroppedIsCounted
CHECK_DEADLOCK FALSE
