CONSTANTS
  Codes = {200, 400, 401, 403, 429, 500}
  MaxPushBytes = 2
  MaxQueuedBytes = 3
  MaxQueuedTime = 1
  MaxRetries = 1
  Sizes = {1, 3}
  Answers <- MCAnswers
  MaxRecords = 3
  MaxTime = 2
  MaxRuns = 1
SPECIFICATION FairSpec
INVARIANTS NoStrandedData BufferOwnership WithinLimits
PROPERTIES MetricsAccount FifoSpec Drains
CHECK_DEADLOCK FALSE
