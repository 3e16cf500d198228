CONSTANTS
  Frequencies = {3, 12}
  Offsets = {0, 1}
  maxPublishInterval = 3
  minPublishGap = 2
  MaxWork = 3
  MaxTime = 17
SPECIFICATION PromptSpec
INVARIANTS TimestampsIncrease LogsOnce StaysFresh ExecutionsPublished SeriesEnded
PROPERTY StopEnds
CHECK_DEADLOCK FALSE
