SPECIFICATION FairSpec
CONSTANTS
  Capacity = 2
  NoAddr = NoAddr
  NoRecord = NoRecord
  NoThread = NoThread
  Producers = {p1}
  Flushers = {f1}
  Finalizers = {}
  Lossless = TRUE
  Watermark = 2
  MaxRecords = 3
  MaxFlushes = 2
INVARIANT OnlyLateEmplacesHarm
PROPERTIES ImplementsFlushCycle CallsReturn FlushEnds
