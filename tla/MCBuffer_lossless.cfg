SPECIFICATION Spec
CONSTANTS
  Capacity = 2
  NoAddr = NoAddr
  NoRecord = NoRecord
  NoThread = NoThread
  Producers = {p1, p2}
  Flushers = {}
  Finalizers = {}
  Lossless = TRUE
  Watermark = 2
  MaxRecords = 3
  MaxFlushes = 0
INVARIANT NothingLost
