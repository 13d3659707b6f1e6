SPECIFICATION Spec
CONSTANTS
  Capacity = 1
  NoAddr = NoAddr
  NoRecord = NoRecord
  NoThread = NoThread
  Producers = {p1, p2}
  Flushers = {}
  Finalizers = {}
  Lossless = TRUE
  Watermark = 1
  MaxRecords = 2
  MaxFlushes = 0
SYMMETRY Symmetry
INVARIANTS TypeOK OnlyLateEmplacesHarm FlushExclusive RequestsCounted
