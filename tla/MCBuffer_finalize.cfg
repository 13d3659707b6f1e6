SPECIFICATION Spec
CONSTANTS
  Capacity = 1
  NoAddr = NoAddr
  NoRecord = NoRecord
  NoThread = NoThread
  Producers = {p1, p2}
  Flushers = {}
  Finalizers = {m}
  Lossless = FALSE
  Watermark = 1
  MaxRecords = 2
  MaxFlushes = 0
SYMMETRY Symmetry
INVARIANTS EveryRecordAccounted FinalizeDrains
