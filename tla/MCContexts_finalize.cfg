SPECIFICATION FairSpec
CONSTANTS
  NoContext = NoContext
  NoThread = NoThread
  ContextIds = {a, b}
  Counting = {a, b}
  Callers = {t1, t2}
  Readers = {}
  Finalizers = {m}
  MaxCalls = 1
INVARIANTS CountCoversSlots OnlyOverlapsHarm
PROPERTIES CallsReturn
