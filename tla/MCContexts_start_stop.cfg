SPECIFICATION Spec
CONSTANTS
  NoContext = NoContext
  NoThread = NoThread
  ContextIds = {a, b}
  Counting = {a, b}
  Callers = {t1, t2}
  Readers = {r}
  Finalizers = {}
  MaxCalls = 2
SYMMETRY ContextSymmetry
INVARIANTS TypeOK CountCoversSlots OnlyOverlapsHarm LookupsComplete
PROPERTY ImplementsActiveSet
