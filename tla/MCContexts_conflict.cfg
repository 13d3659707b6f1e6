SPECIFICATION Spec
CONSTANTS
  NoContext = NoContext
  NoThread = NoThread
  ContextIds = {a, b}
  Counting = {a, b}
  Callers = {t1, t2}
  Readers = {}
  Finalizers = {}
  MaxCalls = 1
INVARIANT ConflictsExcluded
