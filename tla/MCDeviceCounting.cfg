SPECIFICATION FairSpec
CONSTANTS
  Threads = {t1, t2}
  t1 = t1
  t2 = t2
  None = None
  Profiles = {"none", "constants", "hardware"}
  MaxCalls = 4
  MaxReads = 2
CHECK_DEADLOCK FALSE
INVARIANTS TypeOK ServiceMatchesContext SamplesReachReaders
PROPERTIES ExitIsFinal CallsReturn
