SPECIFICATION FairSpec
CONSTANTS
  Threads = {t1, t2}
  t1 = t1
  t2 = t2
  MaxIds = 2
  MaxKernels = 2
  MaxCopies = 2
  MaxDepth = 2
  Instances <- Small
CHECK_DEADLOCK FALSE
INVARIANTS TypeOK RefsCountHolders RetirementIsLast
PROPERTIES IdsRetire 
