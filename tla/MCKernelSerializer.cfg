SPECIFICATION FairSpec
CONSTANTS
  Queues = {q1, q2}
  Contexts = {c1}
  NoQueue = NoQueue
  NoContext = NoContext
  TRACED = FALSE
  MaxKernels <- TwoAndOne
  q1 = q1
  q2 = q2
  MaxStarts = 2
  Spent <- BothQueuesOrTwoStarts
CHECK_DEADLOCK FALSE
INVARIANTS TypeOK LineIsServed SerializedAlone CheckHolds DestroyedQueuesUnused
PROPERTIES KernelsFinish
