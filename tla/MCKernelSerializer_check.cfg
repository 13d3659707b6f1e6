SPECIFICATION Spec
CONSTANTS
  Queues = {q1, q2}
  Contexts = {c1}
  NoQueue = NoQueue
  NoContext = NoContext
  TRACED = FALSE
  MaxKernels <- TwoAndOne
  q1 = q1
  q2 = q2
  MaxStarts = 2
  Spent <- OneQueue
CHECK_DEADLOCK FALSE
INVARIANTS CheckNeverFails
