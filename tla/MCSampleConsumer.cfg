SPECIFICATION FairSpec
CONSTANTS
  Adders = {a1, a2}
  Controllers = {c1, c2}
  SIZE = 2
  NoSample = NoSample
  NoThread = NoThread
  MaxSamples = 3
  MaxCalls = 2
INVARIANTS TypeOK ExitDrains OnlyOverlapTerminates
PROPERTIES ImplementsSampleQueue SamplesConsumed ExitsReturn
