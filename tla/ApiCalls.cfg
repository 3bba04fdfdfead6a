SPECIFICATION Spec
CONSTANTS
  c1 = c1
  c2 = c2
  k1 = k1
  Calls = {c1, c2}
  Methods <- AnyAndPreAuthorize
  Inputs <- AnyInput
  KeyOf <- OneKey
  MaxRetries <- TwoAndNone
INVARIANTS TypeOK RepeatIsInDoubt RefusalMeansNoEffect ResultHasEffect
PROPERTIES KeepsPromise EveryCallEnds
CHECK_DEADLOCK FALSE
