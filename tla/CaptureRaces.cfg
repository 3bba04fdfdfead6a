SPECIFICATION Spec
CONSTANTS
  c1 = c1
  c2 = c2
  k1 = k1
  Calls = {c1, c2}
  Keys = {k1}
  KeyOf <- SharedKey
  MaxRetries <- TwoAndOne
  NoCall = NoCall
  NewDebit = {"CREATED", "PROCESSED"}
INVARIANTS TypeOK ReportsOwnDebit RefusalMeansNoDebit
PROPERTIES KeepsContract KeepsPromise EveryCallEnds NoRepostAfter202
CHECK_DEADLOCK FALSE
