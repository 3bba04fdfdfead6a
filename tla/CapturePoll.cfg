SPECIFICATION Spec
CONSTANTS
  c1 = c1
  c2 = c2
  k1 = k1
  Calls = {c1}
  Keys = {k1}
  KeyOf <- SharedKey
  MaxRetries <- OneRetry
  NoCall = NoCall
  NewDebit = {"CREATED", "PROCESSED"}
PROPERTIES PollingNeverRaises
CHECK_DEADLOCK FALSE
