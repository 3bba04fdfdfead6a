SPECIFICATION Spec
CONSTANTS
  c1 = c1
  c2 = c2
  Calls = {c1, c2}
  Methods <- SetupAndDebits
  MaxRetries = 1
  Budget = 3
  Amounts = {2}
  NoClient = NoClient
INVARIANTS TypeOK RaisedMeansUnsent ResultsDoNotFlatter ClientIsShared
PROPERTIES KeepsBudgetContract EveryCallEnds
CHECK_DEADLOCK FALSE
