SPECIFICATION Spec
CONSTANTS
  r1 = r1
  r2 = r2
  k1 = k1
  Calls = {r1, r2}
  Keys = {k1}
  KeyOf <- SharedKey
  NoCall = NoCall
  NoRequest = NoRequest
  Routes <- AllRoutes
  Grants <- SomeGrants
  Methods <- AnyMethod
  Foreign <- ForeignChallenge
  Budget = 5
  BudgetTries = 2
  MaxTime = 1
INVARIANTS TypeOK DebitIsConsented DrawIsGranted PaidIsHonoured
PROPERTIES GivesPaidAccess SettledIsServed EveryRequestIsDecided
CHECK_DEADLOCK FALSE
