SPECIFICATION Spec
CONSTANTS
  Settings = {0, 1, 2, 3}
  Initial = 3
  LongestRetryAfter = 4
INVARIANTS TypeOK AttemptsAreBounded SleepIsBounded
PROPERTIES BackoffGrows
CHECK_DEADLOCK FALSE
