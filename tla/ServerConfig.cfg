SPECIFICATION Spec
CONSTANTS
  t1 = t1
  t2 = t2
  t3 = t3
  Threads = {t1, t2, t3}
  Configs <- SomeConfigs
INVARIANTS TypeOK ExplicitSettingsKept InstancesUseEnvironmentDefaults LatencyWithinBuffer
CHECK_DEADLOCK FALSE
