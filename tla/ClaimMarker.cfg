SPECIFICATION Spec
CONSTANTS
  MaxBackups = 7
  Foreign = {1}
  KeepLast = 1
  MaxCrashes = 1
  MaxIOErrors = 2
  MaxNetErrors = 2
  MaxDamage = 1
  MaxFaults = 2
  MarkerFaults = TRUE
  LateKinds = {"db"}
INVARIANT
  MarkerMeansDatabase
CHECK_DEADLOCK FALSE
