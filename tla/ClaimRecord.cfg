SPECIFICATION Spec
CONSTANTS
  MaxBackups = 7
  Foreign = {1}
  KeepLast = 1
  MaxCrashes = 1
  MaxIOErrors = 2
  MaxNetErrors = 2
  MaxDamage = 1
  MaxFaults = 2
  MarkerFaults = FALSE
  LateKinds = {"db"}
INVARIANT
  RecordMeansObject
CHECK_DEADLOCK FALSE
