SPECIFICATION Spec
CONSTANTS
  MaxBackups = 7
  Foreign = {1}
  KeepLast = 1
  MaxCrashes = 1
  MaxIOErrors = 2
  MaxNetErrors = 2
  MaxDamage = 1
  MaxFaults = 2
  MarkerFaults = FALSE
  LateKinds = {"db"}
INVARIANTS
  TypeOK
  MarkerMeansDatabase
  ProtectedBackupOpens
  RequiredReplicaKept
  RetentionLeavesPolicy
PROPERTIES
  RetentionSpares
  ImplementsPromise
CHECK_DEADLOCK FALSE
