SPECIFICATION UpgradeSpec
CONSTANTS
  OldStores <- MCStores
  NoStart = NoStart
  MaxRuns = 4
INVARIANT ReadyIsComplete VersionIsLast
PROPERTY AlternationsStay
CHECK_DEADLOCK FALSE
