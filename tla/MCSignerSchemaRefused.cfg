SPECIFICATION UpgradeSpec
CONSTANTS
  OldStores <- MCStores
  NoStart = NoStart
  MaxRuns = 4
INVARIANT NeverRefused
CHECK_DEADLOCK FALSE
