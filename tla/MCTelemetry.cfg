SPECIFICATION Spec
CONSTANTS
  A = A  B = B
  Metered = {"/rooms"}
  Health = "/healthz"
  Discovery = {"/config"}
  Digests = {A, B}
  None = None
  Retention = 1
  Cadence = 1
  BatchSize = 3
  SnapshotPages = 1
  PressurePages = 7
  MaxPages = 10
  Collectors = {"collector"}
  Pulses = {"pulse"}
  Timeout = 1
  Delays = {0, 1}
  Deadlines = {0, 2}
  MaxRetries = 1
  MaxRequests = 2
  MaxCycles = 2
  StartTime = 2
  MaxNow = 3
  OldCycles <- MCCycles
  OldAttempts <- MCAttempts
  OldSnapshots <- MCSnapshots
  MaxFaults = 2
CHECK_DEADLOCK FALSE
INVARIANT HistoryKept RunningHasWriter SuccessIsComplete OnlyFreshRefuse
