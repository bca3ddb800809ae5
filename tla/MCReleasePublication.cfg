SPECIFICATION Spec
CONSTANTS
  p1 = p1  p2 = p2
  Runs = {p1, p2}
  NoRun = NoRun
  None = None
  Size <- MCSize
  MaxCount = 3
  MaxBytes = 5
  MaxReleases = 5
  MaxTicks = 1
  MaxFaults = 2
  MaxRollbacks = 1
INVARIANT RootSound ServedComplete OneRunPerKill
PROPERTY NeverOlder PredecessorKept
