SPECIFICATION FairSpec
CONSTANTS
  Daemons = {d}
  Censuses = {c1, c2}
  Recoveries = {r}
  NoProc = NoProc
  None = None
  Shards = 2
  MaxPasses = 2
  MaxTicks = 2
  MaxWalks = 2
  MaxFaults = 2
  MaxLostCommits = 1
INVARIANT TypeOK LedgerMatchesStore
PROPERTY NoWalkDiscarded OutboxDrained
