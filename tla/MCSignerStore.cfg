SPECIFICATION Spec
CONSTANTS
  daemon = daemon  cron = cron  a = a  b = b
  Collectors = {daemon, cron}
  Cron = {cron}
  Rooms = {1, 2}
  Rank <- MCRank
  Listings = {{1}, {1, 2}}
  Dids = {a, b}
  Windows <- MCWindows
  MaxSpan = 2
  MaxSeconds = 1
  ReadBudget = 2
  RoomsKept = 2
  DayLength = 1
  Sources <- MCSources
  None = None
  MaxEpoch = 9
  MaxClock = 1
  MaxTicks = 3
INVARIANT StoreMatchesHistory CensusKept FramesCovered MirrorHasStore
CHECK_DEADLOCK FALSE
