SPECIFICATION Spec
CONSTANTS
  p1 = p1  p2 = p2  opA = opA   tickX = tickX  tickY = tickY
  Procs = {p1, p2}
  NoProc = NoProc
  Ops = {opA}
  NoOp = NoOp
  Payloads = {tickX, tickY}
  NoLine = NoLine
  None = None
  Requests <- MCRequests
  LegacyTicks = 0
  RecordBytes = 3
  MaxCalls = 3
  MaxFaults = 2
  MaxExternal = 1
CHECK_DEADLOCK FALSE
INVARIANT RInv ChainIntact NeverWedged
PROPERTY LedgerOnlyGrows ImplementsAppendOnceLog
