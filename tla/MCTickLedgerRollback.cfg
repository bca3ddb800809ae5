SPECIFICATION RollbackSpec
CONSTANTS
  p1 = p1  p2 = p2  opA = opA  opB = opB  tickX = tickX  tickY = tickY
  Procs = {p1, p2}
  NoProc = NoProc
  Ops = {opA, opB}
  NoOp = NoOp
  Payloads = {tickX, tickY}
  NoLine = NoLine
  None = None
  Requests <- MCRequests
  LegacyTicks = 1
  RecordBytes = 2
  MaxCalls = 3
  MaxFaults = 1
  MaxExternal = 2
CHECK_DEADLOCK FALSE
PROPERTY RolledBackIsFrozen
