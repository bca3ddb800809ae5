SPECIFICATION Spec
CONSTANTS
  Routes = {"/healthz", "/rooms"}
  Answers <- MCAnswers
  Health = "/healthz"
  MaxAttempts = 2
  MaxIncidents = 2
  GapSeconds = 1
  None = None
  Delay = 1
  MaxTime = 3
  MaxRows = 4
  MaxLines = 2
  MaxSize = 4
INVARIANT TypeOK CarryExact
PROPERTY OpenContinue
CHECK_DEADLOCK FALSE
