SPECIFICATION FairSpec
CONSTANTS
  r1 = r1  r2 = r2
  Requests = {r1, r2}
  Asks <- MCAsks
  Capacity = 1
  Stages = {1, 2}
  After <- MCAfter
  Length <- MCLength
  Results = {"present_at_last_check"}
  None = None
  MaxGenerations = 2
  MaxNow = 3
INVARIANT SlotsExact EndpointsAgree AnswersUpToDate
PROPERTY SlotsReturn
