SPECIFICATION FairSpec
CONSTANTS
  Procs = {daemon}
  NoProc = NoProc
  Names = {a}
  Classes = {"signed", "other"}
  SecondSender <- MCSecondSender
  Stages = {1, 2}
  ReadBudget = 1
  BatchLimit = 2
  FinalizationLimit = 1
  Window = 2
  ClockLead = 1
  MaxTime = 4
  CreationTimes <- MCApart
  MaxEvents = 2
  MaxSteps = 0
PROPERTY ChecksSettle
CHECK_DEADLOCK FALSE
