SPECIFICATION Spec
CONSTANTS
  Procs = {daemon, cron}
  NoProc = NoProc
  Names = {a, b}
  Classes = {"signed", "other"}
  SecondSender <- MCSecondSender
  Stages = {2}
  ReadBudget = 1
  BatchLimit = 2
  FinalizationLimit = 1
  Window = 2
  ClockLead = 1
  MaxTime = 4
  CreationTimes <- MCApart
  MaxEvents = 2
  MaxSteps = 1
INVARIANT RollupExact CoverageExact SupersededJustified
PROPERTY RoomsAdvance
SYMMETRY Symmetry
CHECK_DEADLOCK FALSE
