SPECIFICATION FrontFairSpec
CONSTANTS
  Capacity = 2
  MaxEvents = 4
  MaxJobs = 2
  MaxWorkers = 2
  MaxCalls = 2
  MaxBoth = 3
  Answers = {"Completed"}
  Stiff = {2}
INVARIANTS
  FrontTypeOK
  SettledIsTrue
  LostWorkerIsNoticed
PROPERTIES
  NeverBackwards
  GapIsExact
  ShownRunFollows
CHECK_DEADLOCK FALSE
