SPECIFICATION Spec
CONSTANTS
  ui = ui
  menu = menu
  Callers = {ui, menu}
  MaxRuns = 2
  MaxWorkers = 2
  MaxBoth = 3
  Stiff = {1}
  StoreFails = TRUE
SYMMETRY CallerSymmetry
INVARIANTS
  TypeOK
  SlotAgreesWithJobs
  InterruptedHasNoOutcome
  CompletedIsStored
  WorkFollowsSlot
  NoHiddenWorker
PROPERTIES
  FinalizedForGood
CHECK_DEADLOCK FALSE
