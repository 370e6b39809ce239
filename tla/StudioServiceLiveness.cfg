SPECIFICATION FairSpec
CONSTANTS
  ui = ui
  menu = menu
  Callers = {ui, menu}
  MaxRuns = 2
  MaxWorkers = 1
  MaxBoth = 3
  Stiff = {1}
  StoreFails = FALSE
PROPERTIES
  SlotIsFreed
  ShutdownStopsWorkers
CHECK_DEADLOCK FALSE
