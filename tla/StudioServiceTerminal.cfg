SPECIFICATION Spec
CONSTANTS
  ui = ui
  Callers = {ui}
  MaxRuns = 1
  MaxWorkers = 1
  MaxBoth = 2
  Stiff = {}
  StoreFails = FALSE
PROPERTIES
  TerminalIsForGood
CHECK_DEADLOCK FALSE
