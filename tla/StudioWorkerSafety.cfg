SPECIFICATION Spec
CONSTANTS
  r1 = r1
  r2 = r2
  r3 = r3
  NoRequest = NoRequest
  Requests = {r1, r2, r3}
  Stiff = {}
  MaxSteps = 1
  MaxSends = 5
  MayCrash = FALSE
SYMMETRY RequestSymmetry
INVARIANTS
  TypeOK
  StartsInArrivalOrder
  NoIdleBacklog
  TerminalIsFinal
CHECK_DEADLOCK FALSE
