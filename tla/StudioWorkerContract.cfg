SPECIFICATION FairSpec
CONSTANTS
  r1 = r1
  r2 = r2
  NoRequest = NoRequest
  Requests = {r1, r2}
  Stiff = {r2}
  MaxSteps = 1
  MaxSends = 4
  MayCrash = TRUE
PROPERTIES
  ImplementsContract
  ContractAnswering
  ShutdownEnds
CHECK_DEADLOCK FALSE
