SPECIFICATION Spec
CONSTANTS
  Nobody = Nobody
  Torn = Torn
  w1 = w1
  w2 = w2
  w3 = w3
  d1 = d1
  b1 = b1
  Writers = {w1, w2, w3}
  Discarders = {d1}
  Bases = {b1}
  MaxAttempts = 2
  Careful = TRUE
SYMMETRY WriterSymmetry
INVARIANTS
  TypeOK
  FinalVerifies
  OwnDirectory
PROPERTIES
  FinalIsForGood
CHECK_DEADLOCK FALSE
