SPECIFICATION Spec
CONSTANTS
  Nobody = Nobody
  Torn = Torn
  w1 = w1
  d1 = d1
  b1 = b1
  Writers = {w1}
  Discarders = {d1}
  Bases = {b1}
  MaxAttempts = 1
  Careful = FALSE
SYMMETRY WriterSymmetry
PROPERTIES
  DiscardSparesFinalized
CHECK_DEADLOCK FALSE
