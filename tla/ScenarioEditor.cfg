SPECIFICATION Spec
CONSTANTS
  Texts = {t0, t1, t2}
  Empty = t0
  Valid = {t1}
  t0 = t0
  t1 = t1
  t2 = t2
INVARIANT CleanMeansSaved
CHECK_DEADLOCK FALSE
