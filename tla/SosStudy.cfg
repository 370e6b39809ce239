SPECIFICATION Spec
CONSTANTS
  simulate = simulate
  spectrum = spectrum
  cfg = cfg
  other = other
  v1 = v1
  v2 = v2
  Lock = Lock
  Stages = {1, 2, 3}
  Consumes <- TwoSpectra
  Plugin <- CatalogPlan
  Produce <- Compute
  Studies <- TwoStudies
  Bindings <- TwoBindings
  Builds = {v1, v2}
  MaxRuns = 4
INVARIANTS
  TypeOK
  RecordedIsStored
  VerdictIsTrue
PROPERTIES
  RecordedIsCached
  ImplementsPureStudy
CHECK_DEADLOCK FALSE
