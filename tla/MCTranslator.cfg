CONSTANTS
  Specs <- MCSpecs
  Entries <- MCEntries
  Compared <- MCCompared
  Emissions = {good, wrong, slow}
  Wrong = {wrong}
  Slow = {slow}
  Threshold = 2
  MaxRuns = 2
  None = None
  Torn = Torn
  strict = strict
  reworded = reworded
  uncompared = uncompared
SPECIFICATION Spec
INVARIANTS
  
  DivergencesExplainRepairs
  RunsAreReproducible
  IdsIdentifyTranslations
PROPERTIES
  
  RunsEnd
CHECK_DEADLOCK FALSE
