\* Two tasks that store completions under the same keys.
SPECIFICATION Spec
CONSTANTS
  t1 = t1
  t2 = t2
  k1 = k1
  k2 = k2
  x1 = x1
  x2 = x2
  None = None
  Tasks = {t1, t2}
  Keys = {k1, k2}
  Texts = {x1, x2}
  Inodes = {1, 2, 3, 4, 5, 6}
  OverlappingPuts = TRUE
  IoFaults = FALSE
INVARIANTS
  ReadersNeverSeePartialFile
CHECK_DEADLOCK FALSE
