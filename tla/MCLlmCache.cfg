\* Two tasks that never overlap their stores of one key; system calls fail and
\* processes die at every step.
SPECIFICATION Spec
CONSTANTS
  t1 = t1
  t2 = t2
  k1 = k1
  k2 = k2
  x1 = x1
  x2 = x2
  None = None
  Tasks = {t1, t2}
  Keys = {k1, k2}
  Texts = {x1, x2}
  Inodes = {1, 2, 3, 4, 5, 6}
  OverlappingPuts = FALSE
  IoFaults = TRUE
SYMMETRY Interchange
INVARIANTS
  CacheInv
PROPERTIES
  ImplementsAtomicCache
CHECK_DEADLOCK FALSE
