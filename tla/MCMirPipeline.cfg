\* Every body of five shapes with up to two statements in a block.
SPECIFICATION Spec
CONSTANTS
  x = x
  y = y
  n = n
  NoLocal = NoLocal
  Locals = {x, y, n}
  Eligible = {x, y}
  Bodies <- MCBodies
INVARIANTS
  TypeOK
  NoStaleRead
  
  LeaksAreConfined
  DropsBreakOnlyReturns
PROPERTIES
  EveryBodyIsDecided
CHECK_DEADLOCK FALSE
