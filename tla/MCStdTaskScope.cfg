CONSTANTS
  MaxTasks = 1
  Main = main
  None = none
  PoolSize = 1
  Capacity = 0
  MaxMessages = 0
SPECIFICATION Spec
INVARIANTS
  ScopeJoinsChildren
CHECK_DEADLOCK FALSE
