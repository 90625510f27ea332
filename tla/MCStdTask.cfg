CONSTANTS
  MaxTasks = 2
  Main = main
  None = none
  PoolSize = 1
  Capacity = 0
  MaxMessages = 1
SPECIFICATION Spec

  
  
PROPERTIES
  QueuedTasksAreServed
  ImplementsChannel
CHECK_DEADLOCK FALSE
