CONSTANTS
  Threads = {main, t1, t2}
  First = main
  None = none
  Capacity = 2
  MaxMessages = 4
SPECIFICATION ChSpec
INVARIANTS
  ChTypeOK
  NobodyJumpsTheQueue
PROPERTIES
  ImplementsFifo
  EndIsFinal
  NobodySleepsForever
CHECK_DEADLOCK FALSE
