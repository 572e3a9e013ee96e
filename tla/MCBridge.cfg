CONSTANTS
  t1 = t1
  t2 = t2
  Threads <- TwoThreads
  MaxCommands = 3
  Serialized = TRUE
SPECIFICATION Spec
INVARIANTS TypeOK RetainedUntilReleased SynchronizeDrains ChecksSeeResults ShutdownLeavesNothing
PROPERTIES EveryWaitEnds
