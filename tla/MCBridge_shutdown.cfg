CONSTANTS
  t1 = t1
  t2 = t2
  Threads <- OneThread
  MaxCommands = 3
  Serialized = TRUE
SPECIFICATION Spec
INVARIANTS RetainedUntilDone
