CONSTANTS
  Procs = {1, 2}
  Ahead = 2
  Room = 2
  Chunk = 1
  Kinds <- MCKinds
  Sizes = {1, 2}
  MaxIn = 2
  MaxOut = 4
SPECIFICATION MCSpec
INVARIANTS StreamsIntact NoMissedChange FlushedBeforeClose
PROPERTIES ReleaseEndsAll
CHECK_DEADLOCK FALSE
