CONSTANTS
  Procs = {p1, p2}
  First = p1
  NFds = 2
  Capacity = 3
  Atomic = 2
  Sizes = {2, 3}
  Events = {{"IN", "OUT"}}
  Users = {p1, p2, p3}
  Chunk = 2
  Ahead = 3
  ReadSizes = {1, 3}
SPECIFICATION MCSpec
INVARIANTS RefsExact NoMissedChange NeverSplit PollAgrees NoMissedInput NoMissedRoom
PROPERTIES HangupEndsWait
CHECK_DEADLOCK FALSE
