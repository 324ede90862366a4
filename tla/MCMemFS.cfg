CONSTANTS
  NNodes = 4
  Names = {"a", "b"}
  Handles = {h1}
  Depth = 2
  Users = {p1, p2}
  Files = {f1, f2}
  Appenders = {f1}
  Payloads <- MCPayloads
  MaxSize = 2
SPECIFICATION Spec
INVARIANTS TreeIntact AppendsKept
PROPERTIES NothingLost ImplementsPosixFile
CHECK_DEADLOCK FALSE
