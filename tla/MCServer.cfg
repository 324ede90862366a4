CONSTANTS
  NProcs = 2
  Clients = {"client"}
  Conns = {1, 2}
SPECIFICATION Spec
INVARIANTS NoOrphan NameIsLive
PROPERTIES DialsEnd StartEnds CloseReturns
CHECK_DEADLOCK FALSE
