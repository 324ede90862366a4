CONSTANTS
  NProcs = 2
  NPids = 2
  Spawners = {1}
  HostPid = 3
  HostPids = {2, 3}
  HostPidRange = 4
SPECIFICATION SafeSpec
INVARIANT CloseKillsAll
CHECK_DEADLOCK FALSE
