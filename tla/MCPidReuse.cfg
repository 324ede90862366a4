CONSTANTS
  NProcs = 4
  NPids = 3
  Spawners = {1, 2}
  HostPid = 3
  HostPids = {2, 3}
  HostPidRange = 4
SPECIFICATION SafeSpec
INVARIANT AliveIsRegistered
CHECK_DEADLOCK FALSE
