CONSTANTS
  NProcs = 4
  NPids = 3
  Spawners = {1, 2}
  HostPid = 3
  HostPids = {2, 3}
  HostPidRange = 4
  MaxTimers = 3
  MaxTicks = 2
  Intervals = {0, 1}
SPECIFICATION MCSpec
INVARIANTS AliveUnlessRaced NoPidLeak NoLostChildEvent NoForgottenZombie AlarmNotLost OneTimerUnlessRaced
PROPERTIES CloseTerminates ZombiesAreReaped
CHECK_DEADLOCK FALSE
