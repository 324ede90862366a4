CONSTANTS
  Procs = {p1, p2, p3}
  Targets = {p1}
  Initial = 1
  MaxCount = 2
  MaxPosting = 2
SPECIFICATION Spec
INVARIANT NoLostWakeup
PROPERTIES ImplementsAbstractSema KillTakesEffect
