CONSTANT NEntries = 3
SPECIFICATION Spec
INVARIANT HoldsCluster
CHECK_DEADLOCK FALSE
