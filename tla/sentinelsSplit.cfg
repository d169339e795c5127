SPECIFICATION Spec
CONSTANTS
  worker = worker
  N = 3
  Container = {}
  MaxFaults = 0
PROPERTY OneLeader
CHECK_DEADLOCK FALSE
