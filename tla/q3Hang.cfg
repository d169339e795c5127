SPECIFICATION Spec
CONSTANTS
  N = 2
  b1 = b1
  b2 = b2
  b3 = b3
  Batch = {b1}
  home <- MCHome
  Passing <- MCPassing
  Windows = {}
  MaxEOFSeq = 2
  MaxCrashes = 0
  MaxRedeliveries = 0
CHECK_DEADLOCK FALSE
PROPERTY EveryReplicaCloses
