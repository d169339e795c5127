SPECIFICATION Spec
CONSTANTS
  N = 2
  b1 = b1
  b2 = b2
  b3 = b3
  Batch = {b1, b2, b3}
  home <- MCHome
  Passing <- MCPassing
  Windows = {}
  MaxEOFSeq = 2
  MaxCrashes = 1
  MaxRedeliveries = 1
CHECK_DEADLOCK FALSE
INVARIANTS
  TypeOK
  CountIsExact
  RowsOnce
  EndedIsComplete
  AnnouncedAreSent
