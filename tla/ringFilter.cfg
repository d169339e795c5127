SPECIFICATION Spec
CONSTANTS
  b1 = b1  b2 = b2  b3 = b3  b4 = b4
  N = 2
  Forwards = TRUE
  Broadcast = FALSE
  Batch = {b1, b2, b3}
  home <- OverTwo
  MaxEOFSeq = 3
  KillAfterSend = TRUE
  MaxCrashes = 2
  MaxRedeliveries = 1
INVARIANTS
  NoBatchLost
CHECK_DEADLOCK FALSE
