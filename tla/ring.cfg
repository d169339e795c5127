SPECIFICATION Spec
CONSTANTS
  b1 = b1  b2 = b2  b3 = b3  b4 = b4
  N = 3
  Forwards = FALSE
  Broadcast = TRUE
  Batch = {b1, b2, b3, b4}
  home <- OverThree
  MaxEOFSeq = 4
  KillAfterSend = FALSE
  MaxCrashes = 1
  MaxRedeliveries = 0
INVARIANTS
  TypeOK
  OneRound
  ClosedIsComplete
PROPERTIES
  ImplementsPromise
CHECK_DEADLOCK FALSE
