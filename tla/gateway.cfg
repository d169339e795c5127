SPECIFICATION Spec
CONSTANTS
  c1 = c1
  c2 = c2
  Client = {c1}
  Messages = 1
  Results <- TwoQueries
  QueueSize = 2
  BatchLimit = 2
  Prefetch = 8
  MaxSessions = 2
  MaxFinal = 1
  MaxFaults = 1
INVARIANTS TypeOK PublishedIsRegistered AbortedIsOver ResultsAreExact AckedIsDelivered
PROPERTIES ClientsFinish SessionsReclaimed
CHECK_DEADLOCK FALSE
