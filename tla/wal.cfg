SPECIFICATION Spec
CONSTANTS
  c1 = c1  c2 = c2  s1 = s1  s2 = s2  b1 = b1  b2 = b2
  Client = {c1, c2}
  Sender = {s1}
  Batch = {b1, b2}
  clientOf <- OneClient
  senderOf <- OneSender
  CheckpointInterval = 1
  PrefetchCount = 2
  WALEnabled = TRUE
  TornWrites = FALSE
  Abortable = {c1, c2}
  MaxEOFSeq = 2
  MaxCrashes = 2
  MaxRedeliveries = 1
INVARIANTS
  AckedBatchIsDurable
  ExactlyOnceEffect
PROPERTIES
  DurableNeverShrinks
CHECK_DEADLOCK FALSE
