SPECIFICATION Spec
CONSTANTS
  c1 = c1  c2 = c2  s1 = s1  s2 = s2  b1 = b1  b2 = b2
  Client = {c1, c2}
  Sender = {s1, s2}
  Batch = {b1, b2}
  clientOf <- TwoClients
  senderOf <- TwoSenders
  CheckpointInterval = 2
  PrefetchCount = 2
  WALEnabled = FALSE
  TornWrites = FALSE
  Abortable = {c1}
  MaxEOFSeq = 2
  MaxCrashes = 1
  MaxRedeliveries = 0
INVARIANTS
  TypeOK
  AckedBatchIsDurable
  AckedBatchIsForwarded
  ExactlyOnceEffect
  ResultIsComplete
PROPERTIES
  DurableNeverShrinks
  AggregatedEOFEmitted
  AbortForgetsClient
CHECK_DEADLOCK FALSE
