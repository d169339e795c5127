SPECIFICATION Spec
CONSTANTS
  payer = payer  payee = payee  mule1 = mule1  mule2 = mule2
  t1 = t1  t2 = t2  t3 = t3  t4 = t4  t5 = t5  t6 = t6  t7 = t7
  Account = {payer, payee, mule1, mule2}
  Threshold = 2
  MinIntermediates = 2
  Tx = {t1, t2, t3, t4, t5, t6, t7}
  edgeOf <- MCEdgeOf
  homeOf <- MCHomeOf
  NSharders = 1
  KFilters = 2
  KFinders = 2
  KCounters = 1
  shardFilter <- MCShardFilter
  shardFinder <- MCShardFinder
  shardCounter <- MCShardCounter
  checkpointInterval <- MCCheckpointInterval
  WAL = TRUE
  LoseEOFs = FALSE
  MaxCrashes = 1
INVARIANTS
  TypeOK
  PairsAreExact
  RecoveryIsExact
  TotalsAgree
  NobodyWaitsForEver
CHECK_DEADLOCK FALSE
