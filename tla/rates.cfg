SPECIFICATION Spec
CONSTANTS
  N = 2
  euro = euro  yen = yen  usd = usd
  Batch = {euro, yen, usd}
  home <- MCHome
  Micro <- MCMicro
  Domestic <- MCDomestic
  Windows = {}
  MaxEOFSeq = 2
  MaxCrashes = 1
  MaxRefetches = 1
INVARIANTS
  TypeOK
  AnswerIsExact
PROPERTY AnswerArrives
CHECK_DEADLOCK FALSE
