SPECIFICATION FairSpec
CHECK_DEADLOCK FALSE
CONSTANTS
  s1 = s1  s2 = s2  s3 = s3
  c1 = c1  c2 = c2  c3 = c3
  Queries = {s1, s2}
  Chans = {c1, c2}
  KindOf <- AccountAndBlock
  PoolCap = 1
  HashesMissing = {0, 2}
  OthersRequests = 2
  StepTimeout = 1
  AnsweredBy = 2
  CleanupTimeout = 4
  NoChan = NoChan
PROPERTIES QueriesEnd
