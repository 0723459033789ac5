SPECIFICATION Spec
CONSTANTS
  s1 = s1
  w1 = w1  w2 = w2
  t1 = t1  t2 = t2
  Streams = {s1}
  Workers = {w1, w2}
  StreamOf <- OneStream
  Tasks = {t1, t2}
  Heights = {1, 2}
  HasTxs = {1}
  Requests <- OverlappingRanges
CHECK_DEADLOCK FALSE
INVARIANT OneFinalResponse
