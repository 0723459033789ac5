SPECIFICATION Spec
CONSTANTS
  n1 = n1  n2 = n2
  r1 = r1  r2 = r2  r3 = r3
  c1 = c1
  Nodes = {n1, n2}
  Reqs = {r1, r2}
  Chans = {c1}
  ChanOf <- OneCaller
  Unencodable = {}
  ChanCap = 1
  MaxInFlight = 2
  NoResult = NoResult
SYMMETRY NodeSymmetry
INVARIANTS TypeOK AtMostOneAnswer RightAnswer NoEntryOutlivesRun
PROPERTIES NeverRefusedLater
