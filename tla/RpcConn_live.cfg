SPECIFICATION FairSpec
CONSTANTS
  n1 = n1  n2 = n2
  r1 = r1  r2 = r2  r3 = r3
  c1 = c1
  Nodes = {n1}
  Reqs = {r1, r2, r3}
  Chans = {c1}
  ChanOf <- OneCaller
  Unencodable = {r3}
  ChanCap = 2
  MaxInFlight = 2
  NoResult = NoResult
INVARIANTS NoRequestLost AnswerersNeverBlock
PROPERTIES EveryRequestAnswered ImplementsService
