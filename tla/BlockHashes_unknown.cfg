SPECIFICATION Spec
CONSTANTS
  Queries = {q1, q2}
  Nodes = {n1, n2}
  MaxHeight = 2
  CacheCap = 2
  Null = Null
  Blank = Blank
SYMMETRY QuerySymmetry
INVARIANTS UnknownBlockFails
