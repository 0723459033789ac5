SPECIFICATION FairSpec
CONSTANTS
  Nodes = {n1, n2}
  Patience = 3
  ConnTimeout = 3
  ResetAt = 2
  ExitAbove = 4
  Backlog = 4
INVARIANTS TypeOK BacklogBounded
PROPERTIES OldTroubleOnly SilenceEndsInExit TroubleForgotten
