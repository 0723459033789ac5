SPECIFICATION FairSpec
CONSTANTS
  timestamp = timestamp  balances = balances
  From = 2
  To = 5
  SpecOf <- Upgrade
  Block <- Blocks
  Stored = {2, 4, 5}
  Modules = {timestamp, balances}
  MaxFailures = 5
  None = None
  Old = Old
  NoID = NoID
  Zero = Zero
CHECK_DEADLOCK FALSE
INVARIANTS TypeOK RowsRight FatalHasCause
PROPERTIES RerunCompletes
