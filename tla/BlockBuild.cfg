SPECIFICATION Spec
CONSTANTS
  b1 = b1  b2 = b2  p1 = p1
  timestamp = timestamp  balances = balances
  Queries = {b1, b2, p1}
  KindOf <- Kinds
  HeightsOf <- Asked
  Proxies = 2
  SpecOf <- Upgrade
  Block <- Blocks
  Listing <- Listings
  EventsOf <- SomeEvents
  Modules = {timestamp, balances}
  Fields = {"block", "version"}
  None = None
  NoID = NoID
  Zero = Zero
CHECK_DEADLOCK FALSE
INVARIANTS TypeOK DecoderOfVersion TransactionsRight EvenlyUsed EventsRight
