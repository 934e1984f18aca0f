SPECIFICATION Spec
CONSTANTS
  Terms <- MCTerms
  Feeds = {}
  Sessions = {s1, s2}
  None = None
  New = New
  MaxMarkets = 2
  MaxQuotes = 2
INVARIANT
  OneMarketPerTerms
CHECK_DEADLOCK FALSE
