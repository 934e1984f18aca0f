SPECIFICATION Spec
CONSTANTS
  Terms <- MCTerms
  Feeds = {}
  Sessions = {s1, s2}
  None = None
  New = New
  MaxMarkets = 1
  MaxQuotes = 2
INVARIANT
  PairsOpen
CHECK_DEADLOCK FALSE
