SPECIFICATION Spec
CONSTANTS
  Terms <- MCTerms
  Feeds <- MCFeeds
  Sessions = {s1, s2}
  None = None
  New = New
  MaxMarkets = 3
  MaxQuotes = 4
SYMMETRY Interchangeable
INVARIANTS
  OpenHasBothSides
  CopiesAreBounded
CHECK_DEADLOCK FALSE
