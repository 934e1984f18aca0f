SPECIFICATION Spec
CONSTANTS
  a1 = a1  a2 = a2  b1 = b1  b2 = b2  g1 = g1  g2 = g2  k1 = k1
  Accounts = {a1, a2}
  Bankrolls = {0, 1}
  Amounts = {1}
  MaxDeposited = 1
  Bets = {b1, b2}
  Games = {g1, g2}
  Quotes <- MCQuotes
  Keys = {k1}
  NoKey = NoKey
  NoBet = NoBet
  Stakes = {1}
  Scores <- MCScores
  NoScore = NoScore
  MaxCorrections = 0
SYMMETRY Interchangeable
INVARIANT
  NoPendingBetOnFinalGame
CHECK_DEADLOCK FALSE
