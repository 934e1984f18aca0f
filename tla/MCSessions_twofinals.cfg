SPECIFICATION SessionsSpec
CONSTANTS
  a1 = a1  a2 = a2  b1 = b1  b2 = b2  g1 = g1  k1 = k1  s1 = s1  s2 = s2
  Accounts = {a1}
  Bankrolls = {1}
  Amounts = {}
  MaxDeposited = 1
  Opening = 1
  Bets = {b1, b2}
  Games = {g1}
  Quotes <- MCQuotes
  Keys = {k1}
  NoKey = NoKey
  NoBet = NoBet
  Stakes = {1}
  Scores <- MCScores
  NoScore = NoScore
  MaxCorrections = 1
  Sessions = {s1, s2}
  Capital = Capital
  Rows <- MCOneAccount
  NoGame = NoGame
PROPERTY
  FinalScoreStands
