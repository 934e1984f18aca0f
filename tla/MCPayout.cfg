SPECIFICATION Spec
CONSTANTS
  MaxStake = 7
  MaxScore = 3
  Lines <- MCLines
  Odds <- MCOdds
  None = None
INVARIANTS
  OneSideWins
  ProfitRounded
  BetterTermsNeverPayLess
  QuotesMeanWhatIsOffered
