SPECIFICATION Spec
CONSTANTS
  MaxStake = 7
  MaxScore = 3
  Lines <- MCLines
  Odds <- MCOdds
  None = None
INVARIANT
  AwaySpreadsToo
