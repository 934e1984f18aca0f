SPECIFICATION Spec
CONSTANTS
  Games = {g1, g2}
  Providers = {p1, p2}
  Scores = {s1, s2}
  g1 = g1
  g2 = g2
  s1 = s1
  s2 = s2
  NoScore = NoScore
  Reports <- MCReports
  Jobs = {j1}
  Callers = {}
  Recorded = {g1, g2}
  Locked = TRUE
PROPERTY
  SettlesOnlyConfirmed
CHECK_DEADLOCK FALSE
