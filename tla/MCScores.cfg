SPECIFICATION FairSpec
CONSTANTS
  Games = {g1, g2}
  Providers = {p1, p2}
  Scores = {s1, s2}
  g1 = g1
  g2 = g2
  s1 = s1
  s2 = s2
  NoScore = NoScore
  Reports <- MCReports
  Jobs = {j1}
  Callers = {c1, c2}
  Recorded = {g1}
  Locked = TRUE
INVARIANTS
  TypeOK
  SyncStateIsAccurate
PROPERTIES
  OnlyDecisionsRelease
  SettlesWhatWasAgreed
  OnlyEarlyReadersOverwrite
  ConfirmedGamesSettle
CHECK_DEADLOCK FALSE
