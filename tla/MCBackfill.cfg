SPECIFICATION Spec
CONSTANTS
  e1 = e1
  e2 = e2
  e3 = e3
  Teams = {"A", "B"}
  Times = {1, 2}
  Events = {e1, e2, e3}
  Lines <- MCLines
  Odds = {100}
  MaxGames = 1
  None = None
  LastDay = 2
  Snapshots <- MCSnapshots
  Idle = Idle
INVARIANTS
  TypeOK
  QuotesFollowLinks
  CompletedDaysAreImported
  NoDayIsPassedOver
PROPERTY
  StoredSidesOpen
