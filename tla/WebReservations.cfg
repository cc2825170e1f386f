\* Two users of one tab, two reservations, three requests in flight.
SPECIFICATION FairSpec
CONSTANTS
  Users = {u, v}
  NoUser = NoUser
  Rows = {r1, r2}
  Earlier <- OneRow
  Lots = {a, b}
  NoLot = NoLot
  MaxCalls = 3
  MaxClicks = 2
  MaxMoves = 4
  MaxFailures = 1
CHECK_DEADLOCK FALSE
INVARIANTS
  ListIsOwn ListIsCurrent OneCreation ReservedLotIsChosen
PROPERTIES
  PageRecovers
