\* The page in either mode, with another client of parkirisca.
SPECIFICATION FairSpec
CONSTANTS
  Lots = {a, b}
  NoLot = NoLot
  Placed <- AllLookedUp
  Loads = {k1, k2}
  Rows <- FewRows
  Places = {p1, p2}
  NoPlace = NoPlace
  MaxClicks <- TwoOrThree
  MaxOthers = 1
  MaxFailures = 1
CHECK_DEADLOCK FALSE
INVARIANTS
  SelectionListed ResolvedWhenReady AnswersStayCached GhostsAreStale AddressOfLastPick
PROPERTIES
  PageSettles
