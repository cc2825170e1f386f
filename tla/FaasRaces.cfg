\* One spot, two reservations, a cancel call and two overlapping crons, which
\* are started again and again.
SPECIFICATION FairSpec
CONSTANTS
  Lots = {l1}
  Reservations = {r1, r2}
  Cancellers = {c1}
  Crons = {x1, x2}
  NoLot = NoLot
  NoReservation = NoReservation
  LotCapacity = 1
  Capacity <- MCCapacity
  Requests <- FullRequest
  Patches = {}
  Offsets <- UTC
  PageSize = 2
  MaxTime = 1
  MaxFailures = 1
INVARIANTS SpotsConserved NoOverbooking SingleReleaser
PROPERTIES ImplementsReservationLife ExpiresOnlyWhatEnded EndedReservationsExpire VacatedLotsFillUp
CHECK_DEADLOCK FALSE
